------------------------ MODULE WebSocketManagerProofs ------------------------
(***************************************************************************)
(* Proofs about the WebSocket manager, for any clients and any number of    *)
(* their connections.                                                       *)
(***************************************************************************)
EXTENDS WebSocketManager, TLAPS

(***************************************************************************)
(* Registered sockets belong to their client and have been accepted, and    *)
(* what the cleanup is about to drop has been accepted and closed: a socket *)
(* that connect() registers later can be neither.                           *)
(***************************************************************************)
Accepted(s) == handler[s] \notin {"none", "accepting"}

EntriesOwned ==
    \A c \in Clients : active[c] # NoSocket => Owner[active[c]] = c /\ Accepted(active[c])

ClosingClosed == closing # NoSocket => wire[closing] = "closed" /\ Accepted(closing)

ManagerInv == TypeOK /\ EntriesOwned /\ ClosingClosed /\ ServedIsRegistered

LEMMA ManagerInit == Init => ManagerInv
  BY SocketAssumption
     DEF Init, ManagerInv, TypeOK, EntriesOwned, ClosingClosed, ServedIsRegistered

(***************************************************************************)
(* disconnect() of a closed socket takes the entry of no open one.          *)
(***************************************************************************)
LEMMA DisconnectTakesOwn ==
  ASSUME TypeOK, NEW s \in Sockets, Disconnect(s)
  PROVE  /\ active' \in [Clients -> Sockets \cup {NoSocket}]
         /\ recent' \in [Clients -> Nat]
         /\ \A c \in Clients : active'[c] = active[c] \/ (active[c] = s /\ active'[c] = NoSocket)
  BY SocketAssumption DEF TypeOK, Disconnect

(***************************************************************************)
(* A step that registers nothing keeps the invariant when it opens nothing, *)
(* moves accepted handlers to accepted states, takes only entries of closed *)
(* sockets, and lets a replaced socket go only when it is closed.           *)
(***************************************************************************)
LEMMA QuietStep ==
  ASSUME ManagerInv, TypeOK',
         \A s \in Sockets : wire'[s] = wire[s] \/ wire'[s] = "closed",
         \A s \in Sockets : Accepted(s) => Accepted(s)',
         \A s \in Sockets : Accepted(s)' /\ handler'[s] # "gone" => Accepted(s) /\ handler[s] # "gone",
         \A c \in Clients : active'[c] = active[c]
                              \/ (active'[c] = NoSocket /\ wire'[active[c]] = "closed"),
         \A t \in Sockets : handler[t] = "registered" /\ replaced[t] \in Sockets =>
             (handler'[t] = "registered" /\ replaced'[t] = replaced[t])
               \/ wire'[replaced[t]] = "closed",
         ClosingClosed'
  PROVE  ManagerInv'
  <1>1. TypeOK /\ EntriesOwned /\ ServedIsRegistered
    BY DEF ManagerInv
  <1>2. EntriesOwned'
    BY <1>1 DEF EntriesOwned, TypeOK
  <1>3. ServedIsRegistered'
    <2> SUFFICES ASSUME NEW s \in Sockets, handler'[s] \in {"registered", "serving"},
                        wire'[s] = "open"
                 PROVE  \/ active'[Owner[s]] = s
                        \/ \E t \in Sockets : handler'[t] = "registered" /\ replaced'[t] = s
      BY DEF ServedIsRegistered
    <2>1. handler[s] \in {"registered", "serving"} /\ wire[s] = "open"
      BY <1>1 DEF TypeOK, Accepted
    <2>2. \/ active[Owner[s]] = s
          \/ \E t \in Sockets : handler[t] = "registered" /\ replaced[t] = s
      BY <1>1, <2>1 DEF ServedIsRegistered
    <2> QED
      BY <2>2, SocketAssumption
  <1> QED
    BY <1>2, <1>3 DEF ManagerInv

(***************************************************************************)
(* connect() registers an accepted socket: the one it replaces is not that  *)
(* socket, and is now the registering handler's to close.                   *)
(***************************************************************************)
LEMMA RegisterKeepsInv ==
  ASSUME ManagerInv, NEW s \in Sockets, NEW state \in {"open", "closed"}, Register(s, state)
  PROVE  ManagerInv'
  <1> DEFINE c == Owner[s]
  <1>1. TypeOK /\ EntriesOwned /\ ClosingClosed /\ ServedIsRegistered /\ c \in Clients
    BY SocketAssumption DEF ManagerInv
  <1>2. /\ handler[s] = "accepting"
        /\ wire' = [wire EXCEPT ![s] = state]
        /\ replaced' = [replaced EXCEPT ![s] = active[c]]
        /\ active' = [active EXCEPT ![c] = s]
        /\ fresh' = fresh \cup {c}
        /\ handler' = [handler EXCEPT ![s] = "registered"]
        /\ UNCHANGED <<recent, targets, closing>>
    BY DEF Register, Move, cleanupVars
  <1>3. TypeOK'
    BY <1>1, <1>2 DEF TypeOK
  <1>4. EntriesOwned'
    BY <1>1, <1>2, SocketAssumption DEF EntriesOwned, Accepted, TypeOK
  <1>5. ClosingClosed'
    BY <1>1, <1>2, SocketAssumption DEF ClosingClosed, Accepted, TypeOK
  <1>6. ServedIsRegistered'
    <2> SUFFICES ASSUME NEW u \in Sockets, handler'[u] \in {"registered", "serving"},
                        wire'[u] = "open"
                 PROVE  \/ active'[Owner[u]] = u
                        \/ \E t \in Sockets : handler'[t] = "registered" /\ replaced'[t] = u
      BY DEF ServedIsRegistered
    <2>1. CASE u = s
      BY <1>1, <1>2, <2>1 DEF TypeOK
    <2>2. CASE u # s
      <3>1. handler[u] \in {"registered", "serving"} /\ wire[u] = "open"
        BY <1>1, <1>2, <2>2 DEF TypeOK
      <3>2. CASE active[Owner[u]] = u
        <4>1. CASE Owner[u] = c
          BY <1>1, <1>2, <3>2, <4>1 DEF TypeOK
        <4>2. CASE Owner[u] # c
          BY <1>1, <1>2, <3>2, <4>2, SocketAssumption DEF TypeOK
        <4> QED
          BY <4>1, <4>2
      <3>3. ASSUME NEW t \in Sockets, handler[t] = "registered", replaced[t] = u
            PROVE  handler'[t] = "registered" /\ replaced'[t] = u
        BY <1>1, <1>2, <3>3 DEF TypeOK
      <3> QED
        BY <1>1, <3>1, <3>2, <3>3 DEF ServedIsRegistered
    <2> QED
      BY <2>1, <2>2
  <1> QED
    BY <1>3, <1>4, <1>5, <1>6 DEF ManagerInv

LEMMA ManagerNext == ManagerInv /\ [Next]_vars => ManagerInv'
  <1> SUFFICES ASSUME ManagerInv, [Next]_vars PROVE ManagerInv'
    OBVIOUS
  <1>0. TypeOK /\ EntriesOwned /\ ClosingClosed
    BY DEF ManagerInv
  <1>1. ASSUME NEW s \in Sockets, Admit(s) \/ Reject(s) \/ AcceptFails(s)
        PROVE  ManagerInv'
    <2>1. TypeOK'
      BY <1>0, <1>1 DEF TypeOK, Admit, Reject, AcceptFails, Move, CloseWire, cleanupVars
    <2>2. ClosingClosed'
      BY <1>0, <1>1
         DEF TypeOK, ClosingClosed, Accepted, Admit, Reject, AcceptFails, Move, CloseWire,
             cleanupVars
    <2> QED
      BY <1>0, <1>1, <2>1, <2>2, QuietStep
         DEF TypeOK, Accepted, Admit, Reject, AcceptFails, Move, CloseWire, cleanupVars
  <1>2. ASSUME NEW s \in Sockets, CloseReplaced(s)
        PROVE  ManagerInv'
    <2>1. TypeOK'
      BY <1>0, <1>2 DEF TypeOK, CloseReplaced, Move, cleanupVars
    <2>2. ClosingClosed'
      BY <1>0, <1>2 DEF TypeOK, ClosingClosed, Accepted, CloseReplaced, Move, cleanupVars
    <2> QED
      BY <1>0, <1>2, <2>1, <2>2, QuietStep
         DEF TypeOK, Accepted, CloseReplaced, Move, cleanupVars
  <1>3. ASSUME NEW s \in Sockets, Leave(s)
        PROVE  ManagerInv'
    <2>1. /\ handler[s] = "serving" /\ wire[s] = "closed"
          /\ handler' = [handler EXCEPT ![s] = "gone"]
          /\ Disconnect(s)
          /\ UNCHANGED <<wire, replaced, fresh, targets, closing>>
      BY <1>3 DEF Leave, Move, cleanupVars
    <2>2. /\ active' \in [Clients -> Sockets \cup {NoSocket}]
          /\ recent' \in [Clients -> Nat]
          /\ \A c \in Clients : active'[c] = active[c]
                                  \/ (active[c] = s /\ active'[c] = NoSocket)
      BY <1>0, <2>1, DisconnectTakesOwn
    <2>3. TypeOK'
      BY <1>0, <2>1, <2>2 DEF TypeOK
    <2>4. ClosingClosed'
      BY <1>0, <2>1 DEF ClosingClosed, Accepted, TypeOK
    <2> QED
      BY <1>0, <2>1, <2>2, <2>3, <2>4, QuietStep DEF TypeOK, Accepted
  <1>4. ASSUME NEW s \in Sockets, Ping(s) \/ Crash(s) \/ Lose(s)
        PROVE  ManagerInv'
    <2>1. TypeOK'
      BY <1>0, <1>4, SocketAssumption
         DEF TypeOK, Ping, Crash, Lose, Move, CloseWire, handlerVars, cleanupVars
    <2>2. ClosingClosed'
      BY <1>0, <1>4
         DEF TypeOK, ClosingClosed, Accepted, Ping, Crash, Lose, Move, CloseWire,
             handlerVars, cleanupVars
    <2> QED
      BY <1>0, <1>4, <2>1, <2>2, QuietStep
         DEF TypeOK, Accepted, Ping, Crash, Lose, Move, CloseWire, handlerVars, cleanupVars
  <1>5. CASE Collect
    <2>1. TypeOK'
      BY <1>0, <1>5 DEF TypeOK, Collect, Stale, handlerVars
    <2>2. ClosingClosed'
      BY <1>0, <1>5 DEF ClosingClosed, Accepted, Collect, handlerVars
    <2> QED
      BY <1>0, <1>5, <2>1, <2>2, QuietStep DEF TypeOK, Accepted, Collect, handlerVars
  <1>6. ASSUME NEW s \in Sockets, CloseStale(s)
        PROVE  ManagerInv'
    <2>1. TypeOK'
      BY <1>0, <1>6 DEF TypeOK, CloseStale, CloseWire
    <2>2. ClosingClosed'
      BY <1>0, <1>6, SocketAssumption
         DEF TypeOK, EntriesOwned, ClosingClosed, Accepted, CloseStale, CloseWire
    <2> QED
      BY <1>0, <1>6, <2>1, <2>2, QuietStep DEF TypeOK, Accepted, CloseStale, CloseWire
  <1>7. CASE DropStale
    <2>1. /\ closing \in Sockets /\ wire[closing] = "closed" /\ Disconnect(closing)
          /\ closing' = NoSocket
          /\ UNCHANGED <<wire, handler, replaced, fresh, targets>>
      BY <1>0, <1>7 DEF TypeOK, ClosingClosed, DropStale, handlerVars
    <2>2. /\ active' \in [Clients -> Sockets \cup {NoSocket}]
          /\ recent' \in [Clients -> Nat]
          /\ \A c \in Clients : active'[c] = active[c]
                                  \/ (active[c] = closing /\ active'[c] = NoSocket)
      BY <1>0, <2>1, DisconnectTakesOwn
    <2>3. TypeOK'
      BY <1>0, <2>1, <2>2 DEF TypeOK
    <2>4. ClosingClosed'
      BY <2>1 DEF ClosingClosed
    <2> QED
      BY <1>0, <2>1, <2>2, <2>3, <2>4, QuietStep DEF TypeOK, Accepted
  <1>8. ASSUME NEW c \in Clients, Expire(c) \/ Forget(c)
        PROVE  ManagerInv'
    <2>1. TypeOK'
      BY <1>0, <1>8 DEF TypeOK, Expire, Forget, handlerVars, cleanupVars
    <2>2. ClosingClosed'
      BY <1>0, <1>8 DEF ClosingClosed, Accepted, Expire, Forget, handlerVars, cleanupVars
    <2> QED
      BY <1>0, <1>8, <2>1, <2>2, QuietStep
         DEF TypeOK, Accepted, Expire, Forget, handlerVars, cleanupVars
  <1>9. CASE UNCHANGED vars
    <2>1. TypeOK' /\ ClosingClosed'
      BY <1>0, <1>9 DEF TypeOK, ClosingClosed, Accepted, vars, handlerVars, cleanupVars
    <2> QED
      BY <1>0, <1>9, <2>1, QuietStep DEF TypeOK, Accepted, vars, handlerVars, cleanupVars
  <1> QED
    BY <1>1, <1>2, <1>3, <1>4, <1>5, <1>6, <1>7, <1>8, <1>9, RegisterKeepsInv
       DEF Next, Handle, Cleanup

THEOREM ManagerInvariant == Spec => []ManagerInv
  BY ManagerInit, ManagerNext, PTL DEF Spec

(***************************************************************************)
(* The types, for any clients and sockets.                                  *)
(***************************************************************************)
THEOREM TypeCorrect == Spec => []TypeOK
  BY ManagerInvariant, PTL DEF ManagerInv

(***************************************************************************)
(* No open socket is served behind the manager's back.                      *)
(***************************************************************************)
THEOREM NoGhostConnection == Spec => []ServedIsRegistered
  BY ManagerInvariant, PTL DEF ManagerInv

-----------------------------------------------------------------------------
(***************************************************************************)
(* Only disconnect() removes entries.  The handler calls it for a socket it *)
(* saw closed, the cleanup for the one it closed before it awaited.         *)
(***************************************************************************)
LEMMA EntryTaken ==
  ASSUME ManagerInv, [Next]_vars, NEW c \in Clients,
         active[c] # NoSocket, active'[c] = NoSocket
  PROVE  wire[active[c]] = "closed"
  <1>0. TypeOK /\ ClosingClosed
    BY DEF ManagerInv
  <1>1. ASSUME NEW s \in Sockets, Disconnect(s), wire[s] = "closed"
        PROVE  wire[active[c]] = "closed"
    BY <1>0, <1>1, DisconnectTakesOwn
  <1>2. CASE UNCHANGED active
    BY <1>2
  <1>3. ASSUME NEW s \in Sockets, NEW state \in {"open", "closed"}, Register(s, state)
        PROVE  wire[active[c]] = "closed"
    BY <1>0, <1>3, SocketAssumption DEF Register, TypeOK
  <1>4. ASSUME NEW s \in Sockets, Leave(s)
        PROVE  wire[active[c]] = "closed"
    BY <1>1, <1>4 DEF Leave
  <1>5. CASE DropStale
    BY <1>0, <1>1, <1>5 DEF DropStale, ClosingClosed, TypeOK
  <1> QED
    BY <1>2, <1>3, <1>4, <1>5
       DEF Next, Handle, Cleanup, Admit, Reject, AcceptFails, CloseReplaced, Ping, Crash,
           Lose, Collect, CloseStale, Expire, Forget, vars, handlerVars

(***************************************************************************)
(* No live connection loses its entry, whichever handlers and cleanups are  *)
(* late; for any clients and any number of connections.                     *)
(***************************************************************************)
THEOREM LiveIsKept == Spec => LiveStaysRegistered
  <1>1. ManagerInv /\ [Next]_vars =>
          [\A c \in Clients :
             active[c] # NoSocket /\ active'[c] = NoSocket => wire[active[c]] = "closed"]_vars
    BY EntryTaken
  <1> QED
    BY ManagerInvariant, <1>1, PTL DEF Spec, LiveStaysRegistered
=============================================================================
