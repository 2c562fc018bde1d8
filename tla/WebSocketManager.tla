--------------------------- MODULE WebSocketManager ---------------------------
(***************************************************************************)
(* WebSocketManager of src/api/websocket_manager.py with its two users in   *)
(* src/api/main.py: the route's handler, one per socket, and the stale      *)
(* cleanup loop.  All are coroutines of one event loop; a step ends where   *)
(* one of them awaits the network.  The lock is never held across such an   *)
(* await except to reject a socket, which changes nothing the lock guards.  *)
(* Messages are left out; of a client's history of disconnections only the  *)
(* number of recent ones is kept.                                           *)
(***************************************************************************)
EXTENDS Naturals

CONSTANTS Clients,        \* client ids
          Sockets,        \* WebSocket objects, one per connection request
          Owner,          \* the client id each socket connects as
          MaxReconnects,  \* max_reconnect_attempts
          NoSocket

ASSUME SocketAssumption ==
    /\ Owner \in [Sockets -> Clients]
    /\ NoSocket \notin Sockets
    /\ MaxReconnects \in Nat

VARIABLES
    wire,      \* the connection of each socket
    handler,   \* where the socket's route handler stands
    replaced,  \* the socket its connect() replaced and has yet to close
    active,    \* active_connections: the registered socket of each client
    fresh,     \* clients whose entry saw a heartbeat within the timeout
    recent,    \* disconnect_history: entries of the last 60 seconds
    targets,   \* cleanup_stale_connections: stale_targets still to handle
    closing    \* the target the cleanup has closed and not dropped yet

handlerVars == <<wire, handler, replaced>>
cleanupVars == <<targets, closing>>
vars == <<handlerVars, active, fresh, recent, cleanupVars>>

TypeOK ==
    /\ wire \in [Sockets -> {"new", "open", "closed"}]
    /\ handler \in [Sockets -> {"none", "accepting", "registered", "serving", "gone"}]
    /\ replaced \in [Sockets -> Sockets \cup {NoSocket}]
    /\ active \in [Clients -> Sockets \cup {NoSocket}]
    /\ fresh \subseteq Clients
    /\ recent \in [Clients -> Nat]
    /\ targets \subseteq Sockets
    /\ closing \in Sockets \cup {NoSocket}

Init ==
    /\ wire = [s \in Sockets |-> "new"]
    /\ handler = [s \in Sockets |-> "none"]
    /\ replaced = [s \in Sockets |-> NoSocket]
    /\ active = [c \in Clients |-> NoSocket]
    /\ fresh = {}
    /\ recent = [c \in Clients |-> 0]
    /\ targets = {}
    /\ closing = NoSocket

-----------------------------------------------------------------------------
Move(s, state) == handler' = [handler EXCEPT ![s] = state]

CloseWire(s) == wire' = [wire EXCEPT ![s] = "closed"]

(***************************************************************************)
(* connect(): the reconnect limit, checked before the socket is accepted.   *)
(***************************************************************************)
Admit(s) ==
    /\ handler[s] = "none"
    /\ recent[Owner[s]] < MaxReconnects
    /\ Move(s, "accepting")
    /\ UNCHANGED <<wire, replaced, active, fresh, recent, cleanupVars>>

Reject(s) ==
    /\ handler[s] = "none"
    /\ recent[Owner[s]] >= MaxReconnects
    /\ Move(s, "gone")
    /\ CloseWire(s)
    /\ UNCHANGED <<replaced, active, fresh, recent, cleanupVars>>

(***************************************************************************)
(* connect(), after accept(): the client may have gone meanwhile, and the   *)
(* entry of an older connection is replaced before that one is closed.      *)
(***************************************************************************)
AcceptFails(s) ==
    /\ handler[s] = "accepting"
    /\ Move(s, "gone")
    /\ CloseWire(s)
    /\ UNCHANGED <<replaced, active, fresh, recent, cleanupVars>>

Register(s, state) ==
    /\ handler[s] = "accepting"
    /\ wire' = [wire EXCEPT ![s] = state]
    /\ replaced' = [replaced EXCEPT ![s] = active[Owner[s]]]
    /\ active' = [active EXCEPT ![Owner[s]] = s]
    /\ fresh' = fresh \cup {Owner[s]}
    /\ Move(s, "registered")
    /\ UNCHANGED <<recent, cleanupVars>>

CloseReplaced(s) ==
    /\ handler[s] = "registered"
    /\ wire' = [t \in Sockets |-> IF t = replaced[s] THEN "closed" ELSE wire[t]]
    /\ replaced' = [replaced EXCEPT ![s] = NoSocket]
    /\ Move(s, "serving")
    /\ UNCHANGED <<active, fresh, recent, cleanupVars>>

\* Mutated form of Disconnect: the entry goes, whichever socket it names.
DisconnectAny(s) ==
    LET c == Owner[s] IN
    IF active[c] = NoSocket
      THEN UNCHANGED <<active, recent>>
      ELSE /\ active' = [active EXCEPT ![c] = NoSocket]
           /\ recent' = [recent EXCEPT ![c] = @ + 1]

(***************************************************************************)
(* disconnect(client_id, s): without an entry nothing happens; an entry     *)
(* that names another socket stays, and the disconnection counts all the    *)
(* same.                                                                    *)
(***************************************************************************)
Disconnect(s) ==
    LET c == Owner[s] IN
    IF active[c] = NoSocket
      THEN UNCHANGED <<active, recent>>
      ELSE /\ active' = [active EXCEPT ![c] = IF @ = s THEN NoSocket ELSE @]
           /\ recent' = [recent EXCEPT ![c] = @ + 1]

(***************************************************************************)
(* The handler: a ping refreshes whatever entry its client id has, also     *)
(* when the ping was still buffered on a closed or replaced socket.         *)
(***************************************************************************)
Ping(s) ==
    /\ handler[s] = "serving"
    /\ fresh' = fresh \cup {c \in {Owner[s]} : active[c] # NoSocket}
    /\ UNCHANGED <<handlerVars, active, recent, cleanupVars>>

(***************************************************************************)
(* WebSocketDisconnect ends the handler through disconnect(); any other     *)
(* exception, a pong on a socket the manager closed or a frame that is not  *)
(* text, ends it without, and the server closes the socket.                 *)
(***************************************************************************)
Leave(s) ==
    /\ handler[s] = "serving"
    /\ wire[s] = "closed"
    /\ Move(s, "gone")
    /\ Disconnect(s)
    /\ UNCHANGED <<wire, replaced, fresh, cleanupVars>>

Crash(s) ==
    /\ handler[s] = "serving"
    /\ Move(s, "gone")
    /\ CloseWire(s)
    /\ UNCHANGED <<replaced, active, fresh, recent, cleanupVars>>

\* The client or the network ends an open connection.
Lose(s) ==
    /\ wire[s] = "open"
    /\ CloseWire(s)
    /\ UNCHANGED <<handler, replaced, active, fresh, recent, cleanupVars>>

-----------------------------------------------------------------------------
(***************************************************************************)
(* cleanup_stale_connections(): the stale entries of one moment; for each,  *)
(* unless the entry names another socket by then, close and disconnect().   *)
(***************************************************************************)
Stale == {s \in Sockets : active[Owner[s]] = s /\ Owner[s] \notin fresh}

Collect ==
    /\ targets = {}
    /\ closing = NoSocket
    /\ targets' = Stale
    /\ UNCHANGED <<handlerVars, active, fresh, recent, closing>>

\* Mutated form of CloseStale: the targets are closed and their entries are
\* left to the handlers.
CloseStaleOnly(s) ==
    /\ closing = NoSocket
    /\ s \in targets
    /\ targets' = targets \ {s}
    /\ wire' = [wire EXCEPT ![s] = IF active[Owner[s]] = s THEN "closed" ELSE @]
    /\ UNCHANGED <<handler, replaced, active, fresh, recent, closing>>

CloseStale(s) ==
    /\ closing = NoSocket
    /\ s \in targets
    /\ targets' = targets \ {s}
    /\ \/ /\ active[Owner[s]] = s
          /\ CloseWire(s)
          /\ closing' = s
       \/ /\ active[Owner[s]] # s
          /\ UNCHANGED <<wire, closing>>
    /\ UNCHANGED <<handler, replaced, active, fresh, recent>>

DropStale ==
    /\ closing # NoSocket
    /\ Disconnect(closing)
    /\ closing' = NoSocket
    /\ UNCHANGED <<handlerVars, fresh, targets>>

(***************************************************************************)
(* Time: an entry goes without a heartbeat for the timeout, and recorded    *)
(* disconnections age out of the window.                                    *)
(***************************************************************************)
Expire(c) ==
    /\ c \in fresh
    /\ fresh' = fresh \ {c}
    /\ UNCHANGED <<handlerVars, active, recent, cleanupVars>>

Forget(c) ==
    /\ recent[c] > 0
    /\ recent' = [recent EXCEPT ![c] = @ - 1]
    /\ UNCHANGED <<handlerVars, active, fresh, cleanupVars>>

-----------------------------------------------------------------------------
Handle(s) == CloseReplaced(s) \/ Leave(s)

Cleanup == Collect \/ DropStale \/ \E s \in Sockets : CloseStale(s)

Next ==
    \/ \E s \in Sockets :
          \/ Admit(s)
          \/ Reject(s)
          \/ AcceptFails(s)
          \/ \E state \in {"open", "closed"} : Register(s, state)
          \/ Handle(s)
          \/ Ping(s)
          \/ Crash(s)
          \/ Lose(s)
    \/ Cleanup
    \/ \E c \in Clients : Expire(c) \/ Forget(c)

(***************************************************************************)
(* The event loop runs every ready coroutine, the cleanup loop comes round  *)
(* every 15 seconds, and time passes.  Clients and the network owe nothing. *)
(***************************************************************************)
Spec ==
    /\ Init
    /\ [][Next]_vars
    /\ \A s \in Sockets : WF_vars(Handle(s))
    /\ WF_vars(Cleanup)
    /\ \A c \in Clients : WF_vars(Expire(c))

-----------------------------------------------------------------------------
(***************************************************************************)
(* No ghost connection: an open socket that is being served is the one its  *)
(* client id is registered with, so broadcasts and the cleanup reach it, or *)
(* the connect() that replaced it is about to close it.                     *)
(***************************************************************************)
ServedIsRegistered ==
    \A s \in Sockets :
        handler[s] \in {"registered", "serving"} /\ wire[s] = "open" =>
            \/ active[Owner[s]] = s
            \/ \E t \in Sockets : handler[t] = "registered" /\ replaced[t] = s

(***************************************************************************)
(* A client loses its entry only when the connection it names is closed: a  *)
(* late handler of an older connection and a cleanup that acts on an old    *)
(* snapshot, with an await in the middle, take no live connection's entry.  *)
(***************************************************************************)
LiveStaysRegistered ==
    [][\A c \in Clients :
          active[c] # NoSocket /\ active'[c] = NoSocket => wire[active[c]] = "closed"]_vars

(***************************************************************************)
(* A dead connection does not stay registered, not even when its handler    *)
(* died without disconnect() or another handler's ping refreshed its entry. *)
(***************************************************************************)
DeadEntriesGo ==
    \A s \in Sockets :
        active[Owner[s]] = s /\ wire[s] = "closed" ~> active[Owner[s]] # s
=============================================================================
