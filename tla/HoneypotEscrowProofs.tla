------------------------- MODULE HoneypotEscrowProofs -------------------------
(***************************************************************************)
(* Proofs about the honeypot escrow, for any honeypots, accounts and        *)
(* threads: nothing activated is forgotten, the index is sound, and the     *)
(* statistics agree with the history.                                       *)
(***************************************************************************)
EXTENDS HoneypotEscrow, FiniteSetTheorems, TLAPS

(***************************************************************************)
(* The types, with what an operation in progress may rely on: the honeypot  *)
(* it holds has been activated, whether or not it is still active.          *)
(***************************************************************************)
Holding == \A t \in Threads : step[t] \notin {"idle", "releasing"} => subject[t] \in Activated

Known == active \subseteq Activated /\ \A i \in 1..Len(history) : history[i] \in Activated

Data == Known /\ NothingForgotten /\ IndexPointsToActive

EscrowInv == TypeOK /\ Holding /\ Data

LEMMA EscrowInit == Init => EscrowInv
  <1> SUFFICES ASSUME Init PROVE EscrowInv
    OBVIOUS
  <1>1. TypeOK
    BY EscrowAssumption DEF Init, TypeOK, Threads, Statuses, Steps
  <1>2. Holding /\ Data
    BY EscrowAssumption
       DEF Init, Holding, Data, Known, NothingForgotten, IndexPointsToActive, Activated
  <1> QED
    BY <1>1, <1>2 DEF EscrowInv

(***************************************************************************)
(* No status goes back to "none".                                           *)
(***************************************************************************)
LEMMA StatusSet ==
  ASSUME NEW h \in Honeypots, NEW s \in Statuses \ {"none"}, TypeOK, SetStatus(h, s)
  PROVE  /\ status' \in [Honeypots -> Statuses]
         /\ Activated' = Activated \cup {h}
  BY DEF TypeOK, SetStatus, Activated

(***************************************************************************)
(* What a step does to the threads: only t moves, and what it holds next is *)
(* an activated honeypot.                                                   *)
(***************************************************************************)
LEMMA ThreadHolds ==
  ASSUME NEW t \in Threads, NEW s \in Steps, NEW h \in Honeypots \cup {NoHoneypot},
         TypeOK, Holding, Hold(t, s, h), Activated \subseteq Activated',
         s = "releasing" \/ h \in Activated'
  PROVE  /\ step' \in [Threads -> Steps]
         /\ subject' \in [Threads -> Honeypots \cup {NoHoneypot}]
         /\ Holding'
  BY DEF TypeOK, Holding, Hold

LEMMA ThreadDone ==
  ASSUME NEW t \in Threads, TypeOK, Holding, Done(t), Activated \subseteq Activated'
  PROVE  /\ step' \in [Threads -> Steps]
         /\ subject' \in [Threads -> Honeypots \cup {NoHoneypot}]
         /\ batch' \in [Threads -> SUBSET Honeypots]
         /\ Holding'
  BY DEF TypeOK, Holding, Done, Hold, Steps

(***************************************************************************)
(* Only an activation and a closing section touch what Data speaks of.      *)
(***************************************************************************)
LEMMA DataKept ==
  ASSUME Data, Activated' = Activated, UNCHANGED <<active, byAccount, history>>
  PROVE  Data'
  BY DEF Data, Known, NothingForgotten, IndexPointsToActive

LEMMA ActivateKeepsInv ==
  ASSUME EscrowInv, NEW h \in Honeypots, Activate(h)
  PROVE  EscrowInv'
  <1>1. TypeOK /\ Holding /\ Known /\ NothingForgotten /\ IndexPointsToActive
    BY DEF EscrowInv, Data
  <1>2. /\ h \notin Activated /\ SetStatus(h, "active")
        /\ active' = active \cup {h}
        /\ byAccount' = [byAccount EXCEPT ![Target[h]] = h]
        /\ UNCHANGED <<expired, released, attempted, history, arrests, falsePositives,
                       dismantled, step, subject, batch>>
    BY DEF Activate, statsVars, threadVars
  <1>3. status' \in [Honeypots -> Statuses] /\ Activated' = Activated \cup {h}
    BY <1>1, <1>2, StatusSet DEF Statuses
  <1>4. TypeOK'
    BY <1>1, <1>2, <1>3 DEF TypeOK
  <1>5. Holding' /\ Known'
    BY <1>1, <1>2, <1>3 DEF Holding, Known
  <1>6. NothingForgotten'
    BY <1>1, <1>2, <1>3 DEF NothingForgotten, Known
  <1>7. IndexPointsToActive'
    BY <1>1, <1>2, EscrowAssumption DEF IndexPointsToActive, TypeOK
  <1> QED
    BY <1>4, <1>5, <1>6, <1>7 DEF EscrowInv, Data

(***************************************************************************)
(* A closing section, of a honeypot that is still active or of one another  *)
(* thread has closed.                                                       *)
(***************************************************************************)
LEMMA CloseKeepsInv ==
  ASSUME EscrowInv, NEW t \in Threads, Close(t)
  PROVE  EscrowInv'
  <1> DEFINE h == subject[t]
  <1>1. TypeOK /\ Holding /\ Known /\ NothingForgotten /\ IndexPointsToActive
    BY DEF EscrowInv, Data
  <1>2. /\ step[t] \in {"arresting", "closing"}
        /\ history' = Append(history, h)
        /\ UNCHANGED <<status, expired, released, attempted, arrests, falsePositives,
                       dismantled>>
    BY DEF Close
  <1>3. h \in Activated /\ h \in Honeypots
    BY <1>1, <1>2 DEF Holding, Activated
  <1>4. Activated' = Activated
    BY <1>2 DEF Activated
  <1>5. /\ history' \in Seq(Honeypots)
        /\ Len(history') = Len(history) + 1
        /\ history'[Len(history) + 1] = h
        /\ \A i \in 1..Len(history) : history'[i] = history[i]
    BY <1>1, <1>2, <1>3 DEF TypeOK
  <1>6. /\ active' = active \ {h}
        /\ \/ byAccount' = [byAccount EXCEPT ![Target[h]] = NoHoneypot]
           \/ h \notin active /\ byAccount' = byAccount
        /\ (Hold(t, "releasing", NoHoneypot) /\ UNCHANGED batch) \/ Done(t)
    BY DEF Close
  <1>7. /\ step' \in [Threads -> Steps]
        /\ subject' \in [Threads -> Honeypots \cup {NoHoneypot}]
        /\ batch' \in [Threads -> SUBSET Honeypots]
        /\ Holding'
    <2>1. CASE Hold(t, "releasing", NoHoneypot) /\ UNCHANGED batch
      <3>1. "releasing" \in Steps
        BY DEF Steps
      <3> QED
        BY <1>1, <1>4, <2>1, <3>1, ThreadHolds DEF TypeOK
    <2>2. CASE Done(t)
      BY <1>1, <1>4, <2>2, ThreadDone
    <2> QED
      BY <1>6, <2>1, <2>2
  <1>8. TypeOK'
    BY <1>1, <1>2, <1>5, <1>6, <1>7 DEF TypeOK
  <1>9. Known'
    <2> SUFFICES ASSUME NEW i \in 1..Len(history')
                 PROVE  history'[i] \in Activated'
      BY <1>1, <1>4, <1>6 DEF Known
    <2>1. i \in 1..Len(history) \/ i = Len(history) + 1
      BY <1>1, <1>5 DEF TypeOK
    <2> QED
      BY <1>1, <1>3, <1>4, <1>5, <2>1 DEF Known
  <1>10. NothingForgotten'
    <2> SUFFICES ASSUME NEW g \in Activated
                 PROVE  g \in active' <=> \A i \in 1..Len(history') : history'[i] # g
      BY <1>4 DEF NothingForgotten
    <2>1. g \in active <=> \A i \in 1..Len(history) : history[i] # g
      BY <1>1 DEF NothingForgotten
    <2>2. Len(history) \in Nat
      BY <1>1 DEF TypeOK
    <2>3. CASE g = h
      BY <1>5, <1>6, <2>2, <2>3
    <2>4. CASE g # h
      BY <1>5, <1>6, <2>1, <2>2, <2>4
    <2> QED
      BY <2>3, <2>4
  <1>11. IndexPointsToActive'
    BY <1>1, <1>3, <1>6, EscrowAssumption DEF IndexPointsToActive, TypeOK
  <1> QED
    BY <1>7, <1>8, <1>9, <1>10, <1>11 DEF EscrowInv, Data

(***************************************************************************)
(* Every step keeps the invariant.                                          *)
(***************************************************************************)
LEMMA EscrowNext == EscrowInv /\ [Next]_vars => EscrowInv'
  <1> SUFFICES ASSUME EscrowInv, [Next]_vars PROVE EscrowInv'
    OBVIOUS
  <1>0. /\ TypeOK /\ Holding /\ Data
        /\ active \subseteq Activated /\ IndexPointsToActive
    BY DEF EscrowInv, Data, Known
  <1>s. /\ {"attempted", "alerting", "arresting", "tracing", "releasing", "closing"} \subseteq Steps
        /\ {"withdrawal_attempted", "alert_sent", "network_traced", "arrested", "released"}
              \subseteq Statuses \ {"none"}
    BY DEF Steps, Statuses
  <1>1. ASSUME NEW h \in Honeypots, Expire(h)
        PROVE  EscrowInv'
    <2>1. TypeOK'
      BY <1>0, <1>1 DEF Expire, TypeOK, statsVars, threadVars
    <2>2. Activated' = Activated
      BY <1>1 DEF Expire, Activated
    <2>3. Holding' /\ Data'
      BY <1>0, <1>1, <2>2, DataKept DEF Expire, Holding, statsVars, threadVars
    <2> QED
      BY <2>1, <2>3 DEF EscrowInv
  <1>2. ASSUME NEW t \in Threads, NEW h \in Honeypots, NEW s \in Steps, Activated' = Activated,
               Hold(t, s, h), h \in Activated, UNCHANGED <<active, byAccount, history>>,
               status' \in [Honeypots -> Statuses], UNCHANGED expired,
               released' \subseteq Honeypots, attempted' \subseteq Honeypots,
               arrests' \in Nat, falsePositives' \in Nat,
               UNCHANGED dismantled, batch' \in [Threads -> SUBSET Honeypots]
        PROVE  EscrowInv'
    <2>1. /\ step' \in [Threads -> Steps] /\ Holding'
          /\ subject' \in [Threads -> Honeypots \cup {NoHoneypot}]
      BY <1>0, <1>2, ThreadHolds
    <2>2. TypeOK'
      BY <1>0, <1>2, <2>1 DEF TypeOK
    <2> QED
      BY <1>0, <1>2, <2>1, <2>2, DataKept DEF EscrowInv
  <1>3. ASSUME NEW t \in Threads, NEW a \in Accounts, FindAttempt(t, a)
        PROVE  EscrowInv'
    <2>1. byAccount[a] \in Honeypots /\ byAccount[a] \in Activated
      BY <1>0, <1>3, EscrowAssumption DEF FindAttempt, IndexPointsToActive
    <2>2. Activated' = Activated
      BY <1>3 DEF FindAttempt, honeypotVars, Activated
    <2> QED
      BY <1>0, <1>3, <1>s, <2>1, <2>2, <1>2
         DEF FindAttempt, TypeOK, honeypotVars, statsVars
  <1>4. ASSUME NEW t \in Threads, RecordAttempt(t)
        PROVE  EscrowInv'
    <2>1. subject[t] \in Honeypots /\ subject[t] \in Activated
      BY <1>0, <1>4 DEF RecordAttempt, Holding, Activated
    <2>2. status' \in [Honeypots -> Statuses] /\ Activated' = Activated
      BY <1>0, <1>4, <1>s, <2>1, StatusSet DEF RecordAttempt
    <2> QED
      BY <1>0, <1>4, <1>s, <2>1, <2>2, <1>2 DEF RecordAttempt, TypeOK, statsVars
  <1>5. ASSUME NEW t \in Threads, NEW h \in Honeypots, RecordArrest(t, h)
        PROVE  EscrowInv'
    <2>1. h \in Activated
      BY <1>0, <1>5 DEF RecordArrest
    <2>2. status' \in [Honeypots -> Statuses] /\ Activated' = Activated
      BY <1>0, <1>5, <1>s, <2>1, StatusSet DEF RecordArrest
    <2> QED
      BY <1>0, <1>5, <1>s, <2>1, <2>2, <1>2 DEF RecordArrest, TypeOK
  <1>6. ASSUME NEW t \in Threads, NEW h \in Honeypots, StartTrace(t, h)
        PROVE  EscrowInv'
    <2>1. h \in Activated
      BY <1>0, <1>6 DEF StartTrace
    <2>2. Activated' = Activated
      BY <1>6 DEF StartTrace, honeypotVars, Activated
    <2> QED
      BY <1>0, <1>6, <1>s, <2>1, <2>2, <1>2 DEF StartTrace, TypeOK, honeypotVars, statsVars
  <1>7. ASSUME NEW t \in Threads, NEW h \in Honeypots, Release(t, h)
        PROVE  EscrowInv'
    <2>1. h \in Activated
      BY <1>0, <1>7 DEF Release
    <2>2. status' \in [Honeypots -> Statuses] /\ Activated' = Activated
      BY <1>0, <1>7, <1>s, <2>1, StatusSet DEF Release
    <2>3. batch' \in [Threads -> SUBSET Honeypots]
      BY <1>0, <1>7 DEF Release, Take, TypeOK
    <2> QED
      BY <1>0, <1>7, <1>s, <2>1, <2>2, <2>3, <1>2 DEF Release, TypeOK
  <1>8. ASSUME NEW t \in Threads, Done(t), Activated' = Activated,
               UNCHANGED <<active, byAccount, history, expired, released, attempted,
                           arrests, falsePositives>>,
               status' \in [Honeypots -> Statuses], dismantled' \subseteq Honeypots
        PROVE  EscrowInv'
    <2>1. /\ step' \in [Threads -> Steps] /\ Holding'
          /\ subject' \in [Threads -> Honeypots \cup {NoHoneypot}]
          /\ batch' \in [Threads -> SUBSET Honeypots]
      BY <1>0, <1>8, ThreadDone
    <2>2. TypeOK'
      BY <1>0, <1>8, <2>1 DEF TypeOK
    <2> QED
      BY <1>0, <1>8, <2>1, <2>2, DataKept DEF EscrowInv
  <1>9. ASSUME NEW t \in Threads, SendAlert(t)
        PROVE  EscrowInv'
    <2>1. subject[t] \in Honeypots /\ subject[t] \in Activated
      BY <1>0, <1>9 DEF SendAlert, Holding, Activated
    <2>2. status' \in [Honeypots -> Statuses] /\ Activated' = Activated
      BY <1>0, <1>9, <1>s, <2>1, StatusSet DEF SendAlert
    <2> QED
      BY <1>0, <1>9, <2>2, <1>8 DEF SendAlert, TypeOK, statsVars
  <1>10. ASSUME NEW t \in Threads, NEW large \in BOOLEAN, MarkTraced(t, large)
         PROVE  EscrowInv'
    <2>1. subject[t] \in Honeypots /\ subject[t] \in Activated
      BY <1>0, <1>10 DEF MarkTraced, Holding, Activated
    <2>2. status' \in [Honeypots -> Statuses] /\ Activated' = Activated
      BY <1>0, <1>10, <1>s, <2>1, StatusSet DEF MarkTraced
    <2>3. dismantled' \subseteq Honeypots
      BY <1>0, <1>10, <2>1 DEF MarkTraced, TypeOK
    <2> QED
      BY <1>10, <2>2, <2>3, <1>8 DEF MarkTraced
  <1>11. ASSUME NEW t \in Threads, TraceUnknown(t) \/ BatchDone(t)
         PROVE  EscrowInv'
    <2>1. Done(t) /\ UNCHANGED <<honeypotVars, statsVars>>
      BY <1>11 DEF TraceUnknown, BatchDone
    <2>2. Activated' = Activated
      BY <2>1 DEF honeypotVars, Activated
    <2> QED
      BY <1>0, <2>1, <2>2, <1>8 DEF TypeOK, honeypotVars, statsVars
  <1>12. ASSUME NEW t \in Threads, CheckAutoRelease(t)
         PROVE  EscrowInv'
    <2>1. Activated' = Activated
      BY <1>12 DEF CheckAutoRelease, honeypotVars, Activated
    <2>2. /\ step' \in [Threads -> Steps] /\ Holding'
          /\ subject' \in [Threads -> Honeypots \cup {NoHoneypot}]
      BY <1>0, <1>12, <1>s, <2>1, ThreadHolds DEF CheckAutoRelease
    <2>3. batch' \in [Threads -> SUBSET Honeypots]
      BY <1>0, <1>12 DEF CheckAutoRelease, TypeOK, Due
    <2>4. TypeOK'
      BY <1>0, <1>12, <2>2, <2>3 DEF CheckAutoRelease, TypeOK, honeypotVars, statsVars
    <2> QED
      BY <1>0, <1>12, <2>1, <2>2, <2>4, DataKept
         DEF EscrowInv, CheckAutoRelease, honeypotVars, statsVars
  <1>13. ASSUME NEW t \in Threads, NEW h \in Honeypots, SkipRelease(t, h)
         PROVE  EscrowInv'
    <2>1. Activated' = Activated
      BY <1>13 DEF SkipRelease, honeypotVars, Activated
    <2>2. TypeOK'
      BY <1>0, <1>13 DEF SkipRelease, Take, TypeOK, honeypotVars, statsVars
    <2>3. Holding'
      BY <1>0, <1>13, <2>1 DEF SkipRelease, Holding
    <2> QED
      BY <1>0, <1>13, <2>1, <2>2, <2>3, DataKept
         DEF EscrowInv, SkipRelease, honeypotVars, statsVars
  <1>14. CASE UNCHANGED vars
    <2>1. Activated' = Activated
      BY <1>14 DEF vars, honeypotVars, Activated
    <2>2. TypeOK' /\ Holding'
      BY <1>0, <1>14, <2>1
         DEF TypeOK, Holding, vars, honeypotVars, statsVars, threadVars
    <2> QED
      BY <1>0, <1>14, <2>1, <2>2, DataKept
         DEF EscrowInv, vars, honeypotVars, statsVars, threadVars
  <1>15. Checkers \subseteq Threads /\ Callers \subseteq Threads
    BY DEF Threads
  <1> QED
    BY <1>1, <1>3, <1>4, <1>5, <1>6, <1>7, <1>9, <1>10, <1>11, <1>12, <1>13, <1>14, <1>15,
       ActivateKeepsInv, CloseKeepsInv
       DEF Next, Continue, Call

THEOREM EscrowInvariant == Spec => []EscrowInv
  BY EscrowInit, EscrowNext, PTL DEF Spec

(***************************************************************************)
(* The types, for any set of honeypots and threads.                         *)
(***************************************************************************)
THEOREM TypeCorrect == Spec => []TypeOK
  BY EscrowInvariant, PTL DEF EscrowInv

(***************************************************************************)
(* An activated honeypot is active or in the history, never in both and     *)
(* never in neither, however many threads close it.                         *)
(***************************************************************************)
THEOREM EscrowAccounted == Spec => []NothingForgotten
  <1>1. EscrowInv => NothingForgotten
    BY DEF EscrowInv, Data
  <1> QED
    BY EscrowInvariant, <1>1, PTL

(***************************************************************************)
(* The account index leads to active honeypots of the account only.         *)
(***************************************************************************)
THEOREM IndexSound == Spec => []IndexPointsToActive
  <1>1. EscrowInv => IndexPointsToActive
    BY DEF EscrowInv, Data
  <1> QED
    BY EscrowInvariant, <1>1, PTL

-----------------------------------------------------------------------------
(***************************************************************************)
(* Counting: an outcome is counted when its thread becomes a closer, and    *)
(* enters the history when the thread ceases to be one.                     *)
(***************************************************************************)
LEMMA ClosersFinite == IsFiniteSet(Closers) /\ Cardinality(Closers) \in Nat
  <1>1. IsFiniteSet(Threads) /\ Closers \subseteq Threads
    BY EscrowAssumption DEF Threads, Closers
  <1> QED
    BY <1>1, FS_Subset, FS_CardinalityType

LEMMA CloserComes ==
  ASSUME NEW t \in Threads, TypeOK, step[t] \notin {"arresting", "closing"},
         step' = [step EXCEPT ![t] = "arresting"] \/ step' = [step EXCEPT ![t] = "closing"]
  PROVE  Cardinality(Closers') = Cardinality(Closers) + 1
  <1>1. Closers' = Closers \cup {t} /\ t \notin Closers
    BY DEF TypeOK, Closers
  <1> QED
    BY <1>1, ClosersFinite, FS_AddElement

LEMMA CloserGoes ==
  ASSUME NEW t \in Threads, TypeOK, step[t] \in {"arresting", "closing"},
         step' = [step EXCEPT ![t] = "idle"] \/ step' = [step EXCEPT ![t] = "releasing"]
  PROVE  Cardinality(Closers') = Cardinality(Closers) - 1
  <1>1. Closers' = Closers \ {t} /\ t \in Closers
    BY DEF TypeOK, Closers
  <1> QED
    BY <1>1, ClosersFinite, FS_RemoveElement

LEMMA ClosersStay ==
  ASSUME NEW t \in Threads, NEW s \in Steps \ {"arresting", "closing"}, TypeOK,
         step[t] \notin {"arresting", "closing"}, step' = [step EXCEPT ![t] = s]
  PROVE  Closers' = Closers
  BY DEF TypeOK, Closers

LEMMA CountsNext ==
  ASSUME TypeOK, Holding, CountsMatchHistory, [Next]_vars
  PROVE  CountsMatchHistory'
  <1>0. /\ arrests \in Nat /\ falsePositives \in Nat /\ Len(history) \in Nat
        /\ Cardinality(Closers) \in Nat
        /\ arrests + falsePositives = Len(history) + Cardinality(Closers)
    BY ClosersFinite DEF TypeOK, CountsMatchHistory
  <1>1. ASSUME NEW t \in Threads, NEW h \in Honeypots, RecordArrest(t, h)
        PROVE  CountsMatchHistory'
    <2>1. Cardinality(Closers') = Cardinality(Closers) + 1
      BY <1>1, CloserComes DEF RecordArrest, Hold
    <2> QED
      BY <1>0, <1>1, <2>1 DEF RecordArrest, CountsMatchHistory
  <1>2. ASSUME NEW t \in Threads, NEW h \in Honeypots, Release(t, h)
        PROVE  CountsMatchHistory'
    <2>1. Cardinality(Closers') = Cardinality(Closers) + 1
      BY <1>2, CloserComes DEF Release, Take, Hold
    <2> QED
      BY <1>0, <1>2, <2>1 DEF Release, CountsMatchHistory
  <1>3. ASSUME NEW t \in Threads, Close(t)
        PROVE  CountsMatchHistory'
    <2>1. /\ step[t] \in {"arresting", "closing"}
          /\ step' = [step EXCEPT ![t] = "idle"] \/ step' = [step EXCEPT ![t] = "releasing"]
          /\ history' = Append(history, subject[t])
          /\ UNCHANGED <<arrests, falsePositives>>
      BY <1>3 DEF Close, Done, Hold
    <2>2. Cardinality(Closers') = Cardinality(Closers) - 1
      BY <2>1, CloserGoes
    <2>3. Len(history') = Len(history) + 1
      BY <2>1 DEF TypeOK, Holding, Activated
    <2> QED
      BY <1>0, <2>1, <2>2, <2>3 DEF CountsMatchHistory
  <1>4. ASSUME Closers' = Closers, UNCHANGED <<arrests, falsePositives, history>>
        PROVE  CountsMatchHistory'
    BY <1>4 DEF CountsMatchHistory
  <1>5. CASE UNCHANGED <<step, arrests, falsePositives, history>>
    BY <1>4, <1>5 DEF Closers
  <1>6. ASSUME NEW t \in Threads, NEW s \in {"idle", "attempted", "alerting", "tracing", "releasing"},
               step[t] \notin {"arresting", "closing"}, step' = [step EXCEPT ![t] = s],
               UNCHANGED <<arrests, falsePositives, history>>
        PROVE  CountsMatchHistory'
    BY <1>4, <1>6, ClosersStay DEF Steps
  <1>7. ASSUME NEW h \in Honeypots, Activate(h) \/ Expire(h)
        PROVE  CountsMatchHistory'
    BY <1>5, <1>7 DEF Activate, Expire, statsVars, threadVars
  <1>8. ASSUME NEW t \in Threads, NEW a \in Accounts, FindAttempt(t, a)
        PROVE  CountsMatchHistory'
    BY <1>6, <1>8 DEF FindAttempt, Hold, statsVars
  <1>9. ASSUME NEW t \in Threads, RecordAttempt(t) \/ SendAlert(t) \/ TraceUnknown(t)
        PROVE  CountsMatchHistory'
    BY <1>6, <1>9 DEF RecordAttempt, SendAlert, TraceUnknown, Done, Hold, statsVars
  <1>10. ASSUME NEW t \in Threads, NEW large \in BOOLEAN, MarkTraced(t, large)
         PROVE  CountsMatchHistory'
    BY <1>6, <1>10 DEF MarkTraced, Done, Hold
  <1>11. ASSUME NEW t \in Threads, NEW h \in Honeypots, StartTrace(t, h)
         PROVE  CountsMatchHistory'
    BY <1>6, <1>11 DEF StartTrace, Hold, statsVars
  <1>12. ASSUME NEW t \in Threads, CheckAutoRelease(t) \/ BatchDone(t)
         PROVE  CountsMatchHistory'
    BY <1>6, <1>12 DEF CheckAutoRelease, BatchDone, Done, Hold, statsVars
  <1>13. ASSUME NEW t \in Threads, NEW h \in Honeypots, SkipRelease(t, h)
         PROVE  CountsMatchHistory'
    BY <1>5, <1>13 DEF SkipRelease, statsVars
  <1>14. CASE UNCHANGED vars
    BY <1>5, <1>14 DEF vars, statsVars, threadVars
  <1>15. Checkers \subseteq Threads /\ Callers \subseteq Threads
    BY DEF Threads
  <1> QED
    BY <1>1, <1>2, <1>3, <1>7, <1>8, <1>9, <1>10, <1>11, <1>12, <1>13, <1>14, <1>15
       DEF Next, Continue, Call

(***************************************************************************)
(* Arrests and false positives are the entries of the history and the ones  *)
(* about to be written, for any number of racing threads.                   *)
(***************************************************************************)
THEOREM StatisticsAgree == Spec => []CountsMatchHistory
  <1>1. Init => CountsMatchHistory
    <2> SUFFICES ASSUME Init PROVE CountsMatchHistory
      OBVIOUS
    <2>1. Closers = {} /\ arrests + falsePositives = 0 /\ Len(history) = 0
      BY DEF Init, Closers
    <2> QED
      BY <2>1, FS_EmptySet DEF CountsMatchHistory
  <1>2. EscrowInv /\ CountsMatchHistory /\ [Next]_vars => CountsMatchHistory'
    BY CountsNext DEF EscrowInv
  <1> QED
    BY <1>1, <1>2, EscrowInvariant, PTL DEF Spec

-----------------------------------------------------------------------------
(***************************************************************************)
(* Who is about to close h; with its entries they never outnumber the       *)
(* threads, because a thread joins them only while h has no entry.          *)
(***************************************************************************)
ClosersOf(h) == {t \in Closers : subject[t] = h}

Filings ==
    \A h \in Honeypots :
        Cardinality(Entries(h)) + Cardinality(ClosersOf(h)) <= Cardinality(Threads)

LEMMA FilingsFinite ==
  ASSUME TypeOK, NEW h \in Honeypots
  PROVE  /\ IsFiniteSet(Threads) /\ Cardinality(Threads) \in Nat
         /\ IsFiniteSet(ClosersOf(h)) /\ Cardinality(ClosersOf(h)) \in Nat
         /\ Cardinality(ClosersOf(h)) <= Cardinality(Threads)
         /\ IsFiniteSet(Entries(h)) /\ Cardinality(Entries(h)) \in Nat
  <1>1. IsFiniteSet(Threads) /\ ClosersOf(h) \subseteq Threads
    BY EscrowAssumption DEF Threads, Closers, ClosersOf
  <1>2. Len(history) \in Nat
    BY DEF TypeOK
  <1>3. IsFiniteSet(1..Len(history)) /\ Entries(h) \subseteq 1..Len(history)
    BY <1>2, FS_Interval DEF Entries
  <1> QED
    BY <1>1, <1>3, FS_Subset, FS_CardinalityType

(***************************************************************************)
(* A thread becomes a closer of an active honeypot, which has no entry.     *)
(***************************************************************************)
LEMMA FilingBegins ==
  ASSUME EscrowInv, EscrowInv', Filings, NEW t \in Threads, NEW h \in active,
         step[t] \notin {"arresting", "closing"},
         Hold(t, "arresting", h) \/ Hold(t, "closing", h), history' = history
  PROVE  Filings'
  <1>0. /\ TypeOK /\ TypeOK' /\ h \in Honeypots /\ h \in Activated /\ NothingForgotten
        /\ step \in [Threads -> Steps] /\ subject \in [Threads -> Honeypots \cup {NoHoneypot}]
    BY DEF EscrowInv, Data, Known, TypeOK
  <1> SUFFICES ASSUME NEW g \in Honeypots
               PROVE  Cardinality(Entries(g)') + Cardinality(ClosersOf(g)')
                        <= Cardinality(Threads)
    BY DEF Filings
  <1>1. Entries(g)' = Entries(g)
    BY DEF Entries
  <1>2. CASE g = h
    <2>1. Entries(h) = {}
      BY <1>0 DEF NothingForgotten, Entries
    <2>2. Cardinality(Entries(h)) = 0
      BY <2>1, FS_EmptySet
    <2>3. /\ Cardinality(ClosersOf(g)') \in Nat /\ Cardinality(Threads) \in Nat
          /\ Cardinality(ClosersOf(g)') <= Cardinality(Threads)
      <3>1. IsFiniteSet(Threads) /\ ClosersOf(g)' \subseteq Threads
        BY EscrowAssumption DEF Threads, Closers, ClosersOf
      <3> QED
        BY <3>1, FS_Subset, FS_CardinalityType
    <2> QED
      BY <1>1, <1>2, <2>2, <2>3
  <1>3. CASE g # h
    <2>1. ClosersOf(g)' = ClosersOf(g)
      BY <1>0, <1>3 DEF Hold, Closers, ClosersOf
    <2> QED
      BY <1>1, <2>1 DEF Filings
  <1> QED
    BY <1>2, <1>3

(***************************************************************************)
(* A closer writes its entry and is none any more.                          *)
(***************************************************************************)
LEMMA FilingEnds ==
  ASSUME EscrowInv, EscrowInv', Filings, NEW t \in Threads, Close(t)
  PROVE  Filings'
  <1> DEFINE h == subject[t]
  <1>0. /\ TypeOK /\ h \in Honeypots /\ Len(history) \in Nat
        /\ history \in Seq(Honeypots) /\ step \in [Threads -> Steps]
        /\ subject \in [Threads -> Honeypots \cup {NoHoneypot}]
    BY DEF EscrowInv, TypeOK, Holding, Activated, Close
  <1>1. /\ t \in Closers
        /\ step' = [step EXCEPT ![t] = "idle"] \/ step' = [step EXCEPT ![t] = "releasing"]
        /\ subject' = [subject EXCEPT ![t] = NoHoneypot]
        /\ history' = Append(history, h)
    BY DEF Close, Done, Hold, Closers
  <1>2. Closers' = Closers \ {t}
    BY <1>0, <1>1 DEF Closers
  <1>3. /\ Len(history') = Len(history) + 1 /\ history'[Len(history) + 1] = h
        /\ \A i \in 1..Len(history) : history'[i] = history[i]
    BY <1>0, <1>1
  <1>4. \A g \in Honeypots : ClosersOf(g)' = ClosersOf(g) \ {t}
    BY <1>0, <1>1, <1>2 DEF ClosersOf, Closers
  <1> SUFFICES ASSUME NEW g \in Honeypots
               PROVE  Cardinality(Entries(g)') + Cardinality(ClosersOf(g)')
                        <= Cardinality(Threads)
    BY DEF Filings
  <1>5. /\ Cardinality(Threads) \in Nat /\ Cardinality(ClosersOf(g)) \in Nat
        /\ Cardinality(Entries(g)) \in Nat
        /\ IsFiniteSet(ClosersOf(g)) /\ IsFiniteSet(Entries(g))
        /\ Cardinality(Entries(g)) + Cardinality(ClosersOf(g)) <= Cardinality(Threads)
    BY <1>0, FilingsFinite DEF Filings
  <1>6. CASE g = h
    <2>1. Entries(g)' = Entries(g) \cup {Len(history) + 1} /\ Len(history) + 1 \notin Entries(g)
      BY <1>0, <1>3, <1>6 DEF Entries
    <2>2. Cardinality(Entries(g)') = Cardinality(Entries(g)) + 1
      BY <1>5, <2>1, FS_AddElement
    <2>3. t \in ClosersOf(g)
      BY <1>1, <1>6 DEF ClosersOf
    <2>4. Cardinality(ClosersOf(g)') = Cardinality(ClosersOf(g)) - 1
      BY <1>4, <1>5, <2>3, FS_RemoveElement
    <2> QED
      BY <1>5, <2>2, <2>4
  <1>7. CASE g # h
    <2>1. Entries(g)' = Entries(g)
      BY <1>0, <1>3, <1>7 DEF Entries
    <2>2. ClosersOf(g)' = ClosersOf(g)
      BY <1>4, <1>7 DEF ClosersOf
    <2> QED
      BY <1>5, <2>1, <2>2
  <1> QED
    BY <1>6, <1>7

(***************************************************************************)
(* Every other step leaves the closers, what they hold and the history.     *)
(***************************************************************************)
LEMMA FilingsNext == EscrowInv /\ EscrowInv' /\ Filings /\ [Next]_vars => Filings'
  <1> SUFFICES ASSUME EscrowInv, EscrowInv', Filings, [Next]_vars PROVE Filings'
    OBVIOUS
  <1>0. /\ step \in [Threads -> Steps] /\ subject \in [Threads -> Honeypots \cup {NoHoneypot}]
    BY DEF EscrowInv, TypeOK
  <1>1. ASSUME UNCHANGED history, \A h \in Honeypots : ClosersOf(h)' = ClosersOf(h)
        PROVE  Filings'
    BY <1>1 DEF Filings, Entries
  <1>2. CASE UNCHANGED <<step, subject, history>>
    BY <1>1, <1>2 DEF ClosersOf, Closers
  <1>3. ASSUME NEW t \in Threads,
               NEW s \in {"idle", "attempted", "alerting", "tracing", "releasing"},
               NEW h, step[t] \notin {"arresting", "closing"}, Hold(t, s, h),
               UNCHANGED history
        PROVE  Filings'
    <2>1. \A g \in Honeypots : ClosersOf(g)' = ClosersOf(g)
      BY <1>0, <1>3 DEF Hold, ClosersOf, Closers
    <2> QED
      BY <1>1, <1>3, <2>1
  <1>4. ASSUME NEW t \in Threads, NEW h \in Honeypots, RecordArrest(t, h) \/ Release(t, h)
        PROVE  Filings'
    BY <1>4, FilingBegins DEF RecordArrest, Release, Take
  <1>5. ASSUME NEW h \in Honeypots, Activate(h) \/ Expire(h)
        PROVE  Filings'
    BY <1>2, <1>5 DEF Activate, Expire, statsVars, threadVars
  <1>6. ASSUME NEW t \in Threads, NEW a \in Accounts, FindAttempt(t, a)
        PROVE  Filings'
    BY <1>3, <1>6 DEF FindAttempt, statsVars
  <1>7. ASSUME NEW t \in Threads, RecordAttempt(t) \/ SendAlert(t) \/ TraceUnknown(t)
        PROVE  Filings'
    BY <1>3, <1>7 DEF RecordAttempt, SendAlert, TraceUnknown, Done, statsVars
  <1>8. ASSUME NEW t \in Threads, NEW large \in BOOLEAN, MarkTraced(t, large)
        PROVE  Filings'
    BY <1>3, <1>8 DEF MarkTraced, Done
  <1>9. ASSUME NEW t \in Threads, NEW h \in Honeypots, StartTrace(t, h)
        PROVE  Filings'
    BY <1>3, <1>9 DEF StartTrace, statsVars
  <1>10. ASSUME NEW t \in Threads, CheckAutoRelease(t) \/ BatchDone(t)
         PROVE  Filings'
    BY <1>3, <1>10 DEF CheckAutoRelease, BatchDone, Done, statsVars
  <1>11. ASSUME NEW t \in Threads, NEW h \in Honeypots, SkipRelease(t, h)
         PROVE  Filings'
    BY <1>2, <1>11 DEF SkipRelease, statsVars
  <1>12. CASE UNCHANGED vars
    BY <1>2, <1>12 DEF vars, statsVars, threadVars
  <1>13. Checkers \subseteq Threads /\ Callers \subseteq Threads
    BY DEF Threads
  <1> QED
    BY <1>4, <1>5, <1>6, <1>7, <1>8, <1>9, <1>10, <1>11, <1>12, <1>13, FilingEnds
       DEF Next, Continue, Call

(***************************************************************************)
(* However many threads race, a honeypot enters the history at most once    *)
(* for each of them.                                                        *)
(***************************************************************************)
THEOREM DoubleClosingBounded == Spec => []ClosedOncePerThread
  <1>1. Init => Filings
    <2> SUFFICES ASSUME Init, NEW h \in Honeypots
                 PROVE  Cardinality(Entries(h)) + Cardinality(ClosersOf(h))
                          <= Cardinality(Threads)
      BY DEF Filings
    <2>1. Entries(h) = {} /\ ClosersOf(h) = {}
      BY DEF Init, Entries, ClosersOf, Closers
    <2>2. Cardinality(Entries(h)) = 0 /\ Cardinality(ClosersOf(h)) = 0
      BY <2>1, FS_EmptySet
    <2>3. Cardinality(Threads) \in Nat
      BY EscrowAssumption, FS_CardinalityType DEF Threads
    <2> QED
      BY <2>2, <2>3
  <1>2. EscrowInv /\ Filings => ClosedOncePerThread
    <2> SUFFICES ASSUME EscrowInv, Filings, NEW h \in Honeypots
                 PROVE  Cardinality(Entries(h)) <= Cardinality(Threads)
      BY DEF ClosedOncePerThread
    <2> QED
      BY FilingsFinite DEF EscrowInv, Filings
  <1> QED
    BY <1>1, <1>2, FilingsNext, EscrowInvariant, PTL DEF Spec

(***************************************************************************)
(* A honeypot once closed stays closed: ids are fresh, and no late operation *)
(* puts one back.                                                           *)
(***************************************************************************)
THEOREM ClosingIsFinal == Spec => ClosedForGood
  <1>1. EscrowInv /\ EscrowInv' /\ [Next]_vars =>
          [\A h \in Activated \ active : h \in (Activated \ active)']_vars
    <2> SUFFICES ASSUME EscrowInv, EscrowInv', [Next]_vars, NEW h \in Activated \ active
                 PROVE  h \in (Activated \ active)'
      OBVIOUS
    <2>1. PICK i \in 1..Len(history) : history[i] = h
      BY DEF EscrowInv, Data, NothingForgotten
    <2>2. i \in 1..Len(history') /\ history'[i] = h
      <3>1. history \in Seq(Honeypots)
        BY DEF EscrowInv, TypeOK
      <3>2. UNCHANGED history \/ \E t \in Threads : Close(t)
        BY DEF Next, Continue, Call, Threads, Activate, Expire, FindAttempt, RecordAttempt,
               SendAlert, RecordArrest, StartTrace, MarkTraced, TraceUnknown,
               CheckAutoRelease, Release, SkipRelease, BatchDone, vars, statsVars
      <3>3. UNCHANGED history \/ \E g \in Honeypots : history' = Append(history, g)
        BY <3>2 DEF EscrowInv, Holding, Activated, Close
      <3> QED
        BY <2>1, <3>1, <3>3
    <2>3. h \in Activated'
      BY <2>2 DEF EscrowInv, Data, Known
    <2> QED
      BY <2>2, <2>3 DEF EscrowInv, Data, NothingForgotten
  <1> QED
    BY <1>1, EscrowInvariant, PTL DEF Spec, ClosedForGood
=============================================================================
