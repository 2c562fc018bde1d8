------------------------ MODULE SentinelArchivalProofs ------------------------
(***************************************************************************)
(* Proofs about the archival, for any number of logs and overlapping        *)
(* cycles, any batch size and any failures.                                 *)
(***************************************************************************)
EXTENDS SentinelArchival, TLAPS

(***************************************************************************)
(* What a cycle has committed belongs to it alone: Claims are disjoint, in  *)
(* the cold collection, and in no saved summary.  A batch is remembered     *)
(* only between its commit and its mark.                                    *)
(***************************************************************************)
Claim(c) == counted[c] \cup committed[c]

Claims ==
    /\ reported \subseteq archive
    /\ \A c \in Threads : Claim(c) \subseteq archive \ reported
    /\ \A c, d \in Threads : c # d => Claim(c) \cap Claim(d) = {}

Commits ==
    /\ marked \subseteq archive
    /\ \A c \in Threads : batch[c] \subseteq archive
    /\ \A c \in Threads : step[c] # "mark" => committed[c] = {}

ArchivalInv == TypeOK /\ Claims /\ Commits /\ NoLogLost

LEMMA ArchivalInit == Init => ArchivalInv
  <1> SUFFICES ASSUME Init PROVE ArchivalInv
    OBVIOUS
  <1>1. stopEvent \in BOOLEAN /\ joining \in BOOLEAN
    BY Zenon DEF Init
  <1>2. /\ added \in 0..MaxLogs /\ failures \in 0..MaxFailures
        /\ hot \subseteq 1..added /\ old \subseteq hot /\ marked \subseteq hot
        /\ evicted \subseteq 1..added /\ archive \subseteq Logs /\ reported \subseteq Logs
    BY ArchivalAssumption DEF Init
  <1>3. /\ workers \subseteq Threads /\ thread \in Threads \cup {NoThread}
        /\ step \in [Threads -> Steps] /\ rest \in [Threads -> SUBSET Logs]
        /\ batch \in [Threads -> SUBSET Logs] /\ committed \in [Threads -> SUBSET Logs]
        /\ counted \in [Threads -> SUBSET Logs]
    BY DEF Init, Steps
  <1>4. TypeOK
    BY <1>1, <1>2, <1>3, Zenon DEF TypeOK
  <1>5. Claims /\ Commits
    BY DEF Init, Claims, Claim, Commits
  <1>6. NoLogLost
    BY DEF Init, NoLogLost
  <1> QED
    BY <1>4, <1>5, <1>6 DEF ArchivalInv

LEMMA Parts ==
  /\ Dropped \subseteq hot
  /\ \A c \in Threads : Batch(c) \subseteq rest[c]
  /\ \A c \in Threads : Purged(c) \subseteq marked
  BY DEF Dropped, Batch, Purged

LEMMA AddLogKeepsInv == ArchivalInv /\ AddLog => ArchivalInv'
  <1> SUFFICES ASSUME ArchivalInv, AddLog PROVE ArchivalInv'
    OBVIOUS
  <1>1. /\ TypeOK /\ Claims /\ Commits /\ NoLogLost /\ Dropped \subseteq hot
        /\ added < MaxLogs /\ added' = added + 1 /\ MaxLogs \in Nat
        /\ hot' = (hot \ Dropped) \cup {added + 1}
        /\ old' = old \ Dropped /\ marked' = marked \ Dropped
        /\ evicted' = evicted \cup Dropped
        /\ UNCHANGED <<archive, reported, failures, cycleVars, schedulerVars>>
    BY Parts, ArchivalAssumption DEF ArchivalInv, AddLog
  <1>2. added \in Nat /\ 1..(added + 1) = (1..added) \cup {added + 1}
        /\ added + 1 \notin 1..added /\ added + 1 \in 0..MaxLogs
    BY <1>1 DEF TypeOK
  <1>3. TypeOK'
    <2>1. /\ added' \in 0..MaxLogs /\ hot' \subseteq 1..added' /\ old' \subseteq hot'
          /\ evicted' \subseteq 1..added' /\ marked' \subseteq hot'
      BY <1>1, <1>2 DEF TypeOK
    <2> QED
      BY <1>1, <2>1 DEF TypeOK, cycleVars, schedulerVars
  <1>4. NoLogLost'
    BY <1>1, <1>2 DEF NoLogLost
  <1>5. Claims' /\ Commits'
    BY <1>1 DEF Claims, Claim, Commits, cycleVars
  <1> QED
    BY <1>3, <1>4, <1>5 DEF ArchivalInv

(***************************************************************************)
(* The store calls of a cycle.                                              *)
(***************************************************************************)
LEMMA CommitKeepsInv ==
  ASSUME ArchivalInv, NEW c \in Threads, Commit(c)
  PROVE  ArchivalInv'
  <1>1. /\ TypeOK /\ Claims /\ Commits /\ NoLogLost
        /\ Batch(c) \subseteq rest[c] /\ rest[c] \subseteq Logs
    BY Parts DEF ArchivalInv, TypeOK
  <1>2. /\ archive' = archive \cup Batch(c)
        /\ committed' = [committed EXCEPT ![c] = Batch(c) \ archive]
        /\ batch' = [batch EXCEPT ![c] = Batch(c)]
        /\ rest' = [rest EXCEPT ![c] = rest[c] \ Batch(c)]
        /\ step' = [step EXCEPT ![c] = "mark"]
        /\ UNCHANGED <<added, old, hot, evicted, marked, reported, failures, counted,
                       workers, stopEvent, thread, joining>>
    BY DEF Commit, Goto, schedulerVars
  <1>3. TypeOK'
    BY <1>1, <1>2 DEF TypeOK, Steps
  <1>4. \A d \in Threads : Claim(d) \subseteq archive \ reported
    BY <1>1 DEF Claims
  <1>5. step[c] # "mark" /\ committed[c] = {}
    BY <1>1 DEF Commit, Commits
  <1>6. /\ Claim(c)' = Claim(c) \cup (Batch(c) \ archive)
        /\ \A d \in Threads \ {c} : Claim(d)' = Claim(d)
    BY <1>1, <1>2, <1>5 DEF Claim, TypeOK
  <1>7. Claims'
    BY <1>1, <1>2, <1>4, <1>6 DEF Claims
  <1>8. Commits' /\ NoLogLost'
    BY <1>1, <1>2 DEF Commits, NoLogLost, TypeOK
  <1> QED
    BY <1>3, <1>7, <1>8 DEF ArchivalInv

LEMMA MarkKeepsInv ==
  ASSUME ArchivalInv, NEW c \in Threads, Mark(c) \/ MarkFails(c)
  PROVE  ArchivalInv'
  <1>1. TypeOK /\ Claims /\ Commits /\ NoLogLost
    BY DEF ArchivalInv
  <1>2. /\ marked' \subseteq marked \cup (batch[c] \cap hot)
        /\ counted' = counted \/ counted' = [counted EXCEPT ![c] = counted[c] \cup committed[c]]
        /\ batch' = [batch EXCEPT ![c] = {}]
        /\ committed' = [committed EXCEPT ![c] = {}]
        /\ step' = [step EXCEPT ![c] = "batches"]
        /\ UNCHANGED <<added, old, hot, evicted, archive, reported, rest,
                       workers, stopEvent, thread, joining>>
    BY DEF Mark, MarkFails, Fail, BatchEnds, Goto, storeVars, schedulerVars
  <1>3. failures' \in 0..MaxFailures
    BY <1>1, ArchivalAssumption DEF TypeOK, Mark, MarkFails, Fail
  <1>4. TypeOK'
    BY <1>1, <1>2, <1>3 DEF TypeOK, Steps
  <1>5. \A d \in Threads : Claim(d)' \subseteq Claim(d)
    BY <1>1, <1>2 DEF Claim, TypeOK
  <1>6. Claims'
    BY <1>1, <1>2, <1>5 DEF Claims
  <1>7. Commits' /\ NoLogLost'
    BY <1>1, <1>2 DEF Commits, NoLogLost, TypeOK
  <1> QED
    BY <1>4, <1>6, <1>7 DEF ArchivalInv

LEMMA PurgeKeepsInv ==
  ASSUME ArchivalInv, NEW c \in Threads, Purge(c)
  PROVE  ArchivalInv'
  <1>1. TypeOK /\ Claims /\ Commits /\ NoLogLost /\ Purged(c) \subseteq marked
    BY Parts DEF ArchivalInv
  <1>2. /\ hot' = hot \ Purged(c) /\ old' = old \ Purged(c) /\ marked' = marked \ Purged(c)
        /\ step' = [step EXCEPT ![c] = "save"] /\ step[c] = "batches"
        /\ UNCHANGED <<added, evicted, archive, reported, failures, rest, batch,
                       committed, counted, workers, stopEvent, thread, joining>>
    BY DEF Purge, Goto, localVars, schedulerVars
  <1>3. TypeOK'
    BY <1>1, <1>2 DEF TypeOK, Steps
  <1>4. Claims'
    BY <1>1, <1>2 DEF Claims, Claim
  <1>5. Commits' /\ NoLogLost'
    BY <1>1, <1>2 DEF Commits, NoLogLost, TypeOK
  <1> QED
    BY <1>3, <1>4, <1>5 DEF ArchivalInv

LEMMA SaveKeepsInv ==
  ASSUME ArchivalInv, NEW c \in Threads, Save(c)
  PROVE  ArchivalInv'
  <1>1. TypeOK /\ Claims /\ Commits /\ NoLogLost
    BY DEF ArchivalInv
  <1>2. /\ reported' = reported \cup counted[c]
        /\ counted' = [counted EXCEPT ![c] = {}]
        /\ step[c] = "save"
        /\ step' = [step EXCEPT ![c] = "looping"] \/ step' = [step EXCEPT ![c] = "off"]
        /\ UNCHANGED <<added, old, hot, evicted, marked, archive, failures, rest, batch,
                       committed, workers, stopEvent, thread, joining>>
    BY DEF Save, Goto, schedulerVars
  <1>3. committed[c] = {}
    BY <1>1, <1>2 DEF Commits
  <1>4. TypeOK'
    BY <1>1, <1>2 DEF TypeOK, Steps
  <1>5. /\ Claim(c)' = {} /\ Claim(c) = counted[c]
        /\ \A d \in Threads \ {c} : Claim(d)' = Claim(d)
    BY <1>1, <1>2, <1>3 DEF Claim, TypeOK
  <1>6. Claims'
    BY <1>1, <1>2, <1>5 DEF Claims
  <1>7. Commits' /\ NoLogLost'
    BY <1>1, <1>2 DEF Commits, NoLogLost, TypeOK
  <1> QED
    BY <1>4, <1>6, <1>7 DEF ArchivalInv

(***************************************************************************)
(* A cycle that raises gives up its claims: they are reported by nobody.    *)
(***************************************************************************)
LEMMA CycleFailsKeepsInv ==
  ASSUME ArchivalInv, NEW c \in Threads, CycleFails(c)
  PROVE  ArchivalInv'
  <1>1. TypeOK /\ Claims /\ Commits /\ NoLogLost
    BY DEF ArchivalInv
  <1>2. /\ counted' = [counted EXCEPT ![c] = {}]
        /\ step' = [step EXCEPT ![c] = "save"] /\ step[c] # "mark"
        /\ UNCHANGED <<added, old, hot, evicted, marked, archive, reported, rest, batch,
                       committed, workers, stopEvent, thread, joining>>
    BY DEF CycleFails, Fail, Goto, storeVars, schedulerVars
  <1>3. failures' \in 0..MaxFailures
    BY <1>1, ArchivalAssumption DEF TypeOK, CycleFails, Fail
  <1>4. TypeOK'
    BY <1>1, <1>2, <1>3 DEF TypeOK, Steps
  <1>5. \A d \in Threads : Claim(d)' \subseteq Claim(d)
    BY <1>1, <1>2 DEF Claim, TypeOK
  <1>6. Claims'
    BY <1>1, <1>2, <1>5 DEF Claims
  <1>7. Commits' /\ NoLogLost'
    BY <1>1, <1>2 DEF Commits, NoLogLost, TypeOK
  <1> QED
    BY <1>4, <1>6, <1>7 DEF ArchivalInv

(***************************************************************************)
(* The steps that touch neither the collections nor a claim.                *)
(***************************************************************************)
LEMMA OthersKeepInv ==
  ASSUME ArchivalInv, TypeOK', UNCHANGED <<added, hot, evicted, marked, archive, reported,
                                           batch, committed, counted>>,
         \A c \in Threads : step'[c] = "mark" <=> step[c] = "mark"
  PROVE  ArchivalInv'
  BY DEF ArchivalInv, Claims, Claim, Commits, NoLogLost

LEMMA ArchivalNext == ArchivalInv /\ [Next]_vars => ArchivalInv'
  <1> SUFFICES ASSUME ArchivalInv, [Next]_vars PROVE ArchivalInv'
    OBVIOUS
  <1>0. TypeOK
    BY DEF ArchivalInv
  <1>1. ASSUME NEW l \in Logs, Age(l)
        PROVE  ArchivalInv'
    <2>1. TypeOK'
      BY <1>0, <1>1 DEF Age, TypeOK, cycleVars, schedulerVars
    <2> QED
      BY <1>1, <2>1, OthersKeepInv DEF Age, cycleVars
  <1>2. ASSUME NEW c \in Threads, Scan(c)
        PROVE  ArchivalInv'
    <2>1. rest' \in [Threads -> SUBSET Logs]
      <3>1. PICK eligible \in Thresholds(c) : rest' = [rest EXCEPT ![c] = eligible \ marked]
        BY <1>2 DEF Scan
      <3>2. eligible \subseteq Logs
        BY <1>0, <3>1, ArchivalAssumption DEF Thresholds, TypeOK, Logs
      <3> QED
        BY <1>0, <3>1, <3>2 DEF TypeOK
    <2>2. TypeOK'
      BY <1>0, <1>2, <2>1 DEF Scan, Goto, TypeOK, Steps, storeVars, schedulerVars
    <2> QED
      BY <1>0, <1>2, <2>2, OthersKeepInv DEF Scan, Goto, TypeOK, storeVars
  <1>3. ASSUME NEW c \in Threads, CommitFails(c)
        PROVE  ArchivalInv'
    <2>1. TypeOK'
      BY <1>0, <1>3, ArchivalAssumption
         DEF CommitFails, Fail, Goto, TypeOK, Steps, storeVars, schedulerVars
    <2> QED
      BY <1>0, <1>3, <2>1, OthersKeepInv DEF CommitFails, Fail, Goto, TypeOK, storeVars
  <1>4. ASSUME NEW c \in Threads, Trigger(c) \/ Start(c) \/ Loop(c)
        PROVE  ArchivalInv'
    <2>1. /\ step' \in [Threads -> Steps]
          /\ \A d \in Threads : step'[d] = "mark" <=> step[d] = "mark"
      BY <1>0, <1>4 DEF Trigger, Start, Loop, Alive, Goto, TypeOK, Steps
    <2>2. workers' \subseteq Threads /\ thread' \in Threads \cup {NoThread}
          /\ stopEvent' \in BOOLEAN /\ joining' = joining
      BY <1>0, <1>4 DEF Trigger, Start, Loop, TypeOK, schedulerVars
    <2>3. UNCHANGED <<storeVars, failures, localVars>>
      BY <1>4 DEF Trigger, Start, Loop
    <2>4. TypeOK'
      BY <1>0, <2>1, <2>2, <2>3, Zenon DEF TypeOK, storeVars, localVars
    <2> QED
      BY <2>1, <2>3, <2>4, OthersKeepInv DEF storeVars, localVars
  <1>5. CASE Stop \/ StopReturns
    <2>1. /\ workers' = workers /\ thread' \in Threads \cup {NoThread}
          /\ stopEvent' \in BOOLEAN /\ joining' \in BOOLEAN
          /\ UNCHANGED <<storeVars, failures, cycleVars>>
      BY <1>0, <1>5 DEF Stop, StopReturns, TypeOK
    <2>2. TypeOK'
      BY <1>0, <2>1, Zenon DEF TypeOK, storeVars, cycleVars
    <2> QED
      BY <2>1, <2>2, OthersKeepInv DEF storeVars, cycleVars
  <1>6. CASE UNCHANGED vars
    <2>1. TypeOK'
      BY <1>0, <1>6, Zenon DEF TypeOK, vars, storeVars, cycleVars, schedulerVars
    <2> QED
      BY <1>6, <2>1, OthersKeepInv DEF vars, storeVars, cycleVars
  <1> QED
    BY <1>1, <1>2, <1>3, <1>4, <1>5, <1>6, AddLogKeepsInv, CommitKeepsInv, MarkKeepsInv,
       PurgeKeepsInv, SaveKeepsInv, CycleFailsKeepsInv
       DEF Next, Proceed

THEOREM ArchivalInvariant == Spec => []ArchivalInv
  BY ArchivalInit, ArchivalNext, PTL DEF Spec

(***************************************************************************)
(* The types, for any store, batch size and set of threads.                 *)
(***************************************************************************)
THEOREM TypeCorrect == Spec => []TypeOK
  BY ArchivalInvariant, PTL DEF ArchivalInv

(***************************************************************************)
(* Archiving loses nothing, whatever fails and overlaps.                    *)
(***************************************************************************)
THEOREM NothingLost == Spec => []NoLogLost
  BY ArchivalInvariant, PTL DEF ArchivalInv

(***************************************************************************)
(* Run summaries never count a log twice.                                   *)
(***************************************************************************)
THEOREM SummariesDisjoint == Spec => []CountedOnce
  <1>1. ArchivalInv => CountedOnce
    BY DEF ArchivalInv, Claims, Claim, CountedOnce
  <1> QED
    BY ArchivalInvariant, <1>1, PTL

-----------------------------------------------------------------------------
(***************************************************************************)
(* A cycle works on logs that were added: the scan takes them from the hot  *)
(* collection, and they stay numbers of added logs while it is under way.   *)
(***************************************************************************)
RestAdded == \A c \in Threads : rest[c] \subseteq 1..added

LEMMA RestAddedNext == TypeOK /\ RestAdded /\ [Next]_vars => RestAdded'
  <1> SUFFICES ASSUME TypeOK, RestAdded, [Next]_vars PROVE RestAdded'
    OBVIOUS
  <1>1. added \in Nat /\ hot \subseteq 1..added /\ old \subseteq hot
        /\ rest \in [Threads -> SUBSET Logs]
    BY ArchivalAssumption DEF TypeOK
  <1>2. CASE AddLog
    BY <1>1, <1>2 DEF AddLog, RestAdded, cycleVars
  <1>3. ASSUME NEW c \in Threads, Scan(c)
        PROVE  RestAdded'
    <2>1. PICK eligible \in Thresholds(c) : rest' = [rest EXCEPT ![c] = eligible \ marked]
      BY <1>3 DEF Scan
    <2>2. eligible \subseteq 1..added
      BY <1>1, <2>1 DEF Thresholds
    <2> QED
      BY <1>1, <1>3, <2>1, <2>2 DEF Scan, RestAdded, storeVars
  <1>4. ASSUME NEW c \in Threads, Commit(c) \/ CommitFails(c)
        PROVE  RestAdded'
    BY <1>1, <1>4 DEF Commit, CommitFails, RestAdded, storeVars
  <1>5. CASE UNCHANGED <<added, rest>>
    BY <1>5 DEF RestAdded
  <1> QED
    BY <1>2, <1>3, <1>4, <1>5
       DEF Next, Proceed, Age, Loop, Mark, Purge, Save, MarkFails, CycleFails, Trigger,
           Start, Stop, StopReturns, vars, storeVars, cycleVars, localVars

(***************************************************************************)
(* Every step is one of the ledger's, or none: adding accepts, the write of *)
(* a batch archives, the purge discards, the saved summary reports; what    *)
(* marks, fails, ages or schedules is invisible.                            *)
(***************************************************************************)
LEMMA LedgerStep ==
  ArchivalInv /\ RestAdded /\ [Next]_vars => [Ledger!Next]_(Ledger!vars)
  <1> SUFFICES ASSUME ArchivalInv, RestAdded, [Next]_vars
               PROVE  [Ledger!Next]_(Ledger!vars)
    OBVIOUS
  <1>0. /\ TypeOK /\ Claims /\ Commits /\ added \in Nat /\ MaxLogs \in Nat
        /\ added \in 0..MaxLogs /\ hot \subseteq 1..added /\ marked \subseteq hot
    BY ArchivalAssumption DEF ArchivalInv, TypeOK
  <1>1. CASE AddLog
    <2>1. added + 1 \in Logs \ (1..added) /\ 1..added' = (1..added) \cup {added + 1}
      BY <1>0, <1>1 DEF AddLog, Logs
    <2>2. Dropped \in SUBSET Ledger!Oldest
      BY DEF Dropped, Ledger!Oldest
    <2>3. Ledger!Accept(added + 1)
      BY <1>1, <2>1, <2>2 DEF AddLog, Ledger!Accept
    <2> QED
      BY <2>1, <2>3 DEF Ledger!Next
  <1>2. ASSUME NEW c \in Threads, Commit(c)
        PROVE  Ledger!Next
    <2>1. Batch(c) \subseteq 1..added /\ Batch(c) \in SUBSET Logs
      BY <1>0, Parts DEF RestAdded, TypeOK
    <2>2. Ledger!Archive(Batch(c))
      BY <1>2, <2>1 DEF Commit, Ledger!Archive
    <2> QED
      BY <2>1, <2>2 DEF Ledger!Next
  <1>3. ASSUME NEW c \in Threads, Purge(c)
        PROVE  Ledger!Next
    <2>1. Purged(c) \subseteq hot \cap archive /\ Purged(c) \in SUBSET Logs
      BY <1>0, Parts DEF Commits, TypeOK
    <2>2. Ledger!Discard(Purged(c))
      BY <1>3, <2>1 DEF Purge, Ledger!Discard
    <2> QED
      BY <2>1, <2>2 DEF Ledger!Next
  <1>4. ASSUME NEW c \in Threads, Save(c)
        PROVE  Ledger!Next
    <2>1. counted[c] \subseteq archive \ reported /\ counted[c] \in SUBSET Logs
      BY <1>0 DEF Claims, Claim, TypeOK
    <2>2. Ledger!Report(counted[c])
      BY <1>4, <2>1 DEF Save, Ledger!Report
    <2> QED
      BY <2>1, <2>2 DEF Ledger!Next
  <1>5. CASE UNCHANGED <<added, hot, archive, evicted, reported>>
    BY <1>5 DEF Ledger!vars
  <1> QED
    BY <1>1, <1>2, <1>3, <1>4, <1>5
       DEF Next, Proceed, Age, Loop, Scan, Mark, CommitFails, MarkFails, CycleFails,
           Trigger, Start, Stop, StopReturns, vars, storeVars

(***************************************************************************)
(* The store implements the ledger, for any number of logs and threads, any *)
(* sizes and any failures.                                                  *)
(***************************************************************************)
THEOREM ImplementsLedger == Spec => LedgerSpec
  <1>1. Init => RestAdded /\ Ledger!Init
    BY DEF Init, RestAdded, Ledger!Init
  <1>2. ArchivalInv /\ RestAdded /\ [Next]_vars => RestAdded'
    BY RestAddedNext DEF ArchivalInv
  <1> QED
    BY <1>1, <1>2, LedgerStep, ArchivalInvariant, PTL DEF Spec, LedgerSpec, Ledger!Spec
=============================================================================
