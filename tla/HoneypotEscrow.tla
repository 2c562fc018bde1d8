---------------------------- MODULE HoneypotEscrow ----------------------------
(***************************************************************************)
(* HoneypotEscrowManager of src/features/honeypot_escrow.py: funds held in  *)
(* shadow escrow until an arrest or the auto-release.  Every section under  *)
(* the manager's RLock is one step; between two sections of one operation   *)
(* the other threads run.  Left out: amounts, the escrow accounts, the      *)
(* averages and daily figures.  The history keeps its last 10000 entries;   *)
(* fewer are closed here.                                                   *)
(***************************************************************************)
EXTENDS Naturals, Sequences, FiniteSets

CONSTANTS Honeypots,     \* the honeypot ids activate_honeypot() may draw
          Accounts,      \* target accounts
          Target,        \* the target account of each honeypot
          Checkers,      \* worker threads of the auto-release loop
          Callers,       \* threads that call the manager's other operations
          NoHoneypot

ASSUME EscrowAssumption ==
    /\ Target \in [Honeypots -> Accounts]
    /\ NoHoneypot \notin Honeypots
    /\ IsFiniteSet(Checkers \cup Callers)

VARIABLES
    status,          \* HoneypotTransaction.status, "none" before the activation
    expired,         \* honeypots whose auto_release_time has passed
    released,        \* honeypots with the released flag
    attempted,       \* honeypots with entries in withdrawal_attempts
    active,          \* keys of active_honeypots
    byAccount,       \* _active_honeypots_by_account
    history,         \* honeypot_history
    arrests,         \* stats['total_arrests']
    falsePositives,  \* stats['total_false_positives']
    dismantled,      \* _dismantled_honeypot_ids, counted in the statistics
    step,            \* where each thread stands between two locked sections
    subject,         \* the honeypot its operation holds a reference to
    batch            \* check_auto_release: to_release, what is left of it

honeypotVars == <<status, expired, released, attempted, active, byAccount>>
statsVars == <<history, arrests, falsePositives, dismantled>>
threadVars == <<step, subject, batch>>
vars == <<honeypotVars, statsVars, threadVars>>

Threads == Checkers \cup Callers

Statuses == {"none", "active", "withdrawal_attempted", "alert_sent",
             "network_traced", "arrested", "released"}

Steps == {"idle", "attempted", "alerting", "arresting", "tracing",
          "releasing", "closing"}

TypeOK ==
    /\ status \in [Honeypots -> Statuses]
    /\ expired \subseteq Honeypots
    /\ released \subseteq Honeypots
    /\ attempted \subseteq Honeypots
    /\ active \subseteq Honeypots
    /\ byAccount \in [Accounts -> Honeypots \cup {NoHoneypot}]
    /\ history \in Seq(Honeypots)
    /\ arrests \in Nat
    /\ falsePositives \in Nat
    /\ dismantled \subseteq Honeypots
    /\ step \in [Threads -> Steps]
    /\ subject \in [Threads -> Honeypots \cup {NoHoneypot}]
    /\ batch \in [Threads -> SUBSET Honeypots]

Init ==
    /\ status = [h \in Honeypots |-> "none"]
    /\ expired = {}
    /\ released = {}
    /\ attempted = {}
    /\ active = {}
    /\ byAccount = [a \in Accounts |-> NoHoneypot]
    /\ history = <<>>
    /\ arrests = 0
    /\ falsePositives = 0
    /\ dismantled = {}
    /\ step = [t \in Threads |-> "idle"]
    /\ subject = [t \in Threads |-> NoHoneypot]
    /\ batch = [t \in Threads |-> {}]

-----------------------------------------------------------------------------
(***************************************************************************)
(* Thread t leaves the lock: at step s, holding honeypot h; or it is done.  *)
(***************************************************************************)
Hold(t, s, h) ==
    /\ step' = [step EXCEPT ![t] = s]
    /\ subject' = [subject EXCEPT ![t] = h]

Done(t) == Hold(t, "idle", NoHoneypot) /\ batch' = [batch EXCEPT ![t] = {}]

SetStatus(h, s) == status' = [status EXCEPT ![h] = s]

Activated == {h \in Honeypots : status[h] # "none"}

(***************************************************************************)
(* activate_honeypot(): a fresh id; the index keeps the account's latest.   *)
(***************************************************************************)
Activate(h) ==
    /\ h \notin Activated
    /\ SetStatus(h, "active")
    /\ active' = active \cup {h}
    /\ byAccount' = [byAccount EXCEPT ![Target[h]] = h]
    /\ UNCHANGED <<expired, released, attempted, statsVars, threadVars>>

Expire(h) ==
    /\ h \in Activated \ expired
    /\ expired' = expired \cup {h}
    /\ UNCHANGED <<status, released, attempted, active, byAccount, statsVars,
                   threadVars>>

(***************************************************************************)
(* record_withdrawal_attempt(): look the account up (nothing happens when   *)
(* there is no honeypot or it is released), record the attempt, alert.      *)
(***************************************************************************)
FindAttempt(t, a) ==
    /\ step[t] = "idle"
    /\ byAccount[a] \in Honeypots \ released
    /\ Hold(t, "attempted", byAccount[a])
    /\ UNCHANGED <<honeypotVars, statsVars, batch>>

RecordAttempt(t) ==
    /\ step[t] = "attempted"
    /\ attempted' = attempted \cup {subject[t]}
    /\ SetStatus(subject[t], "withdrawal_attempted")
    /\ Hold(t, "alerting", subject[t])
    /\ UNCHANGED <<expired, released, active, byAccount, statsVars, batch>>

SendAlert(t) ==
    /\ step[t] = "alerting"
    /\ SetStatus(subject[t], "alert_sent")
    /\ Done(t)
    /\ UNCHANGED <<expired, released, attempted, active, byAccount, statsVars>>

(***************************************************************************)
(* record_arrest(), first section; it returns False for an id that is not   *)
(* active.  The second section is Close.                                    *)
(***************************************************************************)
RecordArrest(t, h) ==
    /\ step[t] = "idle"
    /\ h \in active
    /\ SetStatus(h, "arrested")
    /\ arrests' = arrests + 1
    /\ Hold(t, "arresting", h)
    /\ UNCHANGED <<expired, released, attempted, active, byAccount, history,
                   falsePositives, dismantled, batch>>

(***************************************************************************)
(* trace_network(): found active, then marked later, without another look.  *)
(* A network of more than five members counts as dismantled, once.  When    *)
(* the graph does not know the account nothing is marked.                   *)
(***************************************************************************)
StartTrace(t, h) ==
    /\ step[t] = "idle"
    /\ h \in active
    /\ Hold(t, "tracing", h)
    /\ UNCHANGED <<honeypotVars, statsVars, batch>>

MarkTraced(t, large) ==
    /\ step[t] = "tracing"
    /\ SetStatus(subject[t], "network_traced")
    /\ dismantled' = IF large THEN dismantled \cup {subject[t]} ELSE dismantled
    /\ Done(t)
    /\ UNCHANGED <<expired, released, attempted, active, byAccount, history,
                   arrests, falsePositives>>

TraceUnknown(t) ==
    /\ step[t] = "tracing"
    /\ Done(t)
    /\ UNCHANGED <<honeypotVars, statsVars>>

(***************************************************************************)
(* check_auto_release(): the expired honeypots under the lock, then         *)
(* _auto_release_honeypot() for each; one that is gone by then is skipped.  *)
(***************************************************************************)
\* Mutated form of Due: only the honeypots the account index leads to.
DueByAccount == {h \in active : h \in expired /\ byAccount[Target[h]] = h}

Due == {h \in active : h \in expired /\ h \notin released}

CheckAutoRelease(t) ==
    /\ step[t] = "idle"
    /\ Due # {}
    /\ Hold(t, "releasing", NoHoneypot)
    /\ batch' = [batch EXCEPT ![t] = Due]
    /\ UNCHANGED <<honeypotVars, statsVars>>

Take(t, h) ==
    /\ step[t] = "releasing"
    /\ h \in batch[t]
    /\ batch' = [batch EXCEPT ![t] = @ \ {h}]

Release(t, h) ==
    /\ Take(t, h)
    /\ h \in active
    /\ released' = released \cup {h}
    /\ SetStatus(h, "released")
    /\ falsePositives' = falsePositives + 1
    /\ Hold(t, "closing", h)
    /\ UNCHANGED <<expired, attempted, active, byAccount, history, arrests,
                   dismantled>>

SkipRelease(t, h) ==
    /\ Take(t, h)
    /\ h \notin active
    /\ UNCHANGED <<honeypotVars, statsVars, step, subject>>

BatchDone(t) ==
    /\ step[t] = "releasing"
    /\ batch[t] = {}
    /\ Done(t)
    /\ UNCHANGED <<honeypotVars, statsVars>>

\* Mutated form of Close: the history is written after the removal, so a
\* failing removal leaves no entry.
CloseRemovingFirst(t) ==
    /\ step[t] \in {"arresting", "closing"}
    /\ UNCHANGED <<status, expired, released, attempted, arrests,
                   falsePositives, dismantled>>
    /\ \/ /\ subject[t] \in active
          /\ history' = Append(history, subject[t])
          /\ active' = active \ {subject[t]}
          /\ byAccount' = [byAccount EXCEPT ![Target[subject[t]]] = NoHoneypot]
          /\ IF step[t] = "closing"
               THEN Hold(t, "releasing", NoHoneypot) /\ UNCHANGED batch
               ELSE Done(t)
       \/ /\ subject[t] \notin active
          /\ Done(t)
          /\ UNCHANGED <<active, byAccount, history>>

\* Mutated form of Close: the account index keeps its entry.
CloseKeepingIndex(t) ==
    /\ step[t] \in {"arresting", "closing"}
    /\ history' = Append(history, subject[t])
    /\ UNCHANGED <<status, expired, released, attempted, byAccount, arrests,
                   falsePositives, dismantled>>
    /\ active' = active \ {subject[t]}
    /\ IF step[t] = "closing" /\ subject[t] \in active
         THEN Hold(t, "releasing", NoHoneypot) /\ UNCHANGED batch
         ELSE Done(t)

(***************************************************************************)
(* The closing section of record_arrest() and _auto_release_honeypot():     *)
(* into the history, out of the active ones, and whatever honeypot the      *)
(* index holds for the account is dropped.  When another thread has closed  *)
(* the honeypot already, `del` raises KeyError: after the append, before    *)
(* the pop, and through the rest of the batch.                              *)
(***************************************************************************)
Close(t) ==
    /\ step[t] \in {"arresting", "closing"}
    /\ history' = Append(history, subject[t])
    /\ UNCHANGED <<status, expired, released, attempted, arrests,
                   falsePositives, dismantled>>
    /\ \/ /\ subject[t] \in active
          /\ active' = active \ {subject[t]}
          /\ byAccount' = [byAccount EXCEPT ![Target[subject[t]]] = NoHoneypot]
          /\ IF step[t] = "closing"
               THEN Hold(t, "releasing", NoHoneypot) /\ UNCHANGED batch
               ELSE Done(t)
       \/ /\ subject[t] \notin active
          /\ Done(t)
          /\ UNCHANGED <<active, byAccount>>

-----------------------------------------------------------------------------
\* A thread goes on with the operation it is in.
Continue(t) ==
    \/ RecordAttempt(t)
    \/ SendAlert(t)
    \/ \E large \in BOOLEAN : MarkTraced(t, large)
    \/ TraceUnknown(t)
    \/ \E h \in Honeypots : Release(t, h) \/ SkipRelease(t, h)
    \/ BatchDone(t)
    \/ Close(t)

Call(t) ==
    \/ \E a \in Accounts : FindAttempt(t, a)
    \/ \E h \in Honeypots : RecordArrest(t, h) \/ StartTrace(t, h)

Next ==
    \/ \E h \in Honeypots : Activate(h) \/ Expire(h)
    \/ \E t \in Threads : Continue(t)
    \/ \E t \in Callers : Call(t)
    \/ \E t \in Checkers : CheckAutoRelease(t)

(***************************************************************************)
(* Threads run, and the loop calls check_auto_release() again and again; an *)
(* exception out of it is caught and reported by the loop.  Nobody has to   *)
(* call the other operations.                                               *)
(***************************************************************************)
Spec ==
    /\ Init
    /\ [][Next]_vars
    /\ \A t \in Threads : WF_vars(Continue(t))
    /\ \A t \in Checkers : WF_vars(CheckAutoRelease(t))

-----------------------------------------------------------------------------
\* Threads that have counted an outcome and not closed the honeypot yet.
Closers == {t \in Threads : step[t] \in {"arresting", "closing"}}

(***************************************************************************)
(* The statistics agree with the history, duplicates included: every        *)
(* counted arrest or false positive is an entry of the history or a thread  *)
(* about to write one, also when two threads close one honeypot.            *)
(***************************************************************************)
CountsMatchHistory ==
    arrests + falsePositives = Len(history) + Cardinality(Closers)

(***************************************************************************)
(* Escrowed funds are never forgotten: an activated honeypot is active or   *)
(* in the history, and not both.                                            *)
(***************************************************************************)
NothingForgotten ==
    \A h \in Activated : h \in active <=> \A i \in 1..Len(history) : history[i] # h

(***************************************************************************)
(* How wrong the race makes the statistics: a honeypot is closed at most    *)
(* once per thread, since whoever closes it found it active.                *)
(***************************************************************************)
Entries(h) == {i \in 1..Len(history) : history[i] = h}

ClosedOncePerThread ==
    \A h \in Honeypots : Cardinality(Entries(h)) <= Cardinality(Threads)

(***************************************************************************)
(* A closed honeypot is never held again, whatever a late alert, trace or   *)
(* arrest writes into its status.                                           *)
(***************************************************************************)
ClosedForGood ==
    [][\A h \in Activated \ active : h \in (Activated \ active)']_vars

(***************************************************************************)
(* The account index never leads a withdrawal to a closed honeypot or to    *)
(* one of another account, whichever threads close and activate meanwhile.  *)
(* (An active honeypot may be missing from it: see Close.)                  *)
(***************************************************************************)
IndexPointsToActive ==
    \A a \in Accounts :
        byAccount[a] # NoHoneypot => byAccount[a] \in active /\ Target[byAccount[a]] = a

(***************************************************************************)
(* Funds whose deadline passed without a withdrawal attempt are not held    *)
(* for ever: the loop releases them, although a lost race aborts the rest   *)
(* of its batch.                                                            *)
(***************************************************************************)
ExpiredIsReleased ==
    \A h \in Honeypots :
        h \in active /\ h \in expired ~> h \notin active \/ h \in attempted

(***************************************************************************)
(* HoneypotEscrowManager, "Auto-release if no withdrawal in 2 hours", and   *)
(* the reason the loop releases with, "No withdrawal attempt within timeout *)
(* period": the loop picks no honeypot for release that a withdrawal attempt  *)
(* is recorded for.                                                         *)
(***************************************************************************)
ReleasesUnattempted ==
    [][\A t \in Checkers : batch'[t] \cap attempted \subseteq batch[t]]_vars
=============================================================================
