------------------------ MODULE LifecycleManagerProofs ------------------------
(***************************************************************************)
(* Theorems about startup, rollback and shutdown over the dispatcher.       *)
(***************************************************************************)
EXTENDS LifecycleManager, EventDispatcherProofs

-----------------------------------------------------------------------------
(***************************************************************************)
(* The inductive invariant: the accounts of the dispatcher, what each phase *)
(* of a call says about flags and dispatcher, how often the startup         *)
(* handlers have run, and what became of the shutdown event.                *)
(***************************************************************************)
PhaseAgrees ==
    /\ phase \in {"idle", "starting", "rollingBack", "stopping"} => ~stopping
    /\ phase \in {"stoppingAfterRollback", "draining"} => stopping
    /\ phase \in {"starting", "rollingBack", "stoppingAfterRollback"} =>
          started /\ ~up /\ ~shuttingDown
    /\ phase \in {"stopping", "draining"} => shuttingDown /\ ~completed
    /\ phase = "draining" => ~up
    /\ up => started
    /\ completed => shuttingDown /\ ~started
    /\ phase = "idle" /\ ~up /\ ~brokenOff => ~started

StepAgrees ==
    /\ phase = "starting" => step \in 1..StartSteps + 1 /\ startups > 0
    /\ phase = "rollingBack" => step \in 0..StartSteps - 1 /\ startups > 0
    /\ phase = "stopping" => step \in 0..StopSteps

\* Runs of startup handler s so far, at most.
MayHaveRun(s) ==
    CASE phase = "starting"    -> 2 * startups - IF s < step THEN 1 ELSE 2
      [] phase = "rollingBack" -> 2 * startups - IF s > step THEN 0 ELSE 1
      [] OTHER                 -> 2 * startups

LiveBounded == \A s \in 1..StartSteps : live[s] <= MayHaveRun(s)

ShutdownFate ==
    \/ ~completed /\ phase # "draining" /\ fate[ShutdownEvent] = "new"
    \/ phase = "draining" /\ fate[ShutdownEvent] \in {"held", "published"}
    \/ completed /\ fate[ShutdownEvent] \in {"published", "abandoned"}

RuntimeInv ==
    /\ AccountInv
    /\ LifecycleTypeOK
    /\ PhaseAgrees
    /\ StepAgrees
    /\ LiveBounded
    /\ ShutdownFate

-----------------------------------------------------------------------------
(***************************************************************************)
(* The dispatcher under the lifecycle.  Every step is one of its own steps, *)
(* except the announcement: start, dispatch and stop request in one.        *)
(***************************************************************************)
LEMMA DispatcherSteps ==
  [RuntimeNext]_runtimeVars /\ ~AnnounceShutdown => [Next]_vars
  <1> SUFFICES ASSUME [RuntimeNext]_runtimeVars, ~AnnounceShutdown PROVE [Next]_vars
    OBVIOUS
  <1>1. StartedEvent \in Events
    BY LifecycleAssumption DEF Events
  <1>2. CASE StartupCall
    BY <1>2 DEF StartupCall, EnsureDispatcher, dispatcherVars, Next
  <1>3. CASE ShutdownCall \/ UNCHANGED runtimeVars
    BY <1>3 DEF ShutdownCall, runtimeVars, dispatcherVars
  <1>4. CASE \E ok \in BOOLEAN : StartStep(ok) \/ RollbackStep(ok) \/ StopStep(ok)
    BY <1>4 DEF StartStep, RollbackStep, StopStep, dispatcherVars
  <1>5. CASE StartStepRaises \/ StartupRejected \/ StopStepRaises \/ StepCancelled
    BY <1>5 DEF StartStepRaises, StartupRejected, StopStepRaises, StepCancelled, dispatcherVars
  <1>6. CASE StartupComplete
    BY <1>1, <1>6 DEF StartupComplete, Next
  <1>7. CASE RollbackStop
    BY <1>7 DEF RollbackStop, Next
  <1>8. CASE StopEnds \/ StopInterrupted
    BY <1>8 DEF StopEnds, StopInterrupted, Next
  <1>9. CASE DispatcherRuns
    BY <1>9 DEF DispatcherRuns, Next
  <1>10. CASE OtherDispatch
    BY <1>10 DEF OtherDispatch, Next
  <1> QED
    BY <1>2, <1>3, <1>4, <1>5, <1>6, <1>7, <1>8, <1>9, <1>10
       DEF RuntimeNext, LifecycleProceeds

(***************************************************************************)
(* The announcement to a dispatcher that is running.                        *)
(***************************************************************************)
LEMMA AnnounceRunning ==
  ASSUME RuntimeInv, AnnounceShutdown, started
  PROVE  AccountInv'
  <1>1. /\ BoundsInv /\ ~stopping /\ ShutdownEvent \in Critical /\ ShutdownEvent \in Events
        /\ fate[ShutdownEvent] = "new"
    BY LifecycleAssumption
       DEF RuntimeInv, AccountInv, PhaseAgrees, ShutdownFate, AnnounceShutdown, Events
  <1>2. LoopAlive
    BY <1>1 DEF BoundsInv, ControlAgrees, TypeOK, LoopStates, LoopAlive
  <1>3. /\ UNCHANGED <<loop, current, published>>
        /\ started' = TRUE /\ stopping' = TRUE /\ stopRequested' = TRUE
        /\ Hold(ShutdownEvent)
    BY <1>2 DEF AnnounceShutdown, Hold
  <1>4. Enqueue(ShutdownEvent, TRUE) \/ Preserve(ShutdownEvent)
    <2>1. Len(queue) < MaxSize \/ Len(queue) >= MaxSize
      BY <1>1, MaxSizeAssumption, LenProperties DEF BoundsInv, TypeOK
    <2>2. CASE Len(queue) < MaxSize
      BY <1>1, <1>3, <2>2 DEF AnnounceShutdown, Enqueue
    <2>3. CASE ~(Len(queue) < MaxSize)
      BY <1>1, <1>3, <2>1, <2>3 DEF AnnounceShutdown, Preserve
    <2> QED
      BY <2>2, <2>3
  <1>5. /\ MaxSize \in Nat \ {0} /\ Len(queue) \in Nat
        /\ queue \in Seq(Events) /\ overflow \in Seq(Critical) /\ arrived \in Seq(Events)
    BY <1>1, MaxSizeAssumption, LenProperties DEF BoundsInv, TypeOK
  <1>6. /\ queue' \in Seq(Events) /\ overflow' \in Seq(Critical) /\ arrived' \in Seq(Events)
        /\ OverflowOnlyBehindFullQueue'
    <2>1. CASE Enqueue(ShutdownEvent, TRUE)
      <3>1. /\ queue' \in Seq(Events) /\ Len(queue') = Len(queue) + 1
            /\ arrived' \in Seq(Events) /\ overflow' = overflow /\ Len(queue) < MaxSize
        BY <1>1, <1>5, <2>1, AppendProperties DEF Enqueue
      <3> QED
        BY <1>1, <1>3, <1>5, <3>1 DEF BoundsInv, OverflowOnlyBehindFullQueue
    <2>2. CASE Preserve(ShutdownEvent)
      <3>1. /\ UNCHANGED <<queue, arrived>> /\ Len(queue) >= MaxSize
            /\ overflow' = <<ShutdownEvent>> \o overflow
        BY <2>2 DEF Preserve
      <3>2. <<ShutdownEvent>> \in Seq(Critical)
        BY <1>1
      <3>3. overflow' \in Seq(Critical)
        BY <1>5, <3>1, <3>2, ConcatProperties
      <3> QED
        BY <1>1, <1>3, <1>5, <3>1, <3>3 DEF BoundsInv, OverflowOnlyBehindFullQueue
    <2> QED
      BY <1>4, <2>1, <2>2
  <1>7. TypeOK'
    <2>1. fate' \in [Events -> Fates]
      BY <1>1, <1>3 DEF BoundsInv, TypeOK, Hold, Fates
    <2> QED
      BY <1>1, <1>3, <1>6, <2>1 DEF BoundsInv, TypeOK
  <1>8. ControlAgrees' /\ StoppedIsClean'
    BY <1>1, <1>3 DEF BoundsInv, ControlAgrees, StoppedIsClean
  <1>9. BoundsInv'
    BY <1>6, <1>7, <1>8 DEF BoundsInv
  <1> QED
    BY <1>1, <1>3, <1>4, <1>9, AccountPut DEF RuntimeInv

(***************************************************************************)
(* The announcement of a runtime whose dispatcher has to be started for it. *)
(***************************************************************************)
LEMMA AnnounceStarting ==
  ASSUME RuntimeInv, AnnounceShutdown, ~started
  PROVE  AccountInv'
  <1>1. /\ BoundsInv /\ TypeOK /\ MaxSize \in Nat \ {0}
        /\ ShutdownEvent \in Critical /\ ShutdownEvent \in Events
        /\ ShutdownEvent # NoEvent
        /\ loop = "none" /\ overflow = <<>> /\ current = NoEvent
        /\ fate \in [Events -> Fates] /\ fate[ShutdownEvent] = "new"
    BY LifecycleAssumption, MaxSizeAssumption, EventsAssumption
       DEF RuntimeInv, AccountInv, BoundsInv, TypeOK, StoppedIsClean, PhaseAgrees,
           ShutdownFate, AnnounceShutdown, Events
  <1>2. /\ queue' = <<ShutdownEvent>> /\ overflow' = <<>>
        /\ arrived' = Append(arrived, ShutdownEvent)
        /\ loop' = "fetching" /\ current' = NoEvent /\ published' = published
        /\ started' = TRUE /\ stopping' = TRUE /\ stopRequested' = TRUE
        /\ fate' = [fate EXCEPT ![ShutdownEvent] = "held"]
    <2>1. Len(<<>>) < MaxSize /\ Append(<<>>, ShutdownEvent) = <<ShutdownEvent>>
      BY <1>1
    <2> QED
      BY <1>1, <2>1 DEF AnnounceShutdown
  <1>3. /\ queue' \in Seq(Events) /\ overflow' \in Seq(Critical) /\ arrived' \in Seq(Events)
        /\ Len(queue') = 1
    <2>1. <<ShutdownEvent>> \in Seq(Events) /\ Len(<<ShutdownEvent>>) = 1
      BY <1>1
    <2>2. Append(arrived, ShutdownEvent) \in Seq(Events)
      BY <1>1, AppendProperties DEF TypeOK
    <2> QED
      BY <1>2, <2>1, <2>2, EmptySeq
  <1>4. BoundsInv'
    <2>1. TypeOK'
      BY <1>1, <1>2, <1>3 DEF TypeOK, Fates, LoopStates
    <2>2. ControlAgrees' /\ StoppedIsClean' /\ OverflowOnlyBehindFullQueue'
      BY <1>1, <1>2, <1>3 DEF ControlAgrees, StoppedIsClean, OverflowOnlyBehindFullQueue
    <2> QED
      BY <2>1, <2>2 DEF BoundsInv
  <1>5. Elements(queue') = {ShutdownEvent} /\ Elements(overflow') = {}
    <2>1. Elements(<<ShutdownEvent>>) = {ShutdownEvent}
      BY DEF Elements
    <2> QED
      BY <1>2, <2>1, ElementsOfEmpty
  <1>6. InFlight = {} /\ LoopAlive' /\ InFlight' = {ShutdownEvent}
    BY <1>1, <1>2, <1>5 DEF InFlight, LoopAlive
  <1>7. HeldIsInFlight'
    BY <1>1, <1>2, <1>6 DEF RuntimeInv, AccountInv, HeldIsInFlight
  <1>8. LineDistinct'
    <2>1. Line' = <<ShutdownEvent>>
      <3>1. <<ShutdownEvent>> \o <<>> = <<ShutdownEvent>>
        BY <1>1
      <3> QED
        BY <1>2, <3>1 DEF Line
    <2>2. Distinct(<<ShutdownEvent>>) /\ NoEvent \notin Elements(<<ShutdownEvent>>)
      BY <1>1, <1>2, <1>5 DEF Distinct
    <2> QED
      BY <1>2, <2>1, <2>2 DEF LineDistinct
  <1>9. PublishedSaysSo' /\ PublishedOnce'
    <2>1. \A i \in 1..Len(published) : published[i] \in Events
      BY <1>1, ElementOfSeq DEF TypeOK
    <2>2. \A i \in 1..Len(published) : published[i] # ShutdownEvent
      BY <1>1 DEF RuntimeInv, AccountInv, PublishedSaysSo
    <2> QED
      BY <1>1, <1>2, <2>1, <2>2 DEF RuntimeInv, AccountInv, PublishedSaysSo, PublishedOnce
  <1> QED
    BY <1>4, <1>7, <1>8, <1>9 DEF AccountInv

LEMMA AccountsKept ==
  ASSUME RuntimeInv, [RuntimeNext]_runtimeVars
  PROVE  AccountInv'
  <1>1. CASE AnnounceShutdown
    BY <1>1, AnnounceRunning, AnnounceStarting
  <1>2. CASE ~AnnounceShutdown
    BY <1>2, DispatcherSteps, AccountNext DEF RuntimeInv
  <1> QED
    BY <1>1, <1>2

-----------------------------------------------------------------------------
(***************************************************************************)
(* The control half of the invariant, one lemma per conjunct.  Each looks   *)
(* at the actions with the dispatcher's part reduced to its flags.          *)
(***************************************************************************)
FlagsKept == UNCHANGED <<started, stopping>>

LEMMA DispatchKeepsFlags ==
  ASSUME NEW e, Dispatch(e)
  PROVE  FlagsKept
  BY DEF Dispatch, Offer, FlagsKept

LEMMA StopEnding ==
  ASSUME StopReturn \/ StopCancelled
  PROVE  started' = FALSE /\ stopping' = FALSE
  BY DEF StopReturn, StopCancelled, Stopped

LEMMA PhasesKept ==
  ASSUME RuntimeInv, [RuntimeNext]_runtimeVars
  PROVE  PhaseAgrees'
  <1>1. /\ PhaseAgrees
        /\ phase \in Phases /\ failFast \in BOOLEAN /\ up \in BOOLEAN
        /\ shuttingDown \in BOOLEAN /\ completed \in BOOLEAN /\ brokenOff \in BOOLEAN
        /\ started \in BOOLEAN /\ stopping \in BOOLEAN
        /\ stopping => started
    BY DEF RuntimeInv, LifecycleTypeOK, TypeOK, AccountInv, BoundsInv, ControlAgrees
  <1>2. CASE StartupCall
    BY <1>1, <1>2 DEF StartupCall, EnsureDispatcher, Start, dispatcherVars, vars, PhaseAgrees
  <1>3. CASE \E ok \in BOOLEAN : StartStep(ok) \/ RollbackStep(ok) \/ StopStep(ok)
    BY <1>1, <1>3 DEF StartStep, RollbackStep, StopStep, dispatcherVars, vars, PhaseAgrees
  <1>4. CASE StartStepRaises \/ StartupRejected \/ StopStepRaises \/ StepCancelled
    BY <1>1, <1>4
       DEF StartStepRaises, StartupRejected, StopStepRaises, StepCancelled, dispatcherVars, vars,
           PhaseAgrees
  <1>5. CASE StartupComplete
    <2>1. FlagsKept
      BY <1>5, DispatchKeepsFlags DEF StartupComplete
    <2> QED
      BY <1>1, <1>5, <2>1 DEF StartupComplete, FlagsKept, PhaseAgrees
  <1>6. CASE RollbackStop
    BY <1>1, <1>6 DEF RollbackStop, StopRequest, PhaseAgrees
  <1>7. CASE ShutdownCall
    BY <1>1, <1>7 DEF ShutdownCall, dispatcherVars, vars, PhaseAgrees
  <1>8. CASE AnnounceShutdown
    BY <1>1, <1>8 DEF AnnounceShutdown, PhaseAgrees
  <1>9. CASE StopEnds \/ StopInterrupted
    <2>1. started' = FALSE /\ stopping' = FALSE
      BY <1>9, StopEnding DEF StopEnds, StopInterrupted
    <2> QED
      BY <1>1, <1>9, <2>1
         DEF StopEnds, StopInterrupted, RollbackComplete, ShutdownComplete, PhaseAgrees
  <1>10. CASE DispatcherRuns \/ OtherDispatch \/ UNCHANGED runtimeVars
    <2>1. FlagsKept /\ UNCHANGED lifecycleVars
      BY <1>10, DispatchKeepsFlags
         DEF DispatcherRuns, OtherDispatch, Loop, Fetch, Publish, LoopExit, FlagsKept,
             runtimeVars, dispatcherVars, vars
    <2> QED
      BY <1>1, <2>1 DEF FlagsKept, lifecycleVars, PhaseAgrees
  <1> QED
    BY <1>2, <1>3, <1>4, <1>5, <1>6, <1>7, <1>8, <1>9, <1>10 DEF RuntimeNext, LifecycleProceeds

LEMMA BrokenOffKept ==
  ASSUME RuntimeInv, [RuntimeNext]_runtimeVars
  PROVE  brokenOff' \in BOOLEAN
  BY DEF RuntimeInv, LifecycleTypeOK, RuntimeNext, LifecycleProceeds, StartupCall, ShutdownCall,
         StartStep, RollbackStep, StopStep, StartStepRaises, StartupRejected, StartupComplete,
         RollbackStop, StopStepRaises, StepCancelled, AnnounceShutdown, StopEnds, StopInterrupted,
         RollbackComplete, ShutdownComplete, DispatcherRuns, OtherDispatch, lifecycleVars,
         runtimeVars

LEMMA StepsKept ==
  ASSUME RuntimeInv, [RuntimeNext]_runtimeVars
  PROVE  /\ StepAgrees' /\ LiveBounded'
         /\ phase' \in Phases /\ up' \in BOOLEAN /\ shuttingDown' \in BOOLEAN
         /\ completed' \in BOOLEAN /\ failFast' \in BOOLEAN
         /\ step' \in 0..StartSteps + StopSteps /\ startups' \in 0..MaxStartups
         /\ live' \in [1..StartSteps -> Nat]
  <1>1. /\ StepAgrees /\ LiveBounded
        /\ StartSteps \in Nat \ {0} /\ StopSteps \in Nat \ {0} /\ MaxStartups \in Nat
        /\ phase \in Phases /\ up \in BOOLEAN /\ shuttingDown \in BOOLEAN
        /\ completed \in BOOLEAN /\ failFast \in BOOLEAN
        /\ step \in 0..StartSteps + StopSteps /\ startups \in 0..MaxStartups
        /\ live \in [1..StartSteps -> Nat]
    BY LifecycleAssumption DEF RuntimeInv, LifecycleTypeOK
  <1>2. CASE StartupCall
    <2>1. /\ phase = "idle" /\ phase' = "starting" /\ step' = 1 /\ startups < MaxStartups
          /\ startups' = startups + 1
          /\ UNCHANGED <<live, up, shuttingDown, completed, failFast>>
      BY <1>2 DEF StartupCall
    <2>2. \A s \in 1..StartSteps : MayHaveRun(s) = 2 * startups /\ ~(s < 1)
      BY <1>1, <2>1 DEF MayHaveRun
    <2>3. \A s \in 1..StartSteps : MayHaveRun(s)' = 2 * (startups + 1) - 2
      BY <1>1, <2>1, <2>2 DEF MayHaveRun
    <2>4. LiveBounded'
      BY <1>1, <2>1, <2>2, <2>3 DEF LiveBounded
    <2> QED
      BY <1>1, <2>1, <2>4 DEF StepAgrees, Phases
  <1>3. CASE \E ok \in BOOLEAN : StartStep(ok)
    <2>1. PICK ok \in BOOLEAN : StartStep(ok)
      BY <1>3
    <2>2. /\ phase = "starting" /\ step <= StartSteps /\ step' = step + 1 /\ startups > 0
          /\ live' = IF ok THEN [live EXCEPT ![step] = @ + 1] ELSE live
          /\ UNCHANGED <<phase, startups, up, shuttingDown, completed, failFast>>
          /\ step \in 1..StartSteps
      BY <1>1, <2>1 DEF StartStep, StepAgrees
    <2>3. \A s \in 1..StartSteps :
             /\ MayHaveRun(s) = 2 * startups - IF s < step THEN 1 ELSE 2
             /\ MayHaveRun(s)' = 2 * startups - IF s < step + 1 THEN 1 ELSE 2
      BY <1>1, <2>2 DEF MayHaveRun
    <2>4. \A s \in 1..StartSteps : live'[s] \in Nat /\ live'[s] <= MayHaveRun(s)'
      <3>1. TAKE s \in 1..StartSteps
      <3>2. /\ live[s] \in Nat /\ live[s] <= MayHaveRun(s)
            /\ startups \in Nat /\ step \in Nat /\ s \in Nat
        BY <1>1 DEF LiveBounded
      <3>3. CASE s = step
        <4>1. live'[s] \in {live[s], live[s] + 1}
          BY <1>1, <2>2, <3>3
        <4>2. MayHaveRun(s) = 2 * startups - 2 /\ MayHaveRun(s)' = 2 * startups - 1
          BY <2>3, <3>2, <3>3
        <4> QED
          BY <3>2, <4>1, <4>2
      <3>4. CASE s # step
        <4>1. live'[s] = live[s]
          BY <1>1, <2>2, <3>4
        <4>2. MayHaveRun(s)' = MayHaveRun(s)
          BY <2>3, <3>2, <3>4
        <4> QED
          BY <3>2, <4>1, <4>2
      <3> QED
        BY <3>3, <3>4
    <2>5. live' \in [1..StartSteps -> Nat]
      BY <1>1, <2>2
    <2> QED
      BY <1>1, <2>2, <2>4, <2>5 DEF StepAgrees, LiveBounded, Phases
  <1>4. CASE \E ok \in BOOLEAN : RollbackStep(ok)
    <2>1. PICK ok \in BOOLEAN : RollbackStep(ok)
      BY <1>4
    <2>2. /\ phase = "rollingBack" /\ step' = step - 1 /\ startups > 0
          /\ live' = IF ok THEN [live EXCEPT ![step] = @ + 1] ELSE live
          /\ UNCHANGED <<phase, startups, up, shuttingDown, completed, failFast>>
          /\ step \in 1..StartSteps - 1
      BY <1>1, <2>1 DEF RollbackStep, StepAgrees
    <2>3. \A s \in 1..StartSteps :
             /\ MayHaveRun(s) = 2 * startups - IF s > step THEN 0 ELSE 1
             /\ MayHaveRun(s)' = 2 * startups - IF s > step - 1 THEN 0 ELSE 1
      BY <1>1, <2>2 DEF MayHaveRun
    <2>4. \A s \in 1..StartSteps : live'[s] \in Nat /\ live'[s] <= MayHaveRun(s)'
      <3>1. TAKE s \in 1..StartSteps
      <3>2. /\ live[s] \in Nat /\ live[s] <= MayHaveRun(s)
            /\ startups \in Nat /\ step \in Nat /\ s \in Nat
        BY <1>1 DEF LiveBounded
      <3>3. CASE s = step
        <4>1. live'[s] \in {live[s], live[s] + 1}
          BY <1>1, <2>2, <3>3
        <4>2. MayHaveRun(s) = 2 * startups - 1 /\ MayHaveRun(s)' = 2 * startups
          BY <2>3, <3>2, <3>3
        <4> QED
          BY <3>2, <4>1, <4>2
      <3>4. CASE s # step
        <4>1. live'[s] = live[s]
          BY <1>1, <2>2, <3>4
        <4>2. MayHaveRun(s)' = MayHaveRun(s)
          BY <2>3, <3>2, <3>4
        <4> QED
          BY <3>2, <4>1, <4>2
      <3> QED
        BY <3>3, <3>4
    <2>5. live' \in [1..StartSteps -> Nat]
      BY <1>1, <2>2
    <2> QED
      BY <1>1, <2>2, <2>4, <2>5 DEF StepAgrees, LiveBounded, Phases
  <1>5. CASE \E ok \in BOOLEAN : StopStep(ok)
    BY <1>1, <1>5 DEF StopStep, StepAgrees, LiveBounded, MayHaveRun, Phases
  <1>6. CASE StartStepRaises
    <2>1. /\ phase = "starting" /\ phase' = "rollingBack" /\ step \in 1..StartSteps
          /\ step' = step - 1 /\ startups > 0
          /\ UNCHANGED <<live, startups, up, shuttingDown, completed, failFast>>
      BY <1>1, <1>6 DEF StartStepRaises, StepAgrees
    <2>2. \A s \in 1..StartSteps :
             /\ MayHaveRun(s) = 2 * startups - IF s < step THEN 1 ELSE 2
             /\ MayHaveRun(s)' = 2 * startups - IF s > step - 1 THEN 0 ELSE 1
      BY <1>1, <2>1 DEF MayHaveRun
    <2>n. startups \in Nat /\ step \in Nat
      BY <1>1
    <2>3. \A s \in 1..StartSteps : MayHaveRun(s) \in Int /\ MayHaveRun(s) <= MayHaveRun(s)'
      <3>1. TAKE s \in 1..StartSteps
      <3>2. CASE s < step
        BY <2>n, <2>2, <3>2
      <3>3. CASE ~(s < step)
        BY <2>n, <2>2, <3>3
      <3> QED
        BY <3>2, <3>3
    <2>4. \A s \in 1..StartSteps : MayHaveRun(s)' \in Int
      BY <2>n, <2>2
    <2>5. LiveBounded'
      BY <1>1, <2>1, <2>3, <2>4 DEF LiveBounded
    <2> QED
      BY <1>1, <2>1, <2>5 DEF StepAgrees, Phases
  <1>7. ASSUME phase' \notin {"starting", "rollingBack"},
                UNCHANGED <<live, startups>>
         PROVE  LiveBounded'
    <2>1. \A s \in 1..StartSteps :
             /\ MayHaveRun(s) \in Int /\ MayHaveRun(s) <= 2 * startups
             /\ MayHaveRun(s)' = 2 * startups
      BY <1>1, <1>7 DEF MayHaveRun
    <2>2. startups \in Nat
      BY <1>1
    <2> QED
      BY <1>1, <1>7, <2>1, <2>2 DEF LiveBounded
  <1>8. CASE StartupRejected \/ StopStepRaises \/ StepCancelled
    <2>1. LiveBounded'
      BY <1>7, <1>8 DEF StartupRejected, StopStepRaises, StepCancelled
    <2> QED
      BY <1>1, <1>8, <2>1 DEF StartupRejected, StopStepRaises, StepCancelled, StepAgrees, Phases
  <1>9. CASE StartupComplete \/ RollbackStop \/ ShutdownCall
    <2>1. LiveBounded'
      BY <1>9, <1>7 DEF StartupComplete, RollbackStop, ShutdownCall
    <2>2. CASE StartupComplete \/ RollbackStop
      <3>1. /\ phase' \in {"idle", "stoppingAfterRollback"} /\ step' = 0
            /\ up' \in BOOLEAN
            /\ UNCHANGED <<failFast, shuttingDown, live, startups, completed>>
        BY <1>1, <2>2 DEF StartupComplete, RollbackStop
      <3> QED
        BY <1>1, <2>1, <3>1 DEF StepAgrees, Phases
    <2>3. CASE ShutdownCall
      BY <1>1, <2>1, <2>3 DEF ShutdownCall, StepAgrees, Phases
    <2> QED
      BY <1>9, <2>2, <2>3
  <1>10. CASE AnnounceShutdown
    <2>1. /\ phase' = "draining" /\ up' = FALSE
          /\ UNCHANGED <<failFast, shuttingDown, step, live, startups, completed>>
      BY <1>10 DEF AnnounceShutdown
    <2>2. LiveBounded'
      BY <1>7, <2>1
    <2> QED
      BY <1>1, <2>1, <2>2 DEF StepAgrees, Phases
  <1>11. CASE StopEnds \/ StopInterrupted
    <2>1. LiveBounded'
      BY <1>11, <1>7 DEF StopEnds, StopInterrupted, RollbackComplete, ShutdownComplete
    <2> QED
      BY <1>1, <1>11, <2>1
         DEF StopEnds, StopInterrupted, RollbackComplete, ShutdownComplete, StepAgrees, Phases
  <1>12. CASE DispatcherRuns \/ OtherDispatch \/ UNCHANGED runtimeVars
    <2>1. UNCHANGED lifecycleVars
      BY <1>12 DEF DispatcherRuns, OtherDispatch, runtimeVars
    <2> QED
      BY <1>1, <2>1 DEF lifecycleVars, StepAgrees, LiveBounded, MayHaveRun, Phases
  <1> QED
    BY <1>2, <1>3, <1>4, <1>5, <1>6, <1>9, <1>11, <1>12, <1>8, <1>10
       DEF RuntimeNext, LifecycleProceeds

(***************************************************************************)
(* The shutdown event is dispatched once, in the announcement; the loop     *)
(* publishes it or a cancelled stop abandons it, and a stop that returns    *)
(* has nothing left in flight.                                              *)
(***************************************************************************)
LEMMA ShutdownFateKept ==
  ASSUME RuntimeInv, [RuntimeNext]_runtimeVars
  PROVE  ShutdownFate'
  <1>1. /\ ShutdownFate /\ PhaseAgrees /\ HeldIsInFlight /\ ControlAgrees /\ TypeOK
        /\ fate \in [Events -> Fates] /\ ShutdownEvent \in Events
        /\ StartedEvent \in Events /\ StartedEvent # ShutdownEvent
    BY LifecycleAssumption, EventsAssumption
       DEF RuntimeInv, AccountInv, BoundsInv, TypeOK, Events
  <1>2. ASSUME NEW e \in Events, e # ShutdownEvent, Dispatch(e)
        PROVE  fate'[ShutdownEvent] = fate[ShutdownEvent]
    BY <1>1, <1>2 DEF Dispatch, Offer, Ignore, Refuse, Drop, Enqueue, Preserve, Hold
  <1>3. CASE StartupCall
    BY <1>1, <1>3
       DEF StartupCall, EnsureDispatcher, Start, dispatcherVars, vars, ShutdownFate
  <1>4. CASE \E ok \in BOOLEAN : StartStep(ok) \/ RollbackStep(ok) \/ StopStep(ok)
    BY <1>1, <1>4 DEF StartStep, RollbackStep, StopStep, dispatcherVars, vars, ShutdownFate
  <1>5. CASE StartStepRaises \/ StartupRejected \/ StopStepRaises \/ StepCancelled
    BY <1>1, <1>5 DEF StartStepRaises, StartupRejected, StopStepRaises, StepCancelled, dispatcherVars,
                      vars, ShutdownFate
  <1>6. CASE StartupComplete
    <2>1. fate'[ShutdownEvent] = fate[ShutdownEvent]
      BY <1>1, <1>2, <1>6 DEF StartupComplete
    <2> QED
      BY <1>1, <1>6, <2>1 DEF StartupComplete, ShutdownFate
  <1>7. CASE RollbackStop
    BY <1>1, <1>7 DEF RollbackStop, StopRequest, ShutdownFate
  <1>8. CASE ShutdownCall
    BY <1>1, <1>8 DEF ShutdownCall, dispatcherVars, vars, ShutdownFate
  <1>9. CASE AnnounceShutdown
    BY <1>1, <1>9 DEF AnnounceShutdown, ShutdownFate
  <1>10. CASE StopEnds
    <2>1. fate' = fate /\ loop = "done"
      BY <1>10 DEF StopEnds, StopReturn
    <2>2. fate[ShutdownEvent] # "held"
      BY <1>1, <2>1 DEF HeldIsInFlight, InFlight, LoopAlive
    <2> QED
      BY <1>1, <1>10, <2>1, <2>2
         DEF StopEnds, RollbackComplete, ShutdownComplete, ShutdownFate, PhaseAgrees
  <1>11. CASE StopInterrupted
    <2>1. fate' = [e \in Events |-> IF fate[e] = "held" THEN "abandoned" ELSE fate[e]]
      BY <1>11 DEF StopInterrupted, StopCancelled
    <2> QED
      BY <1>1, <1>11, <2>1
         DEF StopInterrupted, RollbackComplete, ShutdownComplete, ShutdownFate, PhaseAgrees
  <1>12. CASE DispatcherRuns
    <2>1. UNCHANGED <<phase, completed>> /\ (Fetch \/ Publish \/ LoopExit)
      BY <1>12 DEF DispatcherRuns, Loop, lifecycleVars
    <2>2. CASE Fetch \/ LoopExit
      BY <1>1, <2>1, <2>2 DEF Fetch, LoopExit, ShutdownFate
    <2>3. CASE Publish
      <3>1. /\ started /\ LoopAlive /\ current \in Events /\ current # NoEvent
            /\ fate' = [fate EXCEPT ![current] = "published"]
        BY <1>1, <2>3 DEF Publish, ControlAgrees, TypeOK, LoopAlive
      <3>2. fate[current] = "held"
        BY <1>1, <3>1 DEF HeldIsInFlight, InFlight
      <3>3. ~completed
        BY <1>1, <3>1 DEF PhaseAgrees
      <3>4. CASE current = ShutdownEvent
        BY <1>1, <2>1, <3>1, <3>2, <3>3, <3>4 DEF ShutdownFate
      <3>5. CASE current # ShutdownEvent
        BY <1>1, <2>1, <3>1, <3>5 DEF ShutdownFate
      <3> QED
        BY <3>4, <3>5
    <2> QED
      BY <2>1, <2>2, <2>3
  <1>13. CASE OtherDispatch \/ UNCHANGED runtimeVars
    <2>1. fate'[ShutdownEvent] = fate[ShutdownEvent] /\ UNCHANGED <<phase, completed>>
      BY <1>2, <1>13 DEF OtherDispatch, runtimeVars, dispatcherVars, vars, lifecycleVars
    <2> QED
      BY <1>1, <2>1 DEF ShutdownFate
  <1> QED
    BY <1>3, <1>4, <1>5, <1>6, <1>7, <1>8, <1>9, <1>10, <1>11, <1>12, <1>13
       DEF RuntimeNext, LifecycleProceeds

-----------------------------------------------------------------------------
(***************************************************************************)
(* The invariant, and what follows from it.                                 *)
(***************************************************************************)
LEMMA RuntimeInvInit == RuntimeInit => RuntimeInv
  <1> SUFFICES ASSUME RuntimeInit PROVE RuntimeInv
    OBVIOUS
  <1>1. AccountInv
    BY AccountInit DEF RuntimeInit
  <1>2. /\ StartSteps \in Nat \ {0} /\ StopSteps \in Nat \ {0} /\ MaxStartups \in Nat
        /\ ShutdownEvent \in Events
    BY LifecycleAssumption DEF Events
  <1>3. LifecycleTypeOK
    <2>1. live \in [1..StartSteps -> 0..2 * MaxStartups]
      BY <1>2 DEF RuntimeInit
    <2>2. step \in 0..StartSteps + StopSteps /\ startups \in 0..MaxStartups
      BY <1>2 DEF RuntimeInit
    <2>3. /\ failFast \in BOOLEAN /\ up \in BOOLEAN /\ shuttingDown \in BOOLEAN
          /\ completed \in BOOLEAN /\ brokenOff \in BOOLEAN /\ phase \in Phases
      BY DEF RuntimeInit, Phases
    <2> QED
      BY <1>1, <2>1, <2>2, <2>3 DEF LifecycleTypeOK, AccountInv, BoundsInv
  <1>4. PhaseAgrees /\ StepAgrees
    BY DEF RuntimeInit, Init, PhaseAgrees, StepAgrees
  <1>5. LiveBounded
    BY <1>2 DEF RuntimeInit, LiveBounded, MayHaveRun
  <1>6. ShutdownFate
    BY <1>2 DEF RuntimeInit, Init, ShutdownFate
  <1> QED
    BY <1>1, <1>3, <1>4, <1>5, <1>6 DEF RuntimeInv

LEMMA RuntimeInvNext == RuntimeInv /\ [RuntimeNext]_runtimeVars => RuntimeInv'
  <1> SUFFICES ASSUME RuntimeInv, [RuntimeNext]_runtimeVars PROVE RuntimeInv'
    OBVIOUS
  <1>1. AccountInv' /\ PhaseAgrees' /\ ShutdownFate'
    BY AccountsKept, PhasesKept, ShutdownFateKept
  <1>2. /\ StepAgrees' /\ LiveBounded'
        /\ phase' \in Phases /\ up' \in BOOLEAN /\ shuttingDown' \in BOOLEAN
        /\ completed' \in BOOLEAN /\ failFast' \in BOOLEAN
        /\ step' \in 0..StartSteps + StopSteps /\ startups' \in 0..MaxStartups
        /\ live' \in [1..StartSteps -> Nat]
        /\ brokenOff' \in BOOLEAN
    BY StepsKept, BrokenOffKept
  <1>3. live' \in [1..StartSteps -> 0..2 * MaxStartups]
    <2>1. startups' \in Nat /\ startups' <= MaxStartups /\ MaxStartups \in Nat
      BY <1>2, LifecycleAssumption
    <2>2. \A s \in 1..StartSteps :
             MayHaveRun(s)' \in Int /\ MayHaveRun(s)' <= 2 * startups'
      BY <1>2, <2>1 DEF MayHaveRun
    <2>3. \A s \in 1..StartSteps : live'[s] \in 0..2 * MaxStartups
      BY <1>2, <2>1, <2>2 DEF LiveBounded
    <2> QED
      BY <1>2, <2>3
  <1>4. LifecycleTypeOK'
    BY <1>1, <1>2, <1>3 DEF LifecycleTypeOK, AccountInv, BoundsInv
  <1> QED
    BY <1>1, <1>2, <1>4 DEF RuntimeInv

(***************************************************************************)
(* Every reachable state satisfies the inductive invariant: the dispatcher  *)
(* keeps its accounts under the lifecycle, the position of startup and      *)
(* shutdown agrees with the flags of both, and so does the fate of the      *)
(* shutdown announcement.                                                   *)
(***************************************************************************)
THEOREM RuntimeInvariant == RuntimeSpec => []RuntimeInv
  BY RuntimeInvInit, RuntimeInvNext, PTL DEF RuntimeSpec

(***************************************************************************)
(* Type correctness.  In particular no startup handler runs more than twice *)
(* per startup() call: once by the startup, once by its rollback.           *)
(***************************************************************************)
THEOREM LifecycleTypeCorrect == RuntimeSpec => []LifecycleTypeOK
  <1>1. RuntimeInv => LifecycleTypeOK
    BY DEF RuntimeInv
  <1> QED
    BY <1>1, RuntimeInvariant, PTL

(***************************************************************************)
(* A runtime that is up has a started dispatcher with a running loop,       *)
(* through failed steps, rollbacks, cancellations and failed shutdowns.     *)
(***************************************************************************)
THEOREM UpIsServed == RuntimeSpec => []UpHasDispatcher
  <1>1. RuntimeInv => UpHasDispatcher
    <2> SUFFICES ASSUME RuntimeInv, up PROVE started /\ LoopAlive
      BY DEF UpHasDispatcher
    <2>1. started /\ ~stopping
      BY DEF RuntimeInv, LifecycleTypeOK, Phases, PhaseAgrees
    <2> QED
      BY <2>1 DEF RuntimeInv, AccountInv, BoundsInv, ControlAgrees, TypeOK, LoopStates, LoopAlive
  <1> QED
    BY <1>1, RuntimeInvariant, PTL

(***************************************************************************)
(* Outside fail-fast mode, a runtime at rest that failed to start, or was   *)
(* shut down, has left no dispatcher running.                               *)
(***************************************************************************)
THEOREM RestLeavesNothing == RuntimeSpec => []RestsStopped
  <1>1. RuntimeInv => RestsStopped
    BY DEF RuntimeInv, PhaseAgrees, RestsStopped
  <1> QED
    BY <1>1, RuntimeInvariant, PTL

(***************************************************************************)
(* A completed shutdown was announced on the bus, for any queue size and    *)
(* any number of steps, unless its caller was cancelled while it drained.   *)
(***************************************************************************)
THEOREM ShutdownIsAnnounced == RuntimeSpec => []ShutdownWasAnnounced
  <1>1. RuntimeInv => ShutdownWasAnnounced
    <2> SUFFICES ASSUME RuntimeInv, completed
                 PROVE  fate[ShutdownEvent] \in {"published", "abandoned"}
      BY DEF ShutdownWasAnnounced
    <2> QED
      BY DEF RuntimeInv, ShutdownFate, PhaseAgrees
  <1> QED
    BY <1>1, RuntimeInvariant, PTL

(***************************************************************************)
(* The lifecycle keeps the accounts of the dispatcher, although it starts,  *)
(* dispatches and requests the stop in one go.                              *)
(***************************************************************************)
THEOREM LifecycleAccounting == RuntimeSpec => []HeldIsInFlight
  <1>1. RuntimeInv => HeldIsInFlight
    BY DEF RuntimeInv, AccountInv
  <1> QED
    BY <1>1, RuntimeInvariant, PTL

(***************************************************************************)
(* A shutdown is for good: whatever becomes of it, no later or concurrent   *)
(* startup() brings the runtime up again.                                   *)
(***************************************************************************)
THEOREM ShutdownNeverUndone == RuntimeSpec => ShutdownIsFinal
  <1>1. RuntimeInv /\ [RuntimeNext]_runtimeVars
            => (shuttingDown => shuttingDown' /\ (up' => up))
    <2> SUFFICES ASSUME RuntimeInv, [RuntimeNext]_runtimeVars, shuttingDown
                 PROVE  shuttingDown' /\ (up' => up)
      OBVIOUS
    <2>1. /\ phase \notin {"starting", "rollingBack", "stoppingAfterRollback"}
          /\ up \in BOOLEAN /\ shuttingDown \in BOOLEAN
      BY DEF RuntimeInv, LifecycleTypeOK, PhaseAgrees
    <2>2. ~StartupCall /\ ~StartupComplete /\ ~ShutdownCall
      BY <2>1 DEF StartupCall, StartupComplete, ShutdownCall
    <2>3. shuttingDown' = shuttingDown /\ up' \in {up, FALSE}
      <3>1. CASE \E ok \in BOOLEAN : StartStep(ok) \/ RollbackStep(ok) \/ StopStep(ok)
        BY <3>1 DEF StartStep, RollbackStep, StopStep
      <3>2. CASE StartStepRaises \/ StartupRejected \/ StopStepRaises \/ StepCancelled \/ RollbackStop
        BY <3>2 DEF StartStepRaises, StartupRejected, StopStepRaises, StepCancelled, RollbackStop
      <3>3. CASE AnnounceShutdown
        BY <3>3 DEF AnnounceShutdown
      <3>4. CASE StopEnds \/ StopInterrupted
        BY <3>4 DEF StopEnds, StopInterrupted, RollbackComplete, ShutdownComplete
      <3>5. CASE DispatcherRuns \/ OtherDispatch \/ UNCHANGED runtimeVars
        BY <3>5 DEF DispatcherRuns, OtherDispatch, runtimeVars, lifecycleVars
      <3> QED
        BY <2>2, <3>1, <3>2, <3>3, <3>4, <3>5 DEF RuntimeNext, LifecycleProceeds
    <2>4. shuttingDown'
      BY <2>3
    <2>5. up' => up
      <3>1. CASE up' = up
        BY <3>1
      <3>2. CASE up' = FALSE
        BY <3>2
      <3> QED
        BY <2>3, <3>1, <3>2
    <2> QED
      BY <2>4, <2>5
  <1> QED
    BY <1>1, RuntimeInvariant, PTL DEF RuntimeSpec, ShutdownIsFinal

-----------------------------------------------------------------------------
(***************************************************************************)
(* The order of the two announcements.  Wherever both are, the started      *)
(* event is nearer the bus, and when the shutdown event has left the queue  *)
(* the started event has left it before.                                    *)
(***************************************************************************)
StartedFirst(s) ==
    \A i, j \in 1..Len(s) : (s[i] = ShutdownEvent /\ s[j] = StartedEvent) => j < i

StartLeads ==
    /\ StartedFirst(queue)
    /\ StartedFirst(published)
    /\ current = ShutdownEvent \/ ShutdownEvent \in Elements(published)
          => StartedEvent \notin Elements(queue)
    /\ ShutdownEvent \in Elements(published) => current # StartedEvent

LEMMA StartedFirstAppend ==
  ASSUME NEW s \in Seq(Events), NEW e \in Events, StartedFirst(s),
         e = StartedEvent => ShutdownEvent \notin Elements(s),
         StartedEvent # ShutdownEvent
  PROVE  StartedFirst(Append(s, e))
  <1>1. /\ Len(s) \in Nat /\ Len(Append(s, e)) = Len(s) + 1
        /\ Append(s, e)[Len(s) + 1] = e
        /\ \A i \in 1..Len(s) : Append(s, e)[i] = s[i]
    BY AppendProperties, LenProperties
  <1>2. ASSUME NEW i \in 1..Len(s) + 1, NEW j \in 1..Len(s) + 1,
               Append(s, e)[i] = ShutdownEvent, Append(s, e)[j] = StartedEvent
        PROVE  j < i
    <2>1. CASE j = Len(s) + 1
      <3>1. e = StartedEvent
        BY <1>1, <1>2, <2>1
      <3>2. i \in 1..Len(s) /\ s[i] = ShutdownEvent
        BY <1>1, <1>2, <3>1
      <3> QED
        BY <3>1, <3>2 DEF Elements
    <2>2. CASE j # Len(s) + 1 /\ i # Len(s) + 1
      <3>1. i \in 1..Len(s) /\ j \in 1..Len(s)
        BY <1>1, <2>2
      <3>2. s[i] = ShutdownEvent /\ s[j] = StartedEvent
        BY <1>1, <1>2, <3>1
      <3> QED
        BY <3>1, <3>2 DEF StartedFirst
    <2>3. CASE j # Len(s) + 1 /\ i = Len(s) + 1
      BY <1>1, <2>3
    <2> QED
      BY <2>1, <2>2, <2>3
  <1> QED
    BY <1>1, <1>2 DEF StartedFirst

LEMMA StartedFirstTail ==
  ASSUME NEW s \in Seq(Events), s # <<>>, StartedFirst(s), StartedEvent # ShutdownEvent
  PROVE  /\ StartedFirst(Tail(s))
         /\ Head(s) = ShutdownEvent => StartedEvent \notin Elements(Tail(s))
  <1>1. /\ Len(s) \in Nat /\ Len(s) > 0 /\ Len(Tail(s)) = Len(s) - 1 /\ Head(s) = s[1]
        /\ \A i \in 1..Len(s) - 1 : Tail(s)[i] = s[i + 1]
    BY HeadTailProperties, EmptySeq, LenProperties
  <1>2. \A i \in 1..Len(s) - 1 : i + 1 \in 1..Len(s)
    BY <1>1
  <1>3. StartedFirst(Tail(s))
    BY <1>1, <1>2 DEF StartedFirst
  <1>4. ASSUME Head(s) = ShutdownEvent, NEW i \in 1..Len(s) - 1, Tail(s)[i] = StartedEvent
        PROVE  FALSE
    <2>1. /\ 1 \in 1..Len(s) /\ i + 1 \in 1..Len(s)
          /\ s[1] = ShutdownEvent /\ s[i + 1] = StartedEvent
      BY <1>1, <1>2, <1>4
    <2>2. i + 1 < 1
      BY <2>1 DEF StartedFirst
    <2> QED
      BY <1>4, <2>2
  <1> QED
    BY <1>1, <1>3, <1>4 DEF Elements

LEMMA StartedFirstConcat ==
  ASSUME NEW s \in Seq(Events), NEW t \in Seq(Events), StartedFirst(s),
         StartedEvent \notin Elements(t)
  PROVE  StartedFirst(s \o t)
  <1>1. /\ Len(s) \in Nat /\ Len(t) \in Nat /\ Len(s \o t) = Len(s) + Len(t)
        /\ \A i \in 1..Len(s) + Len(t) :
              (s \o t)[i] = IF i <= Len(s) THEN s[i] ELSE t[i - Len(s)]
    BY ConcatProperties, LenProperties
  <1>2. ASSUME NEW i \in 1..Len(s) + Len(t), NEW j \in 1..Len(s) + Len(t),
               (s \o t)[i] = ShutdownEvent, (s \o t)[j] = StartedEvent
        PROVE  j < i
    <2>1. j <= Len(s) /\ s[j] = StartedEvent
      <3>1. ~(j <= Len(s)) => j - Len(s) \in 1..Len(t) /\ t[j - Len(s)] = StartedEvent
        BY <1>1, <1>2
      <3> QED
        BY <1>1, <1>2, <3>1 DEF Elements
    <2>2. CASE i <= Len(s)
      <3>1. i \in 1..Len(s) /\ j \in 1..Len(s) /\ s[i] = ShutdownEvent
        BY <1>1, <1>2, <2>1, <2>2
      <3> QED
        BY <2>1, <3>1 DEF StartedFirst
    <2>3. CASE ~(i <= Len(s))
      BY <1>1, <2>1, <2>3
    <2> QED
      BY <2>2, <2>3
  <1> QED
    BY <1>1, <1>2 DEF StartedFirst

(***************************************************************************)
(* A dispatch that leaves the shutdown event behind whatever is started:    *)
(* of another event, of the shutdown event itself, or of the started event  *)
(* while the shutdown event is nowhere on its way.                          *)
(***************************************************************************)
LEMMA LeadsPut ==
  ASSUME StartLeads, TypeOK, NEW e \in Events, StartedEvent # ShutdownEvent,
         queue' \in {queue, Append(queue, e)}, UNCHANGED <<current, published>>,
         e = StartedEvent => /\ ShutdownEvent \notin Elements(queue)
                             /\ ShutdownEvent \notin Elements(published)
                             /\ current # ShutdownEvent
  PROVE  StartLeads'
  <1>1. queue \in Seq(Events)
    BY DEF TypeOK
  <1>2. CASE queue' = queue
    BY <1>2 DEF StartLeads, StartedFirst, Elements
  <1>3. CASE queue' = Append(queue, e)
    <2>1. StartedFirst(queue')
      BY <1>1, <1>3, StartedFirstAppend DEF StartLeads
    <2>2. Elements(queue') = Elements(queue) \cup {e}
      BY <1>1, <1>3, ElementsOfAppend
    <2>3. UNCHANGED Elements(published) /\ StartedFirst(published')
      BY DEF StartLeads
    <2> QED
      BY <2>1, <2>2, <2>3 DEF StartLeads
  <1> QED
    BY <1>2, <1>3

LEMMA NotYetSent ==
  ASSUME RuntimeInv, fate[ShutdownEvent] = "new", LoopAlive
  PROVE  /\ ShutdownEvent \notin Elements(queue)
         /\ ShutdownEvent \notin Elements(published)
         /\ current # ShutdownEvent
  <1>1. ShutdownEvent \in Events /\ ShutdownEvent # NoEvent
    BY LifecycleAssumption, EventsAssumption DEF Events
  <1>2. ShutdownEvent \notin InFlight
    BY <1>1 DEF RuntimeInv, AccountInv, HeldIsInFlight
  <1>3. ShutdownEvent \notin Elements(published)
    BY DEF RuntimeInv, AccountInv, PublishedSaysSo, Elements
  <1> QED
    BY <1>1, <1>2, <1>3 DEF InFlight

(***************************************************************************)
(* The loop's own steps.                                                    *)
(***************************************************************************)
LEMMA LeadsLoop ==
  ASSUME RuntimeInv, StartLeads, Loop
  PROVE  StartLeads'
  <1>1. /\ BoundsInv /\ TypeOK /\ StartedEvent \in Ordinary /\ ShutdownEvent \in Events
        /\ StartedEvent # ShutdownEvent /\ StartedEvent # NoEvent /\ ShutdownEvent # NoEvent
        /\ Ordinary \cap Critical = {}
        /\ queue \in Seq(Events) /\ published \in Seq(Events) /\ overflow \in Seq(Critical)
    BY LifecycleAssumption, EventsAssumption
       DEF RuntimeInv, AccountInv, BoundsInv, TypeOK, Events
  <1>2. CASE Fetch
    <2>1. /\ queue # <<>> /\ queue' = Tail(queue) /\ current' = Head(queue)
          /\ published' = published
      BY <1>2 DEF Fetch
    <2>2. /\ Elements(queue) = {Head(queue)} \cup Elements(queue')
          /\ StartedFirst(queue')
          /\ Head(queue) = ShutdownEvent => StartedEvent \notin Elements(queue')
      BY <1>1, <2>1, ElementsOfTail, StartedFirstTail DEF StartLeads
    <2>3. UNCHANGED Elements(published) /\ StartedFirst(published')
      BY <2>1 DEF StartLeads
    <2> QED
      BY <2>1, <2>2, <2>3 DEF StartLeads
  <1>3. CASE Publish
    <2> DEFINE moved == SubSeq(overflow, 1, Room)
    <2>1. /\ published' = Append(published, current) /\ current' = NoEvent
          /\ DrainOverflow /\ queue' = queue \o moved
      BY <1>3 DEF Publish, DrainOverflow
    <2>2. current \in Events /\ Len(queue) <= MaxSize
      BY <1>1, <1>3 DEF BoundsInv, ControlAgrees, TypeOK, OverflowOnlyBehindFullQueue, Publish
    <2>3. moved \in Seq(Critical)
      <3>1. Room \in 0..Len(overflow)
        BY <1>1, <2>1, <2>2, DrainMoves
      <3> QED
        BY <1>1, <3>1, CutAndJoin
    <2>4. moved \in Seq(Events) /\ StartedEvent \notin Elements(moved)
      <3>1. \A i \in 1..Len(moved) : moved[i] \in Critical
        BY <2>3, ElementOfSeq
      <3>2. StartedEvent \notin Elements(moved)
        BY <1>1, <3>1 DEF Elements
      <3> QED
        BY <2>3, <3>2, SeqMonotonic DEF Events
    <2> HIDE DEF moved
    <2>5. StartedFirst(queue') /\ Elements(queue') = Elements(queue) \cup Elements(moved)
      BY <1>1, <2>1, <2>4, StartedFirstConcat, ElementsOfConcat DEF StartLeads
    <2>6. StartedFirst(published') /\ Elements(published') = Elements(published) \cup {current}
      BY <1>1, <2>1, <2>2, StartedFirstAppend, ElementsOfAppend DEF StartLeads
    <2> QED
      BY <1>1, <2>1, <2>4, <2>5, <2>6 DEF StartLeads
  <1>4. CASE LoopExit
    BY <1>4 DEF LoopExit, StartLeads, StartedFirst, Elements
  <1> QED
    BY <1>2, <1>3, <1>4 DEF Loop

LEMMA LeadsNext ==
  ASSUME RuntimeInv, StartLeads, [RuntimeNext]_runtimeVars
  PROVE  StartLeads'
  <1>1. /\ BoundsInv /\ TypeOK /\ PhaseAgrees /\ ShutdownFate
        /\ StartedEvent \in Events /\ ShutdownEvent \in Events
        /\ StartedEvent # ShutdownEvent /\ ShutdownEvent # NoEvent /\ StartedEvent # NoEvent
    BY LifecycleAssumption, EventsAssumption DEF RuntimeInv, AccountInv, BoundsInv, Events
  <1>2. started => LoopAlive \/ loop = "done"
    BY <1>1 DEF BoundsInv, TypeOK, ControlAgrees, LoopStates, LoopAlive
  <1>3. ASSUME UNCHANGED <<queue, published>>, current' \in {current, NoEvent}
        PROVE  StartLeads'
    BY <1>1, <1>3 DEF StartLeads, StartedFirst, Elements
  <1>4. ASSUME NEW e \in Events, Dispatch(e)
        PROVE  queue' \in {queue, Append(queue, e)} /\ UNCHANGED <<current, published>>
    BY <1>4 DEF Dispatch, Offer, Ignore, Refuse, Drop, Enqueue, Preserve
  <1>5. CASE StartupCall
    <2>1. CASE started
      BY <1>3, <1>5, <2>1 DEF StartupCall, EnsureDispatcher, dispatcherVars, vars
    <2>2. CASE ~started
      <3>1. queue' = <<>> /\ UNCHANGED <<current, published>>
        BY <1>5, <2>2 DEF StartupCall, EnsureDispatcher, Start
      <3>2. Elements(queue') = {} /\ StartedFirst(queue')
        BY <3>1, ElementsOfEmpty DEF StartedFirst
      <3>3. StartedFirst(published') /\ UNCHANGED Elements(published)
        BY <3>1 DEF StartLeads
      <3> QED
        BY <3>1, <3>2, <3>3 DEF StartLeads
    <2> QED
      BY <2>1, <2>2
  <1>6. CASE StartupComplete
    <2>1. started /\ ~stopping /\ fate[ShutdownEvent] = "new"
      BY <1>1, <1>6 DEF StartupComplete, PhaseAgrees, ShutdownFate
    <2>2. LoopAlive
      BY <1>1, <1>2, <2>1 DEF BoundsInv, ControlAgrees
    <2> QED
      BY <1>1, <1>4, <1>6, <2>1, <2>2, NotYetSent, LeadsPut DEF StartupComplete
  <1>7. CASE AnnounceShutdown
    <2>1. UNCHANGED <<current, published>> /\ fate[ShutdownEvent] = "new"
      BY <1>1, <1>7 DEF AnnounceShutdown, PhaseAgrees, ShutdownFate
    <2>2. CASE started
      <3>1. queue' \in {queue, Append(queue, ShutdownEvent)}
        BY <1>7, <2>2 DEF AnnounceShutdown
      <3> QED
        BY <1>1, <2>1, <3>1, LeadsPut
    <2>3. CASE ~started
      <3>1. queue' \in {<<>>, <<ShutdownEvent>>} /\ current = NoEvent
        <4>1. Append(<<>>, ShutdownEvent) = <<ShutdownEvent>>
          BY <1>1
        <4> QED
          BY <1>1, <1>7, <2>3, <4>1 DEF AnnounceShutdown, BoundsInv, StoppedIsClean
      <3>2. Elements(queue') \subseteq {ShutdownEvent} /\ StartedFirst(queue')
        <4>1. Elements(<<ShutdownEvent>>) = {ShutdownEvent} /\ Elements(<<>>) = {}
          BY DEF Elements
        <4> QED
          BY <1>1, <3>1, <4>1 DEF StartedFirst, Elements
      <3>3. StartedFirst(published') /\ UNCHANGED Elements(published)
        BY <2>1 DEF StartLeads
      <3> QED
        BY <1>1, <2>1, <3>1, <3>2, <3>3 DEF StartLeads
    <2> QED
      BY <2>2, <2>3
  <1>8. CASE DispatcherRuns
    BY <1>8, LeadsLoop DEF DispatcherRuns
  <1>9. CASE OtherDispatch
    BY <1>1, <1>4, <1>9, LeadsPut DEF OtherDispatch
  <1>10. CASE RollbackStop
    BY <1>3, <1>10 DEF RollbackStop, StopRequest
  <1>11. CASE StopEnds \/ StopInterrupted
    BY <1>3, <1>11 DEF StopEnds, StopInterrupted, StopReturn, StopCancelled, Stopped
  <1>12. CASE \/ \E ok \in BOOLEAN : StartStep(ok) \/ RollbackStep(ok) \/ StopStep(ok)
              \/ StartStepRaises \/ StartupRejected \/ StopStepRaises \/ StepCancelled \/ ShutdownCall
              \/ UNCHANGED runtimeVars
    BY <1>3, <1>12
       DEF StartStep, RollbackStep, StopStep, StartStepRaises, StartupRejected, StopStepRaises,
           StepCancelled, ShutdownCall, runtimeVars, dispatcherVars, vars
  <1> QED
    BY <1>5, <1>6, <1>7, <1>8, <1>9, <1>10, <1>11, <1>12 DEF RuntimeNext, LifecycleProceeds

(***************************************************************************)
(* Subscribers never hear of a shutdown before the start it ends, for any   *)
(* queue size, overflow and number of steps.                                *)
(***************************************************************************)
THEOREM StartIsHeardFirst == RuntimeSpec => []StartBeforeShutdown
  <1>1. RuntimeInit => StartLeads
    <2> SUFFICES ASSUME RuntimeInit PROVE StartLeads
      OBVIOUS
    <2>1. queue = <<>> /\ published = <<>> /\ Elements(<<>>) = {}
      BY ElementsOfEmpty DEF RuntimeInit, Init
    <2> QED
      BY <2>1 DEF StartLeads, StartedFirst
  <1>2. StartLeads => StartBeforeShutdown
    BY DEF StartLeads, StartedFirst, StartBeforeShutdown
  <1>3. RuntimeInv /\ StartLeads /\ [RuntimeNext]_runtimeVars => StartLeads'
    BY LeadsNext
  <1> QED
    BY <1>1, <1>2, <1>3, RuntimeInvariant, PTL DEF RuntimeSpec

-----------------------------------------------------------------------------
(***************************************************************************)
(* The announcement is a step of the delivery service: it takes the         *)
(* shutdown event, opening for it when the dispatcher was not running.      *)
(***************************************************************************)
LEMMA AnnounceDelivers ==
  ASSUME RuntimeInv, AnnounceShutdown, InFlight = HeldEvents, InFlight' = HeldEvents'
  PROVE  [Service!Next]_(Service!vars)
  <1>1. /\ BoundsInv /\ TypeOK /\ PhaseAgrees /\ ShutdownEvent \in Events
        /\ fate \in [Events -> Fates] /\ fate[ShutdownEvent] = "new"
        /\ fate' = [fate EXCEPT ![ShutdownEvent] = "held"]
    BY LifecycleAssumption
       DEF RuntimeInv, AccountInv, BoundsInv, TypeOK, ShutdownFate, PhaseAgrees,
           AnnounceShutdown, Events
  <1>2. /\ HeldEvents' = HeldEvents \cup {ShutdownEvent} /\ Delivered' = Delivered
        /\ ShutdownEvent \notin HeldEvents \cup Delivered
    BY <1>1 DEF HeldEvents, Delivered
  <1>3. CASE started
    <2>1. LoopAlive /\ LoopAlive'
      BY <1>1, <1>3
         DEF AnnounceShutdown, PhaseAgrees, BoundsInv, ControlAgrees, TypeOK, LoopStates,
             LoopAlive
    <2>2. Service!Take(ShutdownEvent)
      BY <1>2, <2>1 DEF Service!Take
    <2> QED
      BY <1>1, <2>2 DEF Service!Next
  <1>4. CASE ~started
    <2>1. ~LoopAlive /\ LoopAlive'
      BY <1>1, <1>4 DEF AnnounceShutdown, BoundsInv, StoppedIsClean, LoopAlive
    <2>2. Service!OpenFor(ShutdownEvent)
      BY <1>2, <2>1 DEF Service!OpenFor
    <2> QED
      BY <1>1, <2>2 DEF Service!Next
  <1> QED
    BY <1>3, <1>4

(***************************************************************************)
(* The runtime under its lifecycle is a delivery service: through failed    *)
(* startups, rollbacks, restarts and shutdowns an event it took is          *)
(* delivered exactly once, and it closes owing nothing unless a stop is     *)
(* cancelled.                                                               *)
(***************************************************************************)
THEOREM LifecycleImplementsDelivery ==
  RuntimeSpec => Service!Init /\ [][Service!Next]_(Service!vars)
  <1>1. RuntimeInv => InFlight = HeldEvents
    BY InFlightIsHeld DEF RuntimeInv
  <1>2. RuntimeInit => Service!Init
    BY ServiceInit DEF RuntimeInit
  <1>3. ASSUME RuntimeInv, RuntimeInv', [RuntimeNext]_runtimeVars,
               InFlight = HeldEvents, InFlight' = HeldEvents'
        PROVE  [Service!Next]_(Service!vars)
    <2>1. CASE AnnounceShutdown
      BY <1>3, <2>1, AnnounceDelivers
    <2>2. CASE ~AnnounceShutdown
      BY <1>3, <2>2, DispatcherSteps, ServiceNext DEF RuntimeInv
    <2> QED
      BY <2>1, <2>2
  <1>4. /\ RuntimeInv /\ RuntimeInv' /\ [RuntimeNext]_runtimeVars
        /\ InFlight = HeldEvents /\ (InFlight = HeldEvents)'
        => [Service!Next]_(Service!vars)
    BY <1>3
  <1>5. []RuntimeInv => [](InFlight = HeldEvents)
    BY <1>1, PTL
  <1> QED
    BY <1>2, <1>4, <1>5, RuntimeInvariant, PTL DEF RuntimeSpec

(***************************************************************************)
(* And every event reaches the bus at most once.                            *)
(***************************************************************************)
THEOREM LifecycleDeliversOnce == RuntimeSpec => []PublishedOnce
  <1>1. RuntimeInv => PublishedOnce
    BY DEF RuntimeInv, AccountInv
  <1> QED
    BY <1>1, RuntimeInvariant, PTL
=============================================================================
