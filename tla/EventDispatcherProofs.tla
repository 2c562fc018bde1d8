------------------------ MODULE EventDispatcherProofs ------------------------
(***************************************************************************)
(* Proofs about the event dispatcher, for every set of events, every queue  *)
(* size and whether or not stop() may be cancelled.                         *)
(***************************************************************************)
EXTENDS EventDispatcher, SequenceTheorems, TLAPS

-----------------------------------------------------------------------------
(***************************************************************************)
(* What the operations on the queue do to the set of its elements.          *)
(***************************************************************************)
LEMMA ElementsOfEmpty == Elements(<<>>) = {}
  BY DEF Elements

LEMMA ElementsOfAppend ==
  ASSUME NEW S, NEW s \in Seq(S), NEW e \in S
  PROVE  Elements(Append(s, e)) = Elements(s) \cup {e}
  <1>1. /\ Len(Append(s, e)) = Len(s) + 1
        /\ \A i \in 1..Len(s) : Append(s, e)[i] = s[i]
        /\ Append(s, e)[Len(s) + 1] = e
    BY AppendProperties
  <1>2. Len(s) \in Nat
    BY LenProperties
  <1>3. 1..Len(s) + 1 = 1..Len(s) \cup {Len(s) + 1}
    BY <1>2
  <1> QED
    BY <1>1, <1>2, <1>3 DEF Elements

LEMMA ElementsOfConcat ==
  ASSUME NEW S, NEW s \in Seq(S), NEW t \in Seq(S)
  PROVE  Elements(s \o t) = Elements(s) \cup Elements(t)
  <1>1. /\ Len(s \o t) = Len(s) + Len(t)
        /\ \A i \in 1..Len(s) + Len(t) :
              (s \o t)[i] = IF i <= Len(s) THEN s[i] ELSE t[i - Len(s)]
    BY ConcatProperties
  <1>2. Len(s) \in Nat /\ Len(t) \in Nat
    BY LenProperties
  <1>3. ASSUME NEW x \in Elements(s \o t)
        PROVE  x \in Elements(s) \cup Elements(t)
    <2>1. PICK i \in 1..Len(s) + Len(t) : x = (s \o t)[i]
      BY <1>1 DEF Elements
    <2>2. CASE i <= Len(s)
      BY <1>1, <1>2, <2>1, <2>2 DEF Elements
    <2>3. CASE i > Len(s)
      <3>1. i - Len(s) \in 1..Len(t) /\ x = t[i - Len(s)]
        BY <1>1, <1>2, <2>1, <2>3
      <3> QED
        BY <3>1 DEF Elements
    <2> QED
      BY <1>2, <2>2, <2>3
  <1>4. ASSUME NEW x \in Elements(s)
        PROVE  x \in Elements(s \o t)
    <2>1. PICK i \in 1..Len(s) : x = s[i]
      BY DEF Elements
    <2>2. i \in 1..Len(s) + Len(t) /\ x = (s \o t)[i]
      BY <1>1, <1>2, <2>1
    <2> QED
      BY <1>1, <2>2 DEF Elements
  <1>5. ASSUME NEW x \in Elements(t)
        PROVE  x \in Elements(s \o t)
    <2>1. PICK i \in 1..Len(t) : x = t[i]
      BY DEF Elements
    <2>2. Len(s) + i \in 1..Len(s) + Len(t) /\ x = (s \o t)[Len(s) + i]
      BY <1>1, <1>2, <2>1
    <2> QED
      BY <1>1, <2>2 DEF Elements
  <1> QED
    BY <1>3, <1>4, <1>5

LEMMA ElementsOfTail ==
  ASSUME NEW S, NEW s \in Seq(S), s # <<>>
  PROVE  Elements(s) = {Head(s)} \cup Elements(Tail(s))
  <1>1. /\ Tail(s) \in Seq(S)
        /\ Len(Tail(s)) = Len(s) - 1
        /\ \A i \in 1..Len(Tail(s)) : Tail(s)[i] = s[i + 1]
    BY HeadTailProperties
  <1>2. Len(s) \in Nat \ {0}
    BY EmptySeq
  <1>3. Head(s) = s[1]
    BY <1>2
  <1>4. ASSUME NEW x \in Elements(s)
        PROVE  x = Head(s) \/ x \in Elements(Tail(s))
    <2>1. PICK i \in 1..Len(s) : x = s[i]
      BY DEF Elements
    <2>2. CASE i = 1
      BY <1>3, <2>1, <2>2
    <2>3. CASE i # 1
      <3>1. i - 1 \in 1..Len(Tail(s)) /\ x = Tail(s)[i - 1]
        BY <1>1, <1>2, <2>1, <2>3
      <3> QED
        BY <3>1 DEF Elements
    <2> QED
      BY <2>2, <2>3
  <1>5. Head(s) \in Elements(s)
    BY <1>2, <1>3 DEF Elements
  <1>6. ASSUME NEW x \in Elements(Tail(s))
        PROVE  x \in Elements(s)
    <2>1. PICK i \in 1..Len(Tail(s)) : x = Tail(s)[i]
      BY DEF Elements
    <2>2. i + 1 \in 1..Len(s) /\ x = s[i + 1]
      BY <1>1, <1>2, <2>1
    <2> QED
      BY <2>2 DEF Elements
  <1> QED
    BY <1>4, <1>5, <1>6

(***************************************************************************)
(* Cutting a sequence in two and joining the parts gives it back.           *)
(***************************************************************************)
LEMMA CutAndJoin ==
  ASSUME NEW S, NEW s \in Seq(S), NEW k \in 0..Len(s)
  PROVE  /\ SubSeq(s, 1, k) \in Seq(S)
         /\ SubSeq(s, k + 1, Len(s)) \in Seq(S)
         /\ Len(SubSeq(s, 1, k)) = k
         /\ Len(SubSeq(s, k + 1, Len(s))) = Len(s) - k
         /\ SubSeq(s, 1, k) \o SubSeq(s, k + 1, Len(s)) = s
  <1>1. Len(s) \in Nat /\ \A i \in 1..Len(s) : s[i] \in S
    BY LenProperties, ElementOfSeq
  <1>2. SubSeq(s, 1, k) \in Seq(S) /\ Len(SubSeq(s, 1, k)) = k
    BY <1>1, SubSeqProperties
  <1>3. /\ SubSeq(s, k + 1, Len(s)) \in Seq(S)
        /\ Len(SubSeq(s, k + 1, Len(s))) = Len(s) - k
    BY <1>1, SubSeqProperties
  <1>4. SubSeq(s, 1, k) \o SubSeq(s, k + 1, Len(s)) = SubSeq(s, 1, Len(s))
    <2>1. 1 \in 1..Len(s) + 1 /\ k \in 1 - 1..Len(s) /\ Len(s) \in k..Len(s)
      BY <1>1
    <2> QED
      BY <2>1, ConcatAdjacentSubSeq, Zenon
  <1>5. SubSeq(s, 1, Len(s)) = s
    BY SubSeqFull
  <1> QED
    BY <1>2, <1>3, <1>4, <1>5

-----------------------------------------------------------------------------
(***************************************************************************)
(* A sequence without repetition, and what keeps it one.                    *)
(***************************************************************************)
Distinct(s) == \A i, j \in 1..Len(s) : s[i] = s[j] => i = j

LEMMA DistinctInsert ==
  ASSUME NEW S, NEW s \in Seq(S), NEW t \in Seq(S), NEW e \in S,
         Distinct(s \o t), e \notin Elements(s \o t)
  PROVE  Distinct(Append(s, e) \o t)
  <1> DEFINE u == Append(s, e) \o t
             old(i) == IF i <= Len(s) THEN i ELSE i - 1
  <1>1. /\ Append(s, e) \in Seq(S)
        /\ Len(Append(s, e)) = Len(s) + 1
        /\ \A i \in 1..Len(s) : Append(s, e)[i] = s[i]
        /\ Append(s, e)[Len(s) + 1] = e
    BY AppendProperties
  <1>2. /\ Len(u) = Len(s) + 1 + Len(t)
        /\ \A i \in 1..Len(s) + 1 + Len(t) :
              u[i] = IF i <= Len(s) + 1 THEN Append(s, e)[i] ELSE t[i - (Len(s) + 1)]
    BY <1>1, ConcatProperties
  <1>3. /\ Len(s \o t) = Len(s) + Len(t)
        /\ \A i \in 1..Len(s) + Len(t) :
              (s \o t)[i] = IF i <= Len(s) THEN s[i] ELSE t[i - Len(s)]
    BY ConcatProperties
  <1>4. Len(s) \in Nat /\ Len(t) \in Nat
    BY LenProperties
  <1>5. u[Len(s) + 1] = e
    BY <1>1, <1>2, <1>4
  <1>6. ASSUME NEW i \in 1..Len(u), i # Len(s) + 1
        PROVE  old(i) \in 1..Len(s \o t) /\ u[i] = (s \o t)[old(i)]
    <2>1. CASE i <= Len(s)
      <3>1. u[i] = s[i]
        BY <1>1, <1>2, <1>4, <2>1
      <3> QED
        BY <1>2, <1>3, <1>4, <2>1, <3>1
    <2>2. CASE i > Len(s) + 1
      <3>1. u[i] = t[i - (Len(s) + 1)]
        BY <1>2, <1>4, <2>2
      <3>2. i - 1 \in 1..Len(s) + Len(t) /\ (i - 1) - Len(s) = i - (Len(s) + 1)
        BY <1>2, <1>4, <2>2
      <3>3. (s \o t)[i - 1] = t[i - (Len(s) + 1)]
        BY <1>3, <1>4, <2>2, <3>2
      <3> QED
        BY <1>3, <1>4, <2>2, <3>1, <3>2, <3>3
    <2> QED
      BY <1>2, <1>4, <1>6, <2>1, <2>2
  <1>7. ASSUME NEW i \in 1..Len(u), i # Len(s) + 1
        PROVE  u[i] # e
    BY <1>6, <1>7 DEF Elements
  <1>8. ASSUME NEW i \in 1..Len(u), NEW j \in 1..Len(u), u[i] = u[j]
        PROVE  i = j
    <2>1. CASE i = Len(s) + 1 \/ j = Len(s) + 1
      BY <1>5, <1>7, <1>8, <2>1
    <2>2. CASE i # Len(s) + 1 /\ j # Len(s) + 1
      <3>1. old(i) = old(j)
        BY <1>6, <1>8, <2>2 DEF Distinct
      <3> QED
        BY <1>2, <1>4, <2>2, <3>1
    <2> QED
      BY <2>1, <2>2
  <1> QED
    BY <1>8 DEF Distinct

LEMMA DistinctTail ==
  ASSUME NEW S, NEW s \in Seq(S), NEW t \in Seq(S), s # <<>>, Distinct(s \o t)
  PROVE  /\ Distinct(Tail(s) \o t)
         /\ Head(s) \notin Elements(Tail(s) \o t)
  <1> DEFINE u == Tail(s) \o t
  <1>1. /\ Tail(s) \in Seq(S)
        /\ Len(Tail(s)) = Len(s) - 1
        /\ \A i \in 1..Len(Tail(s)) : Tail(s)[i] = s[i + 1]
    BY HeadTailProperties
  <1>2. Len(s) \in Nat \ {0} /\ Len(t) \in Nat /\ Head(s) = s[1]
    BY EmptySeq, LenProperties
  <1>3. /\ Len(u) = Len(s) - 1 + Len(t)
        /\ \A i \in 1..Len(s) - 1 + Len(t) :
              u[i] = IF i <= Len(s) - 1 THEN Tail(s)[i] ELSE t[i - (Len(s) - 1)]
    BY <1>1, ConcatProperties
  <1>4. /\ Len(s \o t) = Len(s) + Len(t)
        /\ \A i \in 1..Len(s) + Len(t) :
              (s \o t)[i] = IF i <= Len(s) THEN s[i] ELSE t[i - Len(s)]
    BY ConcatProperties
  <1>5. ASSUME NEW i \in 1..Len(u)
        PROVE  i + 1 \in 1..Len(s \o t) /\ u[i] = (s \o t)[i + 1]
    <2>1. i + 1 \in 1..Len(s) + Len(t)
      BY <1>2, <1>3
    <2>2. CASE i <= Len(s) - 1
      <3>1. u[i] = s[i + 1]
        BY <1>1, <1>2, <1>3, <2>2
      <3> QED
        BY <1>2, <1>4, <2>1, <2>2, <3>1
    <2>3. CASE i > Len(s) - 1
      <3>1. u[i] = t[i - (Len(s) - 1)] /\ i - (Len(s) - 1) = (i + 1) - Len(s)
        BY <1>2, <1>3, <2>3
      <3> QED
        BY <1>2, <1>4, <2>1, <2>3, <3>1
    <2> QED
      BY <1>2, <2>2, <2>3
  <1>6. Distinct(u)
    <2>1. ASSUME NEW i \in 1..Len(u), NEW j \in 1..Len(u), u[i] = u[j]
          PROVE  i = j
      <3>1. i + 1 = j + 1
        BY <1>5, <2>1 DEF Distinct
      <3> QED
        BY <1>2, <1>3, <3>1
    <2> QED
      BY <2>1 DEF Distinct
  <1>7. Head(s) \notin Elements(u)
    <2>1. 1 \in 1..Len(s \o t) /\ (s \o t)[1] = Head(s)
      BY <1>2, <1>4
    <2>2. ASSUME NEW i \in 1..Len(u), u[i] = Head(s)
          PROVE  FALSE
      <3>1. i + 1 = 1
        BY <1>5, <2>1, <2>2 DEF Distinct
      <3> QED
        BY <1>2, <1>3, <3>1
    <2> QED
      BY <2>2 DEF Elements
  <1> QED
    BY <1>6, <1>7

-----------------------------------------------------------------------------
(***************************************************************************)
(* The first inductive invariant: where the loop and stop() stand agrees    *)
(* with the flags, and the bound on the queue holds.                        *)
(***************************************************************************)
ControlAgrees ==
    /\ loop = "publishing" <=> current # NoEvent
    /\ started <=> loop # "none"
    /\ stopping => started
    /\ started => (stopRequested <=> stopping)
    /\ loop = "done" => stopping

BoundsInv ==
    /\ TypeOK
    /\ ControlAgrees
    /\ StoppedIsClean
    /\ OverflowOnlyBehindFullQueue

LEMMA BoundsInit == Init => BoundsInv
  <1> SUFFICES ASSUME Init PROVE BoundsInv
    OBVIOUS
  <1>1. TypeOK
    <2>1. <<>> \in Seq(Events) /\ <<>> \in Seq(Critical)
      BY EmptySeq
    <2>2. fate \in [Events -> Fates]
      BY DEF Init, Fates
    <2> QED
      BY <2>1, <2>2 DEF Init, TypeOK, LoopStates
  <1>2. ControlAgrees /\ StoppedIsClean /\ OverflowOnlyBehindFullQueue
    BY MaxSizeAssumption DEF Init, ControlAgrees, StoppedIsClean, OverflowOnlyBehindFullQueue
  <1> QED
    BY <1>1, <1>2 DEF BoundsInv

(***************************************************************************)
(* Offer() takes one of five ways; each keeps the invariant.                *)
(***************************************************************************)
LEMMA BoundsOffer ==
  ASSUME BoundsInv, NEW e \in Events, NEW admitted \in BOOLEAN, Offer(e, admitted)
  PROVE  BoundsInv'
  <1> USE DEF BoundsInv
  <1>0. /\ MaxSize \in Nat \ {0}
        /\ queue \in Seq(Events) /\ overflow \in Seq(Critical) /\ arrived \in Seq(Events)
        /\ Len(queue) \in Nat
        /\ fate \in [Events -> Fates]
    BY MaxSizeAssumption, LenProperties DEF TypeOK
  <1>1. UNCHANGED <<started, stopping, stopRequested, loop, current, published>>
    BY DEF Offer
  <1>2. fate' \in [Events -> Fates]
    BY <1>0 DEF Offer, Ignore, Refuse, Drop, Enqueue, Preserve, Hold, Fates
  <1>3. ControlAgrees'
    BY <1>1 DEF ControlAgrees
  <1>4. CASE UNCHANGED <<queue, overflow, arrived>>
    <2>1. TypeOK'
      BY <1>1, <1>2, <1>4 DEF TypeOK
    <2>2. StoppedIsClean' /\ OverflowOnlyBehindFullQueue'
      BY <1>1, <1>4 DEF StoppedIsClean, OverflowOnlyBehindFullQueue
    <2> QED
      BY <1>3, <2>1, <2>2
  <1>5. CASE Enqueue(e, admitted)
    <2>1. /\ queue' \in Seq(Events) /\ Len(queue') = Len(queue) + 1
          /\ arrived' \in Seq(Events)
          /\ overflow' = overflow /\ started /\ Len(queue) < MaxSize
      BY <1>0, <1>5, AppendProperties DEF Enqueue
    <2>2. TypeOK'
      BY <1>1, <1>2, <2>1 DEF TypeOK
    <2>3. StoppedIsClean'
      BY <1>1, <2>1 DEF StoppedIsClean
    <2>4. OverflowOnlyBehindFullQueue'
      BY <1>0, <1>1, <2>1 DEF OverflowOnlyBehindFullQueue
    <2> QED
      BY <1>3, <2>2, <2>3, <2>4
  <1>6. CASE Preserve(e)
    <2>1. /\ UNCHANGED <<queue, arrived>> /\ started /\ Len(queue) >= MaxSize
          /\ e \in Critical /\ overflow' = <<e>> \o overflow
      BY <1>6 DEF Preserve
    <2>2. <<e>> \in Seq(Critical)
      BY <2>1
    <2>3. overflow' \in Seq(Critical)
      BY <1>0, <2>1, <2>2, ConcatProperties
    <2>4. TypeOK'
      BY <1>1, <1>2, <2>1, <2>3 DEF TypeOK
    <2>5. StoppedIsClean'
      BY <1>1, <2>1 DEF StoppedIsClean
    <2>6. OverflowOnlyBehindFullQueue'
      BY <1>0, <1>1, <2>1 DEF OverflowOnlyBehindFullQueue
    <2> QED
      BY <1>3, <2>4, <2>5, <2>6
  <1> QED
    BY <1>4, <1>5, <1>6 DEF Offer, Ignore, Refuse, Drop

(***************************************************************************)
(* What the drain moves: as much of the deque as the queue has room for.    *)
(***************************************************************************)
LEMMA DrainMoves ==
  ASSUME TypeOK, Len(queue) <= MaxSize, DrainOverflow
  PROVE  /\ Room \in 0..Len(overflow)
         /\ queue' \in Seq(Events)
         /\ overflow' \in Seq(Critical)
         /\ Len(queue') = Len(queue) + Room
         /\ Len(overflow') = Len(overflow) - Room
         /\ queue' \o overflow' = queue \o overflow
  <1>1. /\ queue \in Seq(Events) /\ overflow \in Seq(Critical) /\ overflow \in Seq(Events)
        /\ Len(queue) \in Nat /\ Len(overflow) \in Nat /\ MaxSize \in Nat
    BY MaxSizeAssumption, LenProperties, SeqMonotonic DEF TypeOK, Events
  <1>2. Room \in 0..Len(overflow)
    BY <1>1 DEF Room
  <1> DEFINE first == SubSeq(overflow, 1, Room)
             rest  == SubSeq(overflow, Room + 1, Len(overflow))
  <1>3. /\ first \in Seq(Critical) /\ rest \in Seq(Critical)
        /\ Len(first) = Room /\ Len(rest) = Len(overflow) - Room
        /\ first \o rest = overflow
    BY <1>1, <1>2, CutAndJoin
  <1>4. first \in Seq(Events) /\ rest \in Seq(Events)
    BY <1>3, SeqMonotonic DEF Events
  <1>5. queue' = queue \o first /\ overflow' = rest
    BY DEF DrainOverflow
  <1>6. queue' \in Seq(Events) /\ Len(queue') = Len(queue) + Room
    BY <1>1, <1>3, <1>4, <1>5, ConcatProperties
  <1>7. (queue \o first) \o rest = queue \o (first \o rest)
    <2>1. \A s, u, v \in Seq(Events) : (s \o u) \o v = s \o (u \o v)
      BY ConcatAssociative
    <2> HIDE DEF first, rest
    <2> QED
      BY <1>1, <1>4, <2>1, Zenon
  <1> QED
    BY <1>2, <1>3, <1>5, <1>6, <1>7

LEMMA BoundsNext ==
  ASSUME BoundsInv, [Next]_vars
  PROVE  BoundsInv'
  <1> USE DEF BoundsInv
  <1>0. /\ MaxSize \in Nat \ {0}
        /\ queue \in Seq(Events) /\ overflow \in Seq(Critical)
        /\ Len(queue) \in Nat /\ Len(overflow) \in Nat
    BY MaxSizeAssumption, LenProperties DEF TypeOK
  <1>1. CASE Start
    <2>1. TypeOK'
      <3>1. <<>> \in Seq(Events)
        BY EmptySeq
      <3> QED
        BY <1>1, <3>1 DEF Start, TypeOK, LoopStates
    <2>2. ControlAgrees' /\ StoppedIsClean'
      BY <1>1 DEF Start, ControlAgrees, StoppedIsClean
    <2>3. OverflowOnlyBehindFullQueue'
      BY <1>0, <1>1 DEF Start, StoppedIsClean, OverflowOnlyBehindFullQueue
    <2> QED
      BY <2>1, <2>2, <2>3
  <1>2. CASE \E e \in Events : Dispatch(e)
    BY <1>2, BoundsOffer DEF Dispatch
  <1>3. CASE Fetch
    <2>1. /\ Head(queue) \in Events /\ Tail(queue) \in Seq(Events)
          /\ Len(Tail(queue)) = Len(queue) - 1
      BY <1>0, <1>3, HeadTailProperties DEF Fetch
    <2>2. TypeOK'
      BY <1>3, <2>1 DEF Fetch, TypeOK, LoopStates
    <2>3. ControlAgrees' /\ StoppedIsClean'
      BY <1>3, <2>1, EventsAssumption DEF Fetch, ControlAgrees, StoppedIsClean
    <2>4. OverflowOnlyBehindFullQueue'
      <3>1. /\ loop = "fetching" /\ loop' = "publishing" /\ overflow' = overflow
            /\ Len(queue') = Len(queue) - 1
        BY <1>3, <2>1 DEF Fetch
      <3>2. Len(queue) <= MaxSize /\ (overflow # <<>> => Len(queue) = MaxSize)
        BY <3>1 DEF OverflowOnlyBehindFullQueue
      <3> QED
        BY <1>0, <3>1, <3>2 DEF OverflowOnlyBehindFullQueue
    <2> QED
      BY <2>2, <2>3, <2>4
  <1>4. CASE Publish
    <2>1. /\ loop = "publishing" /\ loop' = "fetching" /\ current' = NoEvent
          /\ UNCHANGED <<started, stopping, stopRequested, arrived>>
          /\ published' = Append(published, current)
          /\ fate' = [fate EXCEPT ![current] = "published"]
          /\ DrainOverflow
      BY <1>4 DEF Publish
    <2>2. current \in Events
      BY <2>1 DEF TypeOK, ControlAgrees
    <2>3. /\ Room \in 0..Len(overflow)
          /\ queue' \in Seq(Events) /\ overflow' \in Seq(Critical)
          /\ Len(queue') = Len(queue) + Room
          /\ Len(overflow') = Len(overflow) - Room
      BY <2>1, DrainMoves DEF OverflowOnlyBehindFullQueue
    <2>4. published' \in Seq(Events)
      BY <2>1, <2>2, AppendProperties DEF TypeOK
    <2>5. fate' \in [Events -> Fates]
      BY <2>1 DEF TypeOK, Fates
    <2>6. TypeOK'
      BY <2>1, <2>3, <2>4, <2>5 DEF TypeOK, LoopStates
    <2>7. ControlAgrees'
      BY <2>1 DEF ControlAgrees
    <2>8. StoppedIsClean'
      BY <2>1 DEF ControlAgrees, StoppedIsClean
    <2>9. OverflowOnlyBehindFullQueue'
      <3>1. Len(queue') <= MaxSize
        BY <1>0, <2>3 DEF Room, OverflowOnlyBehindFullQueue
      <3>2. ASSUME overflow' # <<>>
            PROVE  Len(queue') = MaxSize
        <4>1. Len(overflow') > 0
          BY <2>3, <3>2, EmptySeq
        <4> QED
          BY <1>0, <2>3, <4>1 DEF Room, OverflowOnlyBehindFullQueue
      <3> QED
        BY <2>1, <3>1, <3>2 DEF OverflowOnlyBehindFullQueue
    <2> QED
      BY <2>6, <2>7, <2>8, <2>9
  <1>5. CASE LoopExit
    <2>1. ControlAgrees'
      BY <1>5 DEF LoopExit, ControlAgrees
    <2>2. TypeOK' /\ StoppedIsClean' /\ OverflowOnlyBehindFullQueue'
      BY <1>5 DEF LoopExit, ControlAgrees, TypeOK, LoopStates, StoppedIsClean,
                  OverflowOnlyBehindFullQueue
    <2> QED
      BY <2>1, <2>2
  <1>6. CASE StopRequest
    BY <1>6 DEF StopRequest, TypeOK, ControlAgrees, StoppedIsClean, OverflowOnlyBehindFullQueue
  <1>7. CASE StopReturn \/ StopCancelled
    <2>1. /\ Stopped
          /\ current' = NoEvent
          /\ fate' \in [Events -> Fates]
      BY <1>7 DEF StopReturn, StopCancelled, ControlAgrees, TypeOK, Fates
    <2>2. /\ UNCHANGED <<stopRequested, queue, arrived, published>>
          /\ overflow' = <<>> /\ started' = FALSE /\ stopping' = FALSE /\ loop' = "none"
      BY <2>1 DEF Stopped
    <2>3. TypeOK'
      <3>1. <<>> \in Seq(Critical)
        BY EmptySeq
      <3> QED
        BY <2>1, <2>2, <3>1 DEF TypeOK, LoopStates
    <2>4. ControlAgrees' /\ StoppedIsClean'
      BY <2>1, <2>2 DEF ControlAgrees, StoppedIsClean
    <2>5. OverflowOnlyBehindFullQueue'
      BY <2>2 DEF OverflowOnlyBehindFullQueue
    <2> QED
      BY <2>3, <2>4, <2>5
  <1>8. CASE UNCHANGED vars
    BY <1>8 DEF vars, TypeOK, ControlAgrees, StoppedIsClean, OverflowOnlyBehindFullQueue
  <1> QED
    BY <1>1, <1>2, <1>3, <1>4, <1>5, <1>6, <1>7, <1>8 DEF Next, Loop

(***************************************************************************)
(* The state variables always have their types: the deque holds critical    *)
(* events only.                                                             *)
(***************************************************************************)
THEOREM TypeCorrect == Spec => []TypeOK
  <1>1. BoundsInv => TypeOK
    BY DEF BoundsInv
  <1> QED
    BY <1>1, BoundsInit, BoundsNext, PTL DEF Spec

(***************************************************************************)
(* The queue never exceeds maxsize, and a critical event never waits in the *)
(* deque for a drain that is not coming.                                    *)
(***************************************************************************)
THEOREM QueueBounded == Spec => []OverflowOnlyBehindFullQueue
  <1>1. BoundsInv => OverflowOnlyBehindFullQueue
    BY DEF BoundsInv
  <1> QED
    BY <1>1, BoundsInit, BoundsNext, PTL DEF Spec

(***************************************************************************)
(* A dispatcher that is not started is at rest, cancelled stops included.   *)
(***************************************************************************)
THEOREM RestIsClean == Spec => []StoppedIsClean
  <1>1. BoundsInv => StoppedIsClean
    BY DEF BoundsInv
  <1> QED
    BY <1>1, BoundsInit, BoundsNext, PTL DEF Spec

-----------------------------------------------------------------------------
(***************************************************************************)
(* The second inductive invariant: the events that wait form one line, the  *)
(* queue followed by the deque, in which no event occurs twice; the event   *)
(* being published has left it; and what was published says so.             *)
(***************************************************************************)
Line == queue \o overflow

LineDistinct ==
    LoopAlive => Distinct(Line) /\ current \notin Elements(Line)

PublishedSaysSo ==
    \A i \in 1..Len(published) : fate[published[i]] = "published"

AccountInv ==
    /\ BoundsInv
    /\ LineDistinct
    /\ HeldIsInFlight
    /\ PublishedSaysSo
    /\ PublishedOnce

LEMMA InFlightIsLine ==
  ASSUME NEW q \in Seq(Events), NEW o \in Seq(Critical)
  PROVE  /\ q \o o \in Seq(Events)
         /\ Elements(q) \cup Elements(o) = Elements(q \o o)
         /\ NoEvent \notin Elements(q \o o)
  <1>1. o \in Seq(Events)
    BY SeqMonotonic DEF Events
  <1>2. q \o o \in Seq(Events) /\ Elements(q) \cup Elements(o) = Elements(q \o o)
    BY <1>1, ConcatProperties, ElementsOfConcat
  <1>3. \A i \in 1..Len(q \o o) : (q \o o)[i] \in Events
    BY <1>2, ElementOfSeq
  <1> QED
    BY <1>2, <1>3, EventsAssumption DEF Elements

(***************************************************************************)
(* Wherever dispatch() puts an event, it is one new event in the line.      *)
(***************************************************************************)
LEMMA LineGrows ==
  ASSUME TypeOK, NEW e \in Events, NEW admitted \in BOOLEAN,
         Enqueue(e, admitted) \/ Preserve(e)
  PROVE  /\ Line' = Append(queue, e) \o overflow
         /\ Elements(Line') = Elements(Line) \cup {e}
  <1>1. /\ queue \in Seq(Events) /\ overflow \in Seq(Critical) /\ overflow \in Seq(Events)
        /\ <<e>> \in Seq(Events)
    BY SeqMonotonic DEF TypeOK, Events
  <1>2. Append(queue, e) \in Seq(Events) /\ Append(queue, e) = queue \o <<e>>
    BY <1>1, AppendProperties, AppendIsConcat
  <1>3. (queue \o <<e>>) \o overflow = queue \o (<<e>> \o overflow)
    <2>1. \A s, u, v \in Seq(Events) : (s \o u) \o v = s \o (u \o v)
      BY ConcatAssociative
    <2> QED
      BY <1>1, <2>1, Zenon
  <1>4. Line' = Append(queue, e) \o overflow
    <2>1. CASE Enqueue(e, admitted)
      BY <2>1 DEF Enqueue, Line
    <2>2. CASE Preserve(e)
      <3>1. queue' = queue /\ overflow' = <<e>> \o overflow
        BY <2>2 DEF Preserve
      <3> QED
        BY <1>2, <1>3, <3>1, Zenon DEF Line
    <2> QED
      BY <2>1, <2>2
  <1>5. Elements(Append(queue, e) \o overflow) = Elements(queue) \cup {e} \cup Elements(overflow)
    <2>1. Elements(Append(queue, e)) = Elements(queue) \cup {e}
      BY <1>1, ElementsOfAppend
    <2>2. \A s, u \in Seq(Events) : Elements(s \o u) = Elements(s) \cup Elements(u)
      BY ElementsOfConcat
    <2>3. Elements(Append(queue, e) \o overflow) = Elements(Append(queue, e)) \cup Elements(overflow)
      BY <1>1, <1>2, <2>2, Zenon
    <2> QED
      BY <2>1, <2>3
  <1>6. Elements(Line) = Elements(queue) \cup Elements(overflow)
    BY <1>1, ElementsOfConcat DEF Line
  <1> QED
    BY <1>4, <1>5, <1>6

LEMMA AccountInit == Init => AccountInv
  <1> SUFFICES ASSUME Init PROVE AccountInv
    OBVIOUS
  <1>1. LineDistinct /\ HeldIsInFlight
    BY DEF Init, LineDistinct, HeldIsInFlight, InFlight, LoopAlive
  <1>2. PublishedSaysSo /\ PublishedOnce
    <2>1. 1..Len(published) = {}
      BY DEF Init
    <2> QED
      BY <2>1 DEF PublishedSaysSo, PublishedOnce
  <1> QED
    BY <1>1, <1>2, BoundsInit DEF AccountInv

(***************************************************************************)
(* What becomes of one new event keeps the accounts, whatever else happens  *)
(* to the flags in the same step.                                           *)
(***************************************************************************)
LEMMA AccountPut ==
  ASSUME AccountInv, BoundsInv', NEW e \in Events, NEW admitted \in BOOLEAN,
         fate[e] = "new",
         UNCHANGED <<loop, current, published>>,
         \/ Ignore(e) \/ Refuse(e, admitted) \/ Drop(e, admitted)
         \/ Enqueue(e, admitted) \/ Preserve(e)
  PROVE  AccountInv'
  <1>1. BoundsInv /\ BoundsInv'
    BY DEF AccountInv
  <1>2. /\ fate[e] = "new" /\ fate \in [Events -> Fates]
        /\ UNCHANGED <<loop, current, published>>
    BY <1>1 DEF BoundsInv, TypeOK
  <1>3. \A f \in Events \ {e} : fate'[f] = fate[f]
    BY <1>2 DEF Ignore, Refuse, Drop, Enqueue, Preserve, Hold
  <1>4. LoopAlive' = LoopAlive
    BY <1>2 DEF LoopAlive
  <1>5. e \notin InFlight
    BY <1>2 DEF AccountInv, HeldIsInFlight
  <1>6. PublishedSaysSo' /\ PublishedOnce'
    <2>1. \A i \in 1..Len(published) : published[i] \in Events
      BY <1>1, ElementOfSeq DEF BoundsInv, TypeOK
    <2>2. \A i \in 1..Len(published) : published[i] # e
      BY <1>2 DEF AccountInv, PublishedSaysSo
    <2> QED
      BY <1>2, <1>3, <2>1, <2>2 DEF AccountInv, PublishedSaysSo, PublishedOnce
  <1>7. CASE Ignore(e) \/ Refuse(e, admitted) \/ Drop(e, admitted)
    <2>1. UNCHANGED <<queue, overflow>> /\ fate'[e] # "held"
      BY <1>2, <1>7 DEF Ignore, Refuse, Drop
    <2>2. InFlight' = InFlight
      BY <1>2, <1>4, <2>1 DEF InFlight
    <2>3. HeldIsInFlight'
      BY <1>3, <1>5, <2>1, <2>2 DEF AccountInv, HeldIsInFlight
    <2>4. LineDistinct'
      BY <1>2, <1>4, <2>1 DEF AccountInv, LineDistinct, Line
    <2> QED
      BY <1>1, <1>6, <2>3, <2>4 DEF AccountInv
  <1>8. CASE Enqueue(e, admitted) \/ Preserve(e)
    <2>1. /\ Line' = Append(queue, e) \o overflow
          /\ Elements(Line') = Elements(Line) \cup {e}
      BY <1>1, <1>8, LineGrows DEF BoundsInv
    <2>2. fate'[e] = IF LoopAlive THEN "held" ELSE "late"
      BY <1>2, <1>8 DEF Enqueue, Preserve, Hold
    <2>3. InFlight = IF LoopAlive THEN Elements(Line) \cup ({current} \ {NoEvent}) ELSE {}
      BY <1>1, InFlightIsLine DEF BoundsInv, TypeOK, InFlight, Line
    <2>4. InFlight' = IF LoopAlive THEN Elements(Line') \cup ({current} \ {NoEvent}) ELSE {}
      BY <1>1, <1>2, <1>4, InFlightIsLine DEF BoundsInv, TypeOK, InFlight, Line
    <2>5. HeldIsInFlight'
      <3>1. CASE LoopAlive
        <4>1. InFlight' = InFlight \cup {e}
          BY <2>1, <2>3, <2>4, <3>1
        <4> QED
          BY <1>3, <2>2, <3>1, <4>1 DEF AccountInv, HeldIsInFlight
      <3>2. CASE ~LoopAlive
        BY <1>3, <2>2, <2>3, <2>4, <3>2 DEF AccountInv, HeldIsInFlight
      <3> QED
        BY <3>1, <3>2
    <2>6. LineDistinct'
      <3>1. SUFFICES ASSUME LoopAlive
                     PROVE  Distinct(Line') /\ current \notin Elements(Line')
        BY <1>2, <1>4 DEF LineDistinct
      <3>2. current # e
        BY <1>5, <2>3, <3>1, EventsAssumption
      <3>3. Distinct(Line) /\ current \notin Elements(Line) /\ e \notin Elements(Line)
        BY <1>5, <2>3, <3>1 DEF AccountInv, LineDistinct
      <3>4. queue \in Seq(Events) /\ overflow \in Seq(Events)
        BY <1>1, SeqMonotonic DEF BoundsInv, TypeOK, Events
      <3>5. Distinct(Append(queue, e) \o overflow)
        BY <3>3, <3>4, DistinctInsert DEF Line
      <3> QED
        BY <2>1, <3>2, <3>3, <3>5
    <2> QED
      BY <1>1, <1>6, <2>5, <2>6 DEF AccountInv
  <1> QED
    BY <1>7, <1>8

LEMMA AccountOffer ==
  ASSUME AccountInv, NEW e \in Events, NEW admitted \in BOOLEAN, Offer(e, admitted)
  PROVE  AccountInv'
  <1>1. BoundsInv'
    BY BoundsOffer DEF AccountInv
  <1> QED
    BY <1>1, AccountPut DEF Offer

LEMMA AccountFetch ==
  ASSUME AccountInv, BoundsInv', Fetch
  PROVE  AccountInv'
  <1>1. /\ queue \in Seq(Events) /\ overflow \in Seq(Critical) /\ overflow \in Seq(Events)
        /\ queue # <<>> /\ current = NoEvent
    BY SeqMonotonic DEF AccountInv, BoundsInv, ControlAgrees, TypeOK, Events, Fetch
  <1>2. /\ LoopAlive /\ LoopAlive'
        /\ queue' = Tail(queue) /\ current' = Head(queue)
        /\ UNCHANGED <<overflow, fate, published>>
    BY DEF Fetch, LoopAlive
  <1>3. Head(queue) \in Events
    BY <1>1, HeadTailProperties
  <1>4. Elements(queue) = {Head(queue)} \cup Elements(Tail(queue))
    BY <1>1, ElementsOfTail
  <1>5. InFlight' = InFlight
    BY <1>1, <1>2, <1>3, <1>4, EventsAssumption DEF InFlight
  <1>6. HeldIsInFlight' /\ PublishedSaysSo' /\ PublishedOnce'
    BY <1>2, <1>5 DEF AccountInv, HeldIsInFlight, PublishedSaysSo, PublishedOnce
  <1>7. LineDistinct'
    <2>1. Distinct(queue \o overflow)
      BY <1>2 DEF AccountInv, LineDistinct, Line
    <2>2. /\ Distinct(Tail(queue) \o overflow)
          /\ Head(queue) \notin Elements(Tail(queue) \o overflow)
      BY <1>1, <2>1, DistinctTail
    <2> QED
      BY <1>2, <2>2 DEF LineDistinct, Line
  <1> QED
    BY <1>6, <1>7 DEF AccountInv

LEMMA AccountPublish ==
  ASSUME AccountInv, BoundsInv', Publish
  PROVE  AccountInv'
  <1>1. /\ loop = "publishing" /\ LoopAlive /\ LoopAlive'
        /\ current' = NoEvent
        /\ published' = Append(published, current)
        /\ fate' = [fate EXCEPT ![current] = "published"]
        /\ DrainOverflow
    BY DEF Publish, LoopAlive
  <1>2. /\ TypeOK /\ TypeOK' /\ current \in Events /\ Len(queue) <= MaxSize
        /\ fate \in [Events -> Fates] /\ published \in Seq(Events)
    BY <1>1 DEF AccountInv, BoundsInv, TypeOK, ControlAgrees, OverflowOnlyBehindFullQueue
  <1>3. Line' = Line
    BY <1>1, <1>2, DrainMoves DEF Line
  <1>4. InFlight = Elements(Line) \cup {current}
    BY <1>1, <1>2, InFlightIsLine, EventsAssumption DEF TypeOK, InFlight, Line
  <1>5. InFlight' = Elements(Line')
    BY <1>1, <1>2, InFlightIsLine DEF TypeOK, InFlight, Line
  <1>6. current \notin Elements(Line) /\ Distinct(Line)
    BY <1>1 DEF AccountInv, LineDistinct
  <1>7. HeldIsInFlight'
    <2>1. ASSUME NEW f \in Events
          PROVE  fate'[f] = "held" <=> f \in InFlight'
      <3>1. CASE f = current
        BY <1>1, <1>2, <1>3, <1>5, <1>6, <3>1
      <3>2. CASE f # current
        <4>1. fate'[f] = fate[f]
          BY <1>1, <1>2, <3>2
        <4> QED
          BY <1>3, <1>4, <1>5, <3>2, <4>1 DEF AccountInv, HeldIsInFlight
      <3> QED
        BY <3>1, <3>2
    <2> QED
      BY <2>1 DEF HeldIsInFlight
  <1>8. LineDistinct'
    <2>1. NoEvent \notin Elements(Line)
      BY <1>2, InFlightIsLine DEF TypeOK, Line
    <2> QED
      BY <1>1, <1>3, <1>6, <2>1 DEF LineDistinct
  <1>9. /\ Len(published') = Len(published) + 1 /\ Len(published) \in Nat
        /\ \A i \in 1..Len(published) : published'[i] = published[i] /\ published[i] \in Events
        /\ published'[Len(published) + 1] = current
    BY <1>1, <1>2, AppendProperties, LenProperties, ElementOfSeq
  <1>10. \A i \in 1..Len(published) : published[i] # current
    <2>1. fate[current] = "held"
      BY <1>2, <1>4 DEF AccountInv, HeldIsInFlight
    <2> QED
      BY <2>1 DEF AccountInv, PublishedSaysSo
  <1>11. PublishedSaysSo'
    <2>1. ASSUME NEW i \in 1..Len(published')
          PROVE  fate'[published'[i]] = "published"
      <3>1. CASE i = Len(published) + 1
        BY <1>1, <1>2, <1>9, <3>1
      <3>2. CASE i # Len(published) + 1
        <4>1. i \in 1..Len(published)
          BY <1>9, <3>2
        <4>2. fate'[published[i]] = fate[published[i]]
          BY <1>1, <1>2, <1>9, <1>10, <4>1
        <4> QED
          BY <1>9, <4>1, <4>2 DEF AccountInv, PublishedSaysSo
      <3> QED
        BY <3>1, <3>2
    <2> QED
      BY <2>1 DEF PublishedSaysSo
  <1>12. PublishedOnce'
    <2>1. ASSUME NEW i \in 1..Len(published'), NEW j \in 1..Len(published'),
                 published'[i] = published'[j]
          PROVE  i = j
      <3>1. CASE i \in 1..Len(published) /\ j \in 1..Len(published)
        BY <1>9, <2>1, <3>1 DEF AccountInv, PublishedOnce
      <3>2. CASE i = Len(published) + 1 \/ j = Len(published) + 1
        BY <1>9, <1>10, <2>1, <3>2
      <3> QED
        BY <1>9, <3>1, <3>2
    <2> QED
      BY <2>1 DEF PublishedOnce
  <1> QED
    BY <1>7, <1>8, <1>11, <1>12 DEF AccountInv

LEMMA AccountNext ==
  ASSUME AccountInv, [Next]_vars
  PROVE  AccountInv'
  <1>0. BoundsInv /\ BoundsInv'
    BY BoundsNext DEF AccountInv
  <1>1. CASE Start
    <2>1. overflow = <<>> /\ loop = "none" /\ current = NoEvent
      BY <1>0, <1>1 DEF BoundsInv, StoppedIsClean, Start
    <2>2. /\ LoopAlive' /\ ~LoopAlive
          /\ queue' = <<>> /\ overflow' = <<>> /\ current' = NoEvent
          /\ UNCHANGED <<fate, published>>
      BY <1>1, <2>1 DEF Start, LoopAlive
    <2>3. InFlight = {} /\ InFlight' = {}
      BY <2>2, ElementsOfEmpty DEF InFlight
    <2>4. HeldIsInFlight' /\ PublishedSaysSo' /\ PublishedOnce'
      BY <2>2, <2>3 DEF AccountInv, HeldIsInFlight, PublishedSaysSo, PublishedOnce
    <2>5. LineDistinct'
      <3>1. <<>> \o <<>> = <<>>
        BY ConcatEmptySeq, EmptySeq
      <3>2. Distinct(<<>>) /\ Elements(<<>>) = {}
        BY ElementsOfEmpty DEF Distinct
      <3> QED
        BY <2>2, <3>1, <3>2 DEF LineDistinct, Line
    <2> QED
      BY <1>0, <2>4, <2>5 DEF AccountInv
  <1>2. CASE \E e \in Events : Dispatch(e)
    BY <1>2, AccountOffer DEF Dispatch
  <1>3. CASE Fetch
    BY <1>0, <1>3, AccountFetch
  <1>4. CASE Publish
    BY <1>0, <1>4, AccountPublish
  <1>5. CASE LoopExit
    <2>1. /\ queue = <<>> /\ overflow = <<>> /\ current = NoEvent
          /\ LoopAlive /\ ~LoopAlive'
          /\ UNCHANGED <<fate, published>>
      BY <1>0, <1>5 DEF BoundsInv, ControlAgrees, LoopExit, LoopAlive
    <2>2. InFlight = {} /\ InFlight' = {}
      BY <2>1, ElementsOfEmpty DEF InFlight
    <2> QED
      BY <1>0, <2>1, <2>2
         DEF AccountInv, HeldIsInFlight, PublishedSaysSo, PublishedOnce, LineDistinct
  <1>6. CASE StopRequest \/ UNCHANGED vars
    <2>1. UNCHANGED <<queue, overflow, loop, current, fate, published>>
      BY <1>6 DEF StopRequest, vars
    <2>2. LoopAlive' = LoopAlive /\ InFlight' = InFlight
      BY <2>1 DEF LoopAlive, InFlight
    <2> QED
      BY <1>0, <2>1, <2>2
         DEF AccountInv, HeldIsInFlight, PublishedSaysSo, PublishedOnce, LineDistinct, Line
  <1>7. CASE StopReturn
    <2>1. loop = "done" /\ loop' = "none" /\ UNCHANGED <<fate, published>>
      BY <1>7 DEF StopReturn, Stopped
    <2>2. ~LoopAlive /\ ~LoopAlive' /\ InFlight = {} /\ InFlight' = {}
      BY <2>1 DEF LoopAlive, InFlight
    <2> QED
      BY <1>0, <2>1, <2>2
         DEF AccountInv, HeldIsInFlight, PublishedSaysSo, PublishedOnce, LineDistinct
  <1>8. CASE StopCancelled
    <2>1. /\ loop' = "none" /\ published' = published
          /\ fate' = [e \in Events |-> IF fate[e] = "held" THEN "abandoned" ELSE fate[e]]
      BY <1>8 DEF StopCancelled, Stopped
    <2>2. ~LoopAlive' /\ InFlight' = {}
      BY <2>1 DEF LoopAlive, InFlight
    <2>3. HeldIsInFlight' /\ LineDistinct'
      BY <2>1, <2>2 DEF HeldIsInFlight, LineDistinct
    <2>4. \A i \in 1..Len(published) : published[i] \in Events
      BY <1>0, ElementOfSeq DEF BoundsInv, TypeOK
    <2>5. PublishedSaysSo' /\ PublishedOnce'
      BY <2>1, <2>4 DEF AccountInv, PublishedSaysSo, PublishedOnce
    <2> QED
      BY <1>0, <2>3, <2>5 DEF AccountInv
  <1> QED
    BY <1>1, <1>2, <1>3, <1>4, <1>5, <1>6, <1>7, <1>8 DEF Next, Loop

(***************************************************************************)
(* Exact accounting: at every moment the events the dispatcher has taken    *)
(* charge of and not yet published are the ones in the queue, in the deque  *)
(* and in the hands of the loop; a drained stop loses none.                 *)
(***************************************************************************)
THEOREM Accounting == Spec => []HeldIsInFlight
  <1>1. AccountInv => HeldIsInFlight
    BY DEF AccountInv
  <1> QED
    BY <1>1, AccountInit, AccountNext, PTL DEF Spec

(***************************************************************************)
(* No event reaches the bus twice, over any number of overflows, drains,    *)
(* stops and restarts.                                                      *)
(***************************************************************************)
THEOREM NoDuplicates == Spec => []PublishedOnce
  <1>1. AccountInv => PublishedOnce
    BY DEF AccountInv
  <1> QED
    BY <1>1, AccountInit, AccountNext, PTL DEF Spec

-----------------------------------------------------------------------------
(***************************************************************************)
(* The dispatcher implements the abstract delivery service.  By the         *)
(* accounting, what is in flight is what fate calls held, so each step is   *)
(* followed through fate alone.                                             *)
(***************************************************************************)
HeldEvents == {e \in Events : fate[e] = "held"}

LEMMA InFlightIsHeld == AccountInv => InFlight = HeldEvents
  <1> SUFFICES ASSUME AccountInv PROVE InFlight = HeldEvents
    OBVIOUS
  <1>1. /\ queue \in Seq(Events) /\ overflow \in Seq(Events)
        /\ current \in Events \cup {NoEvent}
    BY SeqMonotonic DEF AccountInv, BoundsInv, TypeOK, Events
  <1>2. \A s \in Seq(Events) : Elements(s) \subseteq Events
    BY ElementOfSeq DEF Elements
  <1>3. InFlight \subseteq Events
    BY <1>1, <1>2 DEF InFlight
  <1> QED
    BY <1>3 DEF AccountInv, HeldIsInFlight, HeldEvents

LEMMA ServiceInit == Init => Service!Init
  <1> SUFFICES ASSUME Init PROVE Service!Init
    OBVIOUS
  <1>1. LoopAlive = FALSE /\ InFlight = {} /\ Delivered = {}
    BY DEF Init, LoopAlive, InFlight, Delivered
  <1> QED
    BY <1>1 DEF Service!Init

LEMMA ServiceNext ==
  ASSUME AccountInv, AccountInv', [Next]_vars, InFlight = HeldEvents, InFlight' = HeldEvents'
  PROVE  [Service!Next]_Service!vars
  <1> DEFINE Stutters == UNCHANGED <<LoopAlive, InFlight, Delivered>>
  <1>0. BoundsInv /\ fate \in [Events -> Fates]
    BY DEF AccountInv, BoundsInv, TypeOK
  <1>1. ASSUME LoopAlive' = LoopAlive, fate' = fate
        PROVE  Stutters
    BY <1>1 DEF HeldEvents, Delivered
  <1>2. CASE Start
    <2>1. ~LoopAlive /\ LoopAlive' /\ fate' = fate
      BY <1>0, <1>2 DEF BoundsInv, StoppedIsClean, Start, LoopAlive
    <2>2. Service!Open
      BY <2>1 DEF Service!Open, HeldEvents, Delivered
    <2> QED
      BY <2>2 DEF Service!Next
  <1>3. ASSUME NEW e \in Events, NEW admitted \in BOOLEAN, Offer(e, admitted)
        PROVE  Service!Take(e) \/ Stutters
    <2>1. LoopAlive' = LoopAlive /\ fate[e] = "new"
      BY <1>3 DEF Offer, LoopAlive
    <2>2. CASE fate' = [fate EXCEPT ![e] = "held"] /\ LoopAlive
      <3>1. /\ HeldEvents' = HeldEvents \cup {e} /\ Delivered' = Delivered
            /\ e \notin HeldEvents /\ e \notin Delivered
        BY <1>0, <2>1, <2>2 DEF HeldEvents, Delivered
      <3> QED
        BY <2>1, <2>2, <3>1 DEF Service!Take
    <2>3. CASE \E x \in {"ignored", "refused", "dropped", "late"} :
                  fate' = [fate EXCEPT ![e] = x]
      BY <1>0, <2>1, <2>3 DEF HeldEvents, Delivered
    <2> QED
      BY <1>3, <2>2, <2>3 DEF Offer, Ignore, Refuse, Drop, Enqueue, Preserve, Hold
  <1>4. CASE Fetch \/ StopRequest \/ UNCHANGED vars
    <2>1. LoopAlive' = LoopAlive /\ fate' = fate
      BY <1>4 DEF Fetch, StopRequest, vars, LoopAlive
    <2> QED
      BY <1>1, <2>1 DEF Service!vars
  <1>5. CASE Publish
    <2>1. /\ LoopAlive /\ LoopAlive' /\ current \in Events
          /\ fate' = [fate EXCEPT ![current] = "published"]
      BY <1>0, <1>5 DEF Publish, LoopAlive, BoundsInv, TypeOK, ControlAgrees
    <2>2. current \in InFlight
      BY <1>0, <2>1, EventsAssumption DEF InFlight
    <2>3. HeldEvents' = HeldEvents \ {current} /\ Delivered' = Delivered \cup {current}
      BY <1>0, <2>1 DEF HeldEvents, Delivered
    <2>4. Service!Deliver(current)
      BY <2>1, <2>2, <2>3 DEF Service!Deliver
    <2> QED
      BY <2>1, <2>4 DEF Service!Next
  <1>6. CASE LoopExit
    <2>1. /\ LoopAlive /\ ~LoopAlive' /\ fate' = fate
          /\ queue = <<>> /\ overflow = <<>> /\ current = NoEvent
      BY <1>0, <1>6 DEF LoopExit, LoopAlive, BoundsInv, ControlAgrees
    <2>2. InFlight = {}
      BY <2>1, ElementsOfEmpty DEF InFlight
    <2>3. Service!Close
      BY <2>1, <2>2 DEF Service!Close, HeldEvents, Delivered
    <2> QED
      BY <2>3 DEF Service!Next
  <1>7. CASE StopReturn
    <2>1. LoopAlive' = LoopAlive /\ fate' = fate
      BY <1>7 DEF StopReturn, Stopped, LoopAlive
    <2> QED
      BY <1>1, <2>1 DEF Service!vars
  <1>8. CASE StopCancelled
    <2>1. /\ CancelStops /\ LoopAlive /\ ~LoopAlive'
          /\ fate' = [e \in Events |-> IF fate[e] = "held" THEN "abandoned" ELSE fate[e]]
      BY <1>8 DEF StopCancelled, Stopped, LoopAlive
    <2>2. HeldEvents' = {} /\ Delivered' = Delivered
      BY <2>1 DEF HeldEvents, Delivered
    <2>3. Service!Abandon
      BY <2>1, <2>2 DEF Service!Abandon
    <2> QED
      BY <2>3 DEF Service!Next
  <1> QED
    BY <1>2, <1>3, <1>4, <1>5, <1>6, <1>7, <1>8
       DEF Next, Loop, Dispatch, Service!Next, Service!vars

(***************************************************************************)
(* Every behaviour of the dispatcher is, step by step, one of the delivery  *)
(* service: it closes owing nothing, unless stop() is cancelled.            *)
(***************************************************************************)
THEOREM ImplementsDelivery == Spec => Service!Init /\ [][Service!Next]_(Service!vars)
  <1>1. Spec => []AccountInv
    BY AccountInit, AccountNext, PTL DEF Spec
  <1>2. []AccountInv => [](InFlight = HeldEvents)
    BY InFlightIsHeld, PTL
  <1>3. /\ AccountInv /\ AccountInv' /\ [Next]_vars
        /\ InFlight = HeldEvents /\ (InFlight = HeldEvents)'
        => [Service!Next]_(Service!vars)
    BY ServiceNext
  <1> QED
    BY <1>1, <1>2, <1>3, ServiceInit, PTL DEF Spec
-----------------------------------------------------------------------------
(***************************************************************************)
(* The third inductive invariant: of the events that found room, those      *)
(* published precede the one in the hands of the loop, which precedes those *)
(* in the queue, each part in order; the deque holds none of them.          *)
(***************************************************************************)
Precedes(a, e, f) == \A k, l \in 1..Len(a) : e = a[k] /\ f = a[l] => k < l

InOrder(a, s) == \A i, j \in 1..Len(s) : i < j => Precedes(a, s[i], s[j])

AllPrecede(a, E, F) == \A e \in E, f \in F : Precedes(a, e, f)

InHand == {current} \ {NoEvent}

NoneIsNew ==
    \A e \in Elements(arrived) \cup Elements(queue) \cup Elements(overflow) : fate[e] # "new"

DequeIsApart == Elements(overflow) \cap Elements(arrived) = {}

LineInOrder ==
    /\ InOrder(arrived, published)
    /\ InOrder(arrived, queue)
    /\ AllPrecede(arrived, Elements(published), InHand \cup Elements(queue))
    /\ AllPrecede(arrived, InHand, Elements(queue))

FifoInv ==
    /\ AccountInv
    /\ NoneIsNew
    /\ DequeIsApart
    /\ LineInOrder

LEMMA InOrderAppend ==
  ASSUME NEW a, NEW S, NEW s \in Seq(S), NEW e \in S,
         InOrder(a, s), \A x \in Elements(s) : Precedes(a, x, e)
  PROVE  InOrder(a, Append(s, e))
  <1>1. /\ Len(Append(s, e)) = Len(s) + 1
        /\ \A i \in 1..Len(s) : Append(s, e)[i] = s[i]
        /\ Append(s, e)[Len(s) + 1] = e
        /\ Len(s) \in Nat
    BY AppendProperties, LenProperties
  <1>2. ASSUME NEW i \in 1..Len(s) + 1, NEW j \in 1..Len(s) + 1, i < j
        PROVE  Precedes(a, Append(s, e)[i], Append(s, e)[j])
    <2>1. i \in 1..Len(s) /\ Append(s, e)[i] = s[i]
      BY <1>1, <1>2
    <2>2. CASE j = Len(s) + 1
      <3>1. s[i] \in Elements(s)
        BY <2>1 DEF Elements
      <3> QED
        BY <1>1, <2>1, <2>2, <3>1
    <2>3. CASE j # Len(s) + 1
      <3>1. j \in 1..Len(s) /\ Append(s, e)[j] = s[j]
        BY <1>1, <2>3
      <3> QED
        BY <1>2, <2>1, <3>1 DEF InOrder
    <2> QED
      BY <2>2, <2>3
  <1> QED
    BY <1>1, <1>2 DEF InOrder

LEMMA InOrderTail ==
  ASSUME NEW a, NEW S, NEW s \in Seq(S), s # <<>>, InOrder(a, s)
  PROVE  /\ InOrder(a, Tail(s))
         /\ \A x \in Elements(Tail(s)) : Precedes(a, Head(s), x)
  <1>1. /\ Len(Tail(s)) = Len(s) - 1
        /\ \A i \in 1..Len(Tail(s)) : Tail(s)[i] = s[i + 1]
        /\ Len(s) \in Nat \ {0}
        /\ Head(s) = s[1]
    BY HeadTailProperties, EmptySeq, LenProperties
  <1>2. \A i \in 1..Len(Tail(s)) : i + 1 \in 1..Len(s) /\ 1 < i + 1
    BY <1>1
  <1>3. InOrder(a, Tail(s))
    <2>1. ASSUME NEW i \in 1..Len(Tail(s)), NEW j \in 1..Len(Tail(s)), i < j
          PROVE  Precedes(a, Tail(s)[i], Tail(s)[j])
      <3>1. i + 1 \in 1..Len(s) /\ j + 1 \in 1..Len(s) /\ i + 1 < j + 1
        BY <1>1, <1>2, <2>1
      <3>2. Precedes(a, s[i + 1], s[j + 1])
        BY <3>1 DEF InOrder
      <3> QED
        BY <1>1, <3>2
    <2> QED
      BY <2>1 DEF InOrder
  <1>4. ASSUME NEW x \in Elements(Tail(s))
        PROVE  Precedes(a, Head(s), x)
    <2>1. PICK i \in 1..Len(Tail(s)) : x = Tail(s)[i]
      BY DEF Elements
    <2>2. 1 \in 1..Len(s) /\ i + 1 \in 1..Len(s) /\ 1 < i + 1
      BY <1>1, <1>2
    <2>3. Precedes(a, s[1], s[i + 1])
      BY <2>2 DEF InOrder
    <2> QED
      BY <1>1, <2>1, <2>3
  <1> QED
    BY <1>3, <1>4

(***************************************************************************)
(* Events that never found room may stand anywhere: what the drain appends  *)
(* leaves a sequence in order.                                              *)
(***************************************************************************)
LEMMA InOrderConcat ==
  ASSUME NEW a, NEW S, NEW s \in Seq(S), NEW t \in Seq(S),
         InOrder(a, s), Elements(t) \cap Elements(a) = {}
  PROVE  InOrder(a, s \o t)
  <1>1. /\ Len(s \o t) = Len(s) + Len(t)
        /\ \A i \in 1..Len(s) + Len(t) :
              (s \o t)[i] = IF i <= Len(s) THEN s[i] ELSE t[i - Len(s)]
        /\ Len(s) \in Nat /\ Len(t) \in Nat
    BY ConcatProperties, LenProperties
  <1>2. ASSUME NEW i \in 1..Len(s) + Len(t), NEW j \in 1..Len(s) + Len(t), i < j
        PROVE  Precedes(a, (s \o t)[i], (s \o t)[j])
    <2>1. CASE j <= Len(s)
      <3>1. i \in 1..Len(s) /\ j \in 1..Len(s)
        BY <1>1, <1>2, <2>1
      <3> QED
        BY <1>1, <1>2, <3>1 DEF InOrder
    <2>2. CASE j > Len(s)
      <3>1. j - Len(s) \in 1..Len(t) /\ (s \o t)[j] = t[j - Len(s)]
        BY <1>1, <2>2
      <3>2. (s \o t)[j] \notin Elements(a)
        BY <3>1 DEF Elements
      <3> QED
        BY <3>2 DEF Precedes, Elements
    <2> QED
      BY <1>1, <2>1, <2>2
  <1> QED
    BY <1>1, <1>2 DEF InOrder

(***************************************************************************)
(* An event that finds room comes after all that did before it.             *)
(***************************************************************************)
LEMMA PrecedesGrows ==
  ASSUME NEW S, NEW a \in Seq(S), NEW e \in S, e \notin Elements(a),
         NEW x, x # e, NEW y, Precedes(a, x, y) \/ y = e
  PROVE  Precedes(Append(a, e), x, y)
  <1>1. /\ Len(Append(a, e)) = Len(a) + 1
        /\ \A i \in 1..Len(a) : Append(a, e)[i] = a[i]
        /\ Append(a, e)[Len(a) + 1] = e
        /\ Len(a) \in Nat
    BY AppendProperties, LenProperties
  <1>2. SUFFICES ASSUME NEW k \in 1..Len(a) + 1, NEW l \in 1..Len(a) + 1,
                        x = Append(a, e)[k], y = Append(a, e)[l]
                 PROVE  k < l
    BY <1>1 DEF Precedes
  <1>3. k \in 1..Len(a) /\ x = a[k]
    BY <1>1, <1>2
  <1>4. CASE l = Len(a) + 1
    BY <1>1, <1>3, <1>4
  <1>5. CASE l # Len(a) + 1
    <2>1. l \in 1..Len(a) /\ y = a[l]
      BY <1>1, <1>2, <1>5
    <2>2. y # e
      BY <2>1 DEF Elements
    <2> QED
      BY <1>2, <1>3, <2>1, <2>2 DEF Precedes
  <1> QED
    BY <1>4, <1>5

LEMMA InOrderGrows ==
  ASSUME NEW S, NEW a \in Seq(S), NEW e \in S, e \notin Elements(a),
         NEW s, e \notin Elements(s), InOrder(a, s)
  PROVE  InOrder(Append(a, e), s)
  <1>1. ASSUME NEW i \in 1..Len(s), NEW j \in 1..Len(s), i < j
        PROVE  Precedes(Append(a, e), s[i], s[j])
    <2>1. s[i] # e /\ Precedes(a, s[i], s[j])
      BY <1>1 DEF InOrder, Elements
    <2> QED
      BY <2>1, PrecedesGrows
  <1> QED
    BY <1>1 DEF InOrder

LEMMA FifoInit == Init => FifoInv
  <1> SUFFICES ASSUME Init PROVE FifoInv
    OBVIOUS
  <1>1. /\ queue = <<>> /\ overflow = <<>> /\ arrived = <<>> /\ published = <<>>
        /\ current = NoEvent
    BY DEF Init
  <1>2. Elements(<<>>) = {} /\ (\A a : InOrder(a, <<>>)) /\ InHand = {}
    BY <1>1, ElementsOfEmpty DEF InOrder, InHand
  <1>3. NoneIsNew /\ DequeIsApart
    BY <1>1, <1>2 DEF NoneIsNew, DequeIsApart
  <1>4. LineInOrder
    BY <1>1, <1>2 DEF LineInOrder, AllPrecede
  <1> QED
    BY <1>3, <1>4, AccountInit DEF FifoInv

LEMMA FifoEnqueue ==
  ASSUME FifoInv, AccountInv', NEW e \in Events, NEW admitted \in BOOLEAN,
         Offer(e, admitted), Enqueue(e, admitted)
  PROVE  FifoInv'
  <1>1. /\ TypeOK /\ fate[e] = "new" /\ fate \in [Events -> Fates]
        /\ queue \in Seq(Events) /\ arrived \in Seq(Events) /\ published \in Seq(Events)
        /\ overflow \in Seq(Events) /\ current \in Events \cup {NoEvent}
    BY SeqMonotonic DEF FifoInv, AccountInv, BoundsInv, TypeOK, Offer, Events
  <1>2. /\ queue' = Append(queue, e) /\ arrived' = Append(arrived, e)
        /\ UNCHANGED <<overflow, current, published>>
        /\ fate' = [fate EXCEPT ![e] = IF LoopAlive THEN "held" ELSE "late"]
    BY DEF Offer, Enqueue, Hold
  <1>3. /\ Elements(queue') = Elements(queue) \cup {e}
        /\ Elements(arrived') = Elements(arrived) \cup {e}
    BY <1>1, <1>2, ElementsOfAppend
  <1>4. e \notin Elements(arrived) \cup Elements(queue) \cup Elements(overflow)
    BY <1>1 DEF FifoInv, NoneIsNew
  <1>5. e \notin Elements(published)
    BY <1>1 DEF FifoInv, AccountInv, PublishedSaysSo, Elements
  <1>6. e \notin InHand
    <2>1. ASSUME current = e PROVE FALSE
      <3>1. loop = "publishing" /\ LoopAlive
        BY <2>1, EventsAssumption
           DEF FifoInv, AccountInv, BoundsInv, ControlAgrees, LoopAlive
      <3>2. e \in InFlight
        BY <2>1, <3>1, EventsAssumption DEF InFlight
      <3> QED
        BY <1>1, <3>2 DEF FifoInv, AccountInv, HeldIsInFlight
    <2> QED
      BY <2>1 DEF InHand
  <1>7. \A x, y : x # e /\ (Precedes(arrived, x, y) \/ y = e) => Precedes(arrived', x, y)
    BY <1>1, <1>2, <1>4, PrecedesGrows
  <1>8. NoneIsNew'
    <2>1. \A s \in Seq(Events) : Elements(s) \subseteq Events
      BY ElementOfSeq DEF Elements
    <2>2. ASSUME NEW x \in Elements(arrived') \cup Elements(queue') \cup Elements(overflow')
          PROVE  fate'[x] # "new"
      <3>1. CASE x = e
        BY <1>1, <1>2, <3>1
      <3>2. CASE x # e
        <4>1. x \in Elements(arrived) \cup Elements(queue) \cup Elements(overflow)
          BY <1>2, <1>3, <2>2, <3>2
        <4>2. x \in Events
          BY <1>1, <2>1, <4>1
        <4>3. fate'[x] = fate[x]
          BY <1>1, <1>2, <3>2, <4>2
        <4> QED
          BY <4>1, <4>3 DEF FifoInv, NoneIsNew
      <3> QED
        BY <3>1, <3>2
    <2> QED
      BY <2>2 DEF NoneIsNew
  <1>9. DequeIsApart'
    BY <1>2, <1>3, <1>4 DEF FifoInv, DequeIsApart
  <1>10. InOrder(arrived', published) /\ InOrder(arrived', queue)
    BY <1>1, <1>2, <1>4, <1>5, InOrderGrows DEF FifoInv, LineInOrder
  <1>11. InOrder(arrived', queue')
    <2>1. \A x \in Elements(queue) : Precedes(arrived', x, e)
      BY <1>4, <1>7
    <2> HIDE DEF InOrder
    <2> QED
      BY <1>1, <1>2, <1>10, <2>1, InOrderAppend
  <1>12. /\ AllPrecede(arrived', Elements(published), InHand \cup Elements(queue) \cup {e})
         /\ AllPrecede(arrived', InHand, Elements(queue) \cup {e})
    BY <1>4, <1>5, <1>6, <1>7 DEF FifoInv, LineInOrder, AllPrecede
  <1>13. LineInOrder'
    BY <1>2, <1>3, <1>10, <1>11, <1>12 DEF LineInOrder, InHand, AllPrecede
  <1> QED
    BY <1>8, <1>9, <1>13 DEF FifoInv

(***************************************************************************)
(* The other ways dispatch() ends: nothing joins the queue.                 *)
(***************************************************************************)
LEMMA FifoOffer ==
  ASSUME FifoInv, AccountInv', NEW e \in Events, NEW admitted \in BOOLEAN, Offer(e, admitted)
  PROVE  FifoInv'
  <1>1. CASE Enqueue(e, admitted)
    BY <1>1, FifoEnqueue
  <1>2. CASE ~Enqueue(e, admitted)
    <2>1. /\ fate[e] = "new" /\ fate \in [Events -> Fates]
          /\ overflow \in Seq(Events)
      BY SeqMonotonic DEF FifoInv, AccountInv, BoundsInv, TypeOK, Offer, Events
    <2>2. /\ UNCHANGED <<queue, arrived, current, published>>
          /\ fate'[e] # "new" /\ \A f \in Events \ {e} : fate'[f] = fate[f]
      BY <1>2, <2>1 DEF Offer, Ignore, Refuse, Drop, Preserve, Hold
    <2>3. Elements(overflow') \subseteq Elements(overflow) \cup {e}
      <3>1. CASE Preserve(e)
        <4>1. overflow' = <<e>> \o overflow /\ <<e>> \in Seq(Events)
          BY <3>1 DEF Preserve
        <4>2. Elements(<<e>>) = {e}
          BY DEF Elements
        <4>3. \A s, t \in Seq(Events) : Elements(s \o t) = Elements(s) \cup Elements(t)
          BY ElementsOfConcat
        <4>4. Elements(overflow') = Elements(<<e>>) \cup Elements(overflow)
          BY <2>1, <4>1, <4>3, Zenon
        <4> QED
          BY <4>2, <4>4
      <3>2. CASE ~Preserve(e)
        BY <1>2, <3>2 DEF Offer, Ignore, Refuse, Drop
      <3> QED
        BY <3>1, <3>2
    <2>4. e \notin Elements(arrived)
      BY <2>1 DEF FifoInv, NoneIsNew
    <2>5. Elements(arrived) \cup Elements(queue) \cup Elements(overflow) \subseteq Events
      BY <2>1, ElementOfSeq DEF FifoInv, AccountInv, BoundsInv, TypeOK, Elements
    <2>6. NoneIsNew' /\ DequeIsApart'
      BY <2>2, <2>3, <2>4, <2>5 DEF FifoInv, NoneIsNew, DequeIsApart
    <2>7. LineInOrder'
      BY <2>2 DEF FifoInv, LineInOrder, InHand
    <2> QED
      BY <2>6, <2>7 DEF FifoInv
  <1> QED
    BY <1>1, <1>2

LEMMA FifoFetch ==
  ASSUME FifoInv, AccountInv', Fetch
  PROVE  FifoInv'
  <1>1. /\ queue \in Seq(Events) /\ queue # <<>> /\ current = NoEvent
        /\ queue' = Tail(queue) /\ current' = Head(queue)
        /\ UNCHANGED <<overflow, fate, arrived, published>>
    BY DEF FifoInv, AccountInv, BoundsInv, ControlAgrees, TypeOK, Fetch
  <1>2. /\ Elements(queue) = {Head(queue)} \cup Elements(queue')
        /\ InOrder(arrived, queue')
        /\ \A x \in Elements(queue') : Precedes(arrived, Head(queue), x)
    BY <1>1, ElementsOfTail, InOrderTail DEF FifoInv, LineInOrder
  <1>3. InHand = {} /\ InHand' \subseteq {Head(queue)}
    BY <1>1 DEF InHand
  <1>4. NoneIsNew' /\ DequeIsApart'
    BY <1>1, <1>2 DEF FifoInv, NoneIsNew, DequeIsApart
  <1>5. LineInOrder'
    BY <1>1, <1>2, <1>3 DEF FifoInv, LineInOrder, AllPrecede
  <1> QED
    BY <1>4, <1>5 DEF FifoInv

LEMMA FifoPublish ==
  ASSUME FifoInv, AccountInv', Publish
  PROVE  FifoInv'
  <1> DEFINE moved == SubSeq(overflow, 1, Room)
  <1>1. /\ published' = Append(published, current) /\ current' = NoEvent
        /\ fate' = [fate EXCEPT ![current] = "published"]
        /\ DrainOverflow /\ arrived' = arrived
        /\ queue' = queue \o moved /\ overflow' = SubSeq(overflow, Room + 1, Len(overflow))
    BY DEF Publish, DrainOverflow
  <1>2. /\ TypeOK /\ current \in Events /\ Len(queue) <= MaxSize
        /\ queue \in Seq(Events) /\ published \in Seq(Events) /\ overflow \in Seq(Events)
        /\ fate \in [Events -> Fates]
    BY SeqMonotonic
       DEF FifoInv, AccountInv, BoundsInv, TypeOK, ControlAgrees, OverflowOnlyBehindFullQueue,
           Publish, Events
  <1>3. /\ moved \in Seq(Events) /\ overflow' \in Seq(Events)
        /\ Elements(overflow) = Elements(moved) \cup Elements(overflow')
    <2>1. Room \in 0..Len(overflow)
      BY <1>1, <1>2, DrainMoves
    <2>2. /\ moved \in Seq(Events) /\ overflow' \in Seq(Events)
          /\ moved \o overflow' = overflow
      BY <1>1, <1>2, <2>1, CutAndJoin
    <2> QED
      BY <2>2, ElementsOfConcat
  <1> HIDE DEF moved
  <1>4. /\ Elements(queue') = Elements(queue) \cup Elements(moved)
        /\ Elements(published') = Elements(published) \cup {current}
    BY <1>1, <1>2, <1>3, ElementsOfConcat, ElementsOfAppend
  <1>5. InHand = {current} /\ InHand' = {}
    BY <1>1, <1>2, EventsAssumption DEF InHand
  <1>6. Elements(moved) \cap Elements(arrived) = {}
    BY <1>3 DEF FifoInv, DequeIsApart
  <1>7. NoneIsNew' /\ DequeIsApart'
    <2>1. \A f : fate[f] # "new" => fate'[f] # "new"
      BY <1>1, <1>2
    <2> QED
      BY <1>1, <1>3, <1>4, <2>1 DEF FifoInv, NoneIsNew, DequeIsApart
  <1>8. InOrder(arrived, published')
    <2>1. \A x \in Elements(published) : Precedes(arrived, x, current)
      BY <1>5 DEF FifoInv, LineInOrder, AllPrecede
    <2> QED
      BY <1>1, <1>2, <2>1, InOrderAppend DEF FifoInv, LineInOrder
  <1>9. InOrder(arrived, queue')
    BY <1>1, <1>2, <1>3, <1>6, InOrderConcat DEF FifoInv, LineInOrder
  <1>10. AllPrecede(arrived, Elements(published'), Elements(queue'))
    <2>1. \A x, y : y \in Elements(moved) => Precedes(arrived, x, y)
      BY <1>6 DEF Precedes, Elements
    <2>2. AllPrecede(arrived, Elements(published) \cup {current}, Elements(queue))
      BY <1>5 DEF FifoInv, LineInOrder, AllPrecede
    <2> QED
      BY <1>4, <2>1, <2>2 DEF AllPrecede
  <1>11. LineInOrder'
    BY <1>1, <1>5, <1>8, <1>9, <1>10 DEF LineInOrder, AllPrecede
  <1> QED
    BY <1>7, <1>11 DEF FifoInv

LEMMA FifoNext ==
  ASSUME FifoInv, [Next]_vars
  PROVE  FifoInv'
  <1>0. AccountInv /\ AccountInv'
    BY AccountNext DEF FifoInv
  <1>1. CASE Start
    <2>1. /\ queue' = <<>> /\ UNCHANGED <<overflow, current, fate, arrived, published>>
          /\ current = NoEvent
      BY <1>0, <1>1 DEF AccountInv, BoundsInv, StoppedIsClean, Start
    <2>2. Elements(queue') = {} /\ InOrder(arrived, queue') /\ InHand = {} /\ InHand' = {}
      BY <2>1, ElementsOfEmpty DEF InOrder, InHand
    <2>3. NoneIsNew' /\ DequeIsApart' /\ LineInOrder'
      BY <2>1, <2>2 DEF FifoInv, NoneIsNew, DequeIsApart, LineInOrder, AllPrecede
    <2> QED
      BY <1>0, <2>3 DEF FifoInv
  <1>2. CASE \E e \in Events : Dispatch(e)
    BY <1>0, <1>2, FifoOffer DEF Dispatch
  <1>3. CASE Fetch
    BY <1>0, <1>3, FifoFetch
  <1>4. CASE Publish
    BY <1>0, <1>4, FifoPublish
  <1>5. CASE LoopExit \/ StopRequest \/ UNCHANGED vars
    <2>1. UNCHANGED <<queue, overflow, current, fate, arrived, published>>
      BY <1>5 DEF LoopExit, StopRequest, vars
    <2> QED
      BY <1>0, <2>1 DEF FifoInv, NoneIsNew, DequeIsApart, LineInOrder, InHand
  <1>6. CASE StopReturn \/ StopCancelled
    <2>1. /\ UNCHANGED <<queue, arrived, published>>
          /\ overflow' = <<>> /\ InHand' \subseteq InHand
          /\ \A f \in Events : fate[f] # "new" => fate'[f] # "new"
      BY <1>6 DEF StopReturn, StopCancelled, Stopped, InHand
    <2>2. Elements(overflow') = {}
      BY <2>1, ElementsOfEmpty
    <2>3. Elements(arrived) \cup Elements(queue) \subseteq Events
      BY <1>0, ElementOfSeq DEF AccountInv, BoundsInv, TypeOK, Elements
    <2>4. NoneIsNew' /\ DequeIsApart'
      BY <2>1, <2>2, <2>3 DEF FifoInv, NoneIsNew, DequeIsApart
    <2>5. LineInOrder'
      BY <2>1 DEF FifoInv, LineInOrder, AllPrecede
    <2> QED
      BY <1>0, <2>4, <2>5 DEF FifoInv
  <1> QED
    BY <1>1, <1>2, <1>3, <1>4, <1>5, <1>6 DEF Next, Loop

(***************************************************************************)
(* Events that found room in the queue reach the bus in the order they were *)
(* dispatched, whatever overflows, drains, stops and restarts lie between.  *)
(***************************************************************************)
THEOREM ArrivalOrder == Spec => []DirectFifo
  <1>1. FifoInv => DirectFifo
    BY DEF FifoInv, LineInOrder, InOrder, Precedes, DirectFifo
  <1> QED
    BY <1>1, FifoInit, FifoNext, PTL DEF Spec
=============================================================================
