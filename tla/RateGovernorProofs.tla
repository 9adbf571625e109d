-------------------------- MODULE RateGovernorProofs --------------------------
(* What the rate governor guarantees for any number of threads, any          *)
(* concurrency and any rate.                                                 *)
EXTENDS RateGovernor, SequenceTheorems, FiniteSetTheorems, TLAPS

\* Every slot given lies an interval before the next free one.
SlotsBelowNext == \A i \in DOMAIN slots : slots[i] + interval <= next_free

\* The inductive invariant.
IInv == TypeOK /\ PermitsConserved /\ SlotsBelowNext /\ SlotsSpaced /\ NeverEarly

LEMMA InitIInv == Init => IInv
<1> SUFFICES ASSUME Init PROVE IInv
  OBVIOUS
<1>1. TypeOK
  BY GovernorAssumption DEF Init, TypeOK
<1>2. holders = {}
  BY DEF Init, holders
<1>3. PermitsConserved
  BY <1>2, FS_EmptySet, GovernorAssumption DEF Init, PermitsConserved
<1>4. SlotsBelowNext /\ SlotsSpaced /\ NeverEarly
  BY DEF Init, SlotsBelowNext, SlotsSpaced, NeverEarly
<1> QED
  BY <1>1, <1>3, <1>4 DEF IInv

LEMMA TypeInductive == ASSUME IInv, Next PROVE TypeOK'
<1>1. CASE Tick
  BY <1>1 DEF Tick, IInv, TypeOK
<1>2. ASSUME NEW t \in Threads, Acquire(t) PROVE TypeOK'
  BY <1>2 DEF Acquire, IInv, TypeOK
<1>3. ASSUME NEW t \in Threads, Pace(t) PROVE TypeOK'
  <2>1. next_slot \in Nat
    BY DEF IInv, TypeOK, next_slot, later
  <2> QED
    BY <1>3, <2>1, GovernorAssumption DEF Pace, IInv, TypeOK
<1>4. ASSUME NEW t \in Threads, Wake(t) PROVE TypeOK'
  BY <1>4 DEF Wake, IInv, TypeOK
<1>5. ASSUME NEW t \in Threads, Release(t) \/ Interrupt(t) PROVE TypeOK'
  BY <1>5 DEF Release, Interrupt, release, IInv, TypeOK
<1> QED
  BY <1>1, <1>2, <1>3, <1>4, <1>5 DEF Next

\* A permit taken is a holder more, a permit given back a holder less.
LEMMA PermitsInductive == ASSUME IInv, Next PROVE PermitsConserved'
<1>1. IsFiniteSet(holders) /\ Cardinality(holders) \in Nat /\ sem \in Nat
  <2>1. IsFiniteSet(holders)
    BY FS_Subset, GovernorAssumption DEF holders
  <2> QED
    BY <2>1, FS_CardinalityType DEF IInv, TypeOK
<1>2. CASE Tick
  <2>1. holders' = holders /\ sem' = sem
    BY <1>2 DEF Tick, holders
  <2> QED
    BY <2>1 DEF IInv, PermitsConserved
<1>3. ASSUME NEW t \in Threads, Acquire(t) PROVE PermitsConserved'
  <2>1. holders' = holders \cup {t} /\ t \notin holders /\ sem' = sem - 1
    <3>1. pc[t] = "idle" /\ pc'[t] # "idle" /\ \A u \in Threads \ {t} : pc'[u] = pc[u]
      BY <1>3 DEF Acquire, IInv, TypeOK
    <3>2. holders' = holders \cup {t} /\ t \notin holders
      BY <3>1 DEF holders
    <3> QED
      BY <1>3, <3>2 DEF Acquire
  <2>2. Cardinality(holders') = Cardinality(holders) + 1
    BY <1>1, <2>1, FS_AddElement
  <2> QED
    BY <1>1, <2>1, <2>2, GovernorAssumption DEF IInv, PermitsConserved
<1>4. ASSUME NEW t \in Threads, Pace(t) \/ Wake(t) PROVE PermitsConserved'
  <2>1. holders' = holders /\ sem' = sem
    BY <1>4 DEF Pace, Wake, holders, IInv, TypeOK
  <2> QED
    BY <2>1 DEF IInv, PermitsConserved
<1>5. ASSUME NEW t \in Threads, Release(t) \/ Interrupt(t) PROVE PermitsConserved'
  <2>1. holders' = holders \ {t} /\ t \in holders /\ sem' = sem + 1
    <3>1. pc[t] # "idle" /\ pc'[t] = "idle" /\ \A u \in Threads \ {t} : pc'[u] = pc[u]
      BY <1>5 DEF Release, Interrupt, release, IInv, TypeOK
    <3>2. holders' = holders \ {t} /\ t \in holders
      BY <3>1 DEF holders
    <3> QED
      BY <1>5, <3>2 DEF Release, Interrupt, release
  <2>2. Cardinality(holders') = Cardinality(holders) - 1
    BY <1>1, <2>1, FS_RemoveElement
  <2> QED
    BY <1>1, <2>1, <2>2, GovernorAssumption DEF IInv, PermitsConserved
<1> QED
  BY <1>2, <1>3, <1>4, <1>5 DEF Next

LEMMA SlotsInductive == ASSUME IInv, Next PROVE SlotsBelowNext' /\ SlotsSpaced' /\ NeverEarly'
<1>1. CASE Tick
  BY <1>1 DEF Tick, IInv, TypeOK, SlotsBelowNext, SlotsSpaced, NeverEarly
<1>2. ASSUME NEW t \in Threads, Pace(t) PROVE SlotsBelowNext' /\ SlotsSpaced' /\ NeverEarly'
  <2>1. next_slot \in Nat /\ next_slot >= next_free
    BY DEF IInv, TypeOK, next_slot, later
  <2>2. slots' = Append(slots, next_slot) /\ next_free' = next_slot + interval
    BY <1>2 DEF Pace
  <2>3. DOMAIN slots' = DOMAIN slots \cup {Len(slots) + 1}
        /\ slots'[Len(slots) + 1] = next_slot
        /\ \A i \in DOMAIN slots : i < Len(slots) + 1 /\ slots'[i] = slots[i]
    BY <2>1, <2>2 DEF IInv, TypeOK
  <2>4. \A i \in DOMAIN slots : slots[i] \in Nat /\ slots[i] + interval <= next_slot
    BY <2>1, GovernorAssumption DEF IInv, TypeOK, SlotsBelowNext
  <2>5. SlotsBelowNext'
    BY <2>1, <2>2, <2>3, <2>4, GovernorAssumption DEF SlotsBelowNext
  <2>6. SlotsSpaced'
    BY <2>3, <2>4 DEF IInv, TypeOK, SlotsSpaced
  <2>7. NeverEarly'
    BY <1>2 DEF Pace, IInv, TypeOK, NeverEarly
  <2> QED
    BY <2>5, <2>6, <2>7
<1>3. ASSUME NEW t \in Threads, Acquire(t) \/ Wake(t) \/ Release(t) \/ Interrupt(t)
      PROVE  SlotsBelowNext' /\ SlotsSpaced' /\ NeverEarly'
  <2>1. SlotsBelowNext' /\ SlotsSpaced'
    BY <1>3 DEF Acquire, Wake, Release, Interrupt, release, IInv, SlotsBelowNext, SlotsSpaced
  <2>2. NeverEarly'
    BY <1>3 DEF Acquire, Wake, Release, Interrupt, release, may_wake, IInv, TypeOK, NeverEarly
  <2> QED
    BY <2>1, <2>2
<1> QED
  BY <1>1, <1>2, <1>3 DEF Next

\* The inductive invariant holds in every reachable state.
THEOREM Inductive == Spec => []IInv
<1>1. IInv /\ Next => IInv'
  BY TypeInductive, PermitsInductive, SlotsInductive DEF IInv
<1>2. IInv /\ UNCHANGED vars => IInv'
  BY DEF IInv, TypeOK, PermitsConserved, holders, SlotsBelowNext, SlotsSpaced, NeverEarly, vars
<1> QED
  BY InitIInv, <1>1, <1>2, PTL DEF Spec

\* Clock, semaphore and slots are well typed: the semaphore never goes below 0.
THEOREM GovernorTyped == Spec => []TypeOK
BY Inductive, PTL DEF IInv

\* No permit is lost or made up, however leases end (lease's finally clause).
THEOREM GovernorPermitsConserved == Spec => []PermitsConserved
BY Inductive, PTL DEF IInv

\* At most max_concurrency leases are held at once.
THEOREM GovernorBoundsHolders == Spec => [](Cardinality(holders) <= max_concurrency)
<1>1. IInv => Cardinality(holders) <= max_concurrency
  <2> SUFFICES ASSUME IInv PROVE Cardinality(holders) <= max_concurrency
    OBVIOUS
  <2>1. IsFiniteSet(holders)
    BY FS_Subset, GovernorAssumption DEF holders
  <2>2. Cardinality(holders) \in Nat
    BY <2>1, FS_CardinalityType
  <2> QED
    BY <2>2, GovernorAssumption DEF IInv, TypeOK, PermitsConserved
<1> QED
  BY <1>1, Inductive, PTL

\* No two leases share an interval (_pace under its lock).
THEOREM GovernorSpacesSlots == Spec => []SlotsSpaced
BY Inductive, PTL DEF IInv

\* No caller works before its slot.
THEOREM GovernorNeverEarly == Spec => []NeverEarly
BY Inductive, PTL DEF IInv

----------------------------------------------------------------------------
(* The average rate: every start has used up a slot of its own that was    *)
(* due, and slots are due at the rate.                                     *)

\* The slots that are due, by their number.
due == {i \in DOMAIN slots : slots[i] <= now}

\* The sleepers whose slot is due.
waiting == {t \in Threads : pc[t] = "sleeping" /\ slot[t] <= now}

\* Slot number i is not due before i - 1 intervals have passed.
SlotsAbove ==
  /\ \A i \in DOMAIN slots : interval * (i - 1) <= slots[i]
  /\ interval * Len(slots) <= next_free

\* A sleeper has a slot of its own.
SleepersHaveSlots ==
  /\ \A t \in Threads : pc[t] = "sleeping" => \E i \in DOMAIN slots : slots[i] = slot[t]
  /\ \A t, u \in Threads : pc[t] = "sleeping" /\ pc[u] = "sleeping" /\ slot[t] = slot[u] => t = u

\* Started leases and due sleepers together have no more slots than are due.
StartsCounted == Len(starts) + Cardinality(waiting) <= Cardinality(due)

RateInv == IInv /\ SlotsAbove /\ SleepersHaveSlots /\ StartsCounted

LEMMA FiniteCounts ==
  ASSUME TypeOK
  PROVE  /\ IsFiniteSet(due) /\ Cardinality(due) \in Nat
         /\ IsFiniteSet(waiting) /\ Cardinality(waiting) \in Nat
<1>1. IsFiniteSet(waiting)
  BY FS_Subset, GovernorAssumption DEF waiting
<1>2. due \in SUBSET (1..Len(slots)) /\ Len(slots) \in Int
  BY DEF TypeOK, due
<1>3. IsFiniteSet(1..Len(slots))
  BY <1>2, FS_Interval
<1>4. IsFiniteSet(due)
  BY <1>2, <1>3, FS_Subset
<1> QED
  BY <1>1, <1>4, FS_CardinalityType

LEMMA InitRateInv == Init => RateInv
<1> SUFFICES ASSUME Init PROVE RateInv
  OBVIOUS
<1>1. SlotsAbove /\ SleepersHaveSlots
  BY GovernorAssumption DEF Init, SlotsAbove, SleepersHaveSlots
<1>2. waiting = {} /\ due = {} /\ Len(starts) = 0
  BY DEF Init, waiting, due
<1>3. StartsCounted
  BY <1>2, FS_EmptySet DEF StartsCounted
<1> QED
  BY <1>1, <1>3, InitIInv DEF RateInv

\* What Pace does to the slots, in one place.
LEMMA PaceAppends ==
  ASSUME RateInv, NEW t \in Threads, Pace(t)
  PROVE  /\ next_slot \in Nat /\ next_slot >= next_free /\ next_slot >= now
         /\ DOMAIN slots' = DOMAIN slots \cup {Len(slots) + 1} /\ Len(slots') = Len(slots) + 1
         /\ Len(slots) + 1 \notin DOMAIN slots
         /\ slots'[Len(slots) + 1] = next_slot
         /\ \A i \in DOMAIN slots : slots'[i] = slots[i]
         /\ \A i \in DOMAIN slots : slots[i] \in Nat /\ slots[i] < next_slot
<1>1. next_slot \in Nat /\ next_slot >= next_free /\ next_slot >= now
  BY DEF RateInv, IInv, TypeOK, next_slot, later
<1>2. slots' = Append(slots, next_slot)
  BY DEF Pace
<1>3. \A i \in DOMAIN slots : slots[i] \in Nat /\ slots[i] < next_slot
  BY <1>1, GovernorAssumption DEF RateInv, IInv, TypeOK, SlotsBelowNext
<1> QED
  BY <1>1, <1>2, <1>3 DEF RateInv, IInv, TypeOK

LEMMA AboveInductive == ASSUME RateInv, Next PROVE SlotsAbove'
<1>1. ASSUME NEW t \in Threads, Pace(t) PROVE SlotsAbove'
  <2> DEFINE n == Len(slots)
  <2>1. n \in Nat /\ next_free \in Nat /\ DOMAIN slots = 1..n
    BY DEF RateInv, IInv, TypeOK
  <2>2. interval * n <= next_slot
    BY <1>1, <2>1, PaceAppends, GovernorAssumption DEF RateInv, SlotsAbove
  <2>3. interval * (n + 1) = interval * n + interval /\ (n + 1) - 1 = n
    BY <2>1, GovernorAssumption
  <2>4. next_free' = next_slot + interval
    BY <1>1 DEF Pace
  <2>5. interval * Len(slots') <= next_free'
    BY <1>1, <2>1, <2>2, <2>3, <2>4, PaceAppends, GovernorAssumption
  <2>6. \A i \in DOMAIN slots' : interval * (i - 1) <= slots'[i]
    BY <1>1, <2>2, <2>3, PaceAppends DEF RateInv, SlotsAbove
  <2> QED
    BY <2>5, <2>6 DEF SlotsAbove
<1>2. ASSUME UNCHANGED <<slots, next_free>> PROVE SlotsAbove'
  BY <1>2 DEF RateInv, SlotsAbove
<1> QED
  BY <1>1, <1>2 DEF Next, Tick, Acquire, Wake, Release, Interrupt, release

LEMMA SleepersInductive == ASSUME RateInv, Next PROVE SleepersHaveSlots'
<1>1. ASSUME NEW t \in Threads, Pace(t) PROVE SleepersHaveSlots'
  <2>1. /\ pc'[t] = "sleeping" /\ slot'[t] = next_slot
        /\ \A u \in Threads \ {t} : pc'[u] = pc[u] /\ slot'[u] = slot[u]
    BY <1>1 DEF Pace, RateInv, IInv, TypeOK
  <2>2. ASSUME NEW u \in Threads, pc'[u] = "sleeping"
        PROVE  \E i \in DOMAIN slots' : slots'[i] = slot'[u]
    <3>1. CASE u = t
      BY <1>1, <2>1, <3>1, PaceAppends
    <3>2. CASE u # t
      BY <1>1, <2>1, <2>2, <3>2, PaceAppends DEF RateInv, SleepersHaveSlots
    <3> QED
      BY <3>1, <3>2
  <2>3. \A u \in Threads \ {t} : pc[u] = "sleeping" => slot[u] < next_slot
    BY <1>1, PaceAppends DEF RateInv, SleepersHaveSlots
  <2>4. ASSUME NEW u \in Threads, NEW v \in Threads,
               pc'[u] = "sleeping", pc'[v] = "sleeping", slot'[u] = slot'[v]
        PROVE  u = v
    <3>1. slot \in [Threads -> Nat] /\ next_slot \in Nat
      BY <1>1, PaceAppends DEF RateInv, IInv, TypeOK
    <3> QED
      BY <2>1, <2>3, <2>4, <3>1 DEF RateInv, SleepersHaveSlots
  <2> QED
    BY <2>2, <2>4 DEF SleepersHaveSlots
<1>2. ASSUME UNCHANGED <<slots, slot>>,
             \A u \in Threads : pc'[u] = "sleeping" => pc[u] = "sleeping"
      PROVE  SleepersHaveSlots'
  BY <1>2 DEF RateInv, SleepersHaveSlots
<1>3. ASSUME NEW t \in Threads, Acquire(t) \/ Wake(t) \/ Release(t) \/ Interrupt(t)
      PROVE  \A u \in Threads : pc'[u] = "sleeping" => pc[u] = "sleeping"
  BY <1>3 DEF Acquire, Wake, Release, Interrupt, release, RateInv, IInv, TypeOK
<1> QED
  BY <1>1, <1>2, <1>3 DEF Next, Tick, Acquire, Wake, Release, Interrupt, release

\* The due sleepers and the due slots change together, one at a time.
LEMMA CountInductive == ASSUME RateInv, Next PROVE StartsCounted'
<1>1. /\ IsFiniteSet(due) /\ Cardinality(due) \in Nat
      /\ IsFiniteSet(waiting) /\ Cardinality(waiting) \in Nat
      /\ Len(starts) \in Nat /\ now \in Nat
  BY FiniteCounts DEF RateInv, IInv, TypeOK
<1>2. IsFiniteSet(due') /\ Cardinality(due') \in Nat
  <2>1. due' \in SUBSET (1..Len(slots')) /\ Len(slots') \in Int
    BY TypeInductive DEF RateInv, TypeOK, due
  <2>2. IsFiniteSet(1..Len(slots'))
    BY <2>1, FS_Interval
  <2> QED
    BY <2>1, <2>2, FS_Subset, FS_CardinalityType
<1>3. CASE Tick
  <2>1. /\ now' = now + 1 /\ Len(starts') = Len(starts)
        /\ UNCHANGED <<pc, slot, slots>>
    BY <1>3 DEF Tick
  <2>2. due \subseteq due'
    BY <1>1, <2>1 DEF due, RateInv, IInv, TypeOK
  <2>3. CASE \E t \in Threads : pc[t] = "sleeping" /\ slot[t] = now + 1
    <3>1. PICK t \in Threads : pc[t] = "sleeping" /\ slot[t] = now + 1
      BY <2>3
    <3>2. PICK i \in DOMAIN slots : slots[i] = now + 1
      BY <3>1 DEF RateInv, SleepersHaveSlots
    <3>3. waiting' = waiting \cup {t} /\ t \notin waiting
      BY <1>1, <2>1, <3>1 DEF waiting, RateInv, SleepersHaveSlots, IInv, TypeOK
    <3>4. due \cup {i} \subseteq due' /\ i \notin due
      BY <1>1, <2>1, <2>2, <3>2 DEF due
    <3>5. Cardinality(waiting') = Cardinality(waiting) + 1
      BY <1>1, <3>3, FS_AddElement
    <3>6. Cardinality(due \cup {i}) = Cardinality(due) + 1
      BY <1>1, <3>4, FS_AddElement
    <3>7. Cardinality(due \cup {i}) <= Cardinality(due')
      BY <1>2, <3>4, FS_Subset
    <3> QED
      BY <1>1, <1>2, <2>1, <3>5, <3>6, <3>7 DEF RateInv, StartsCounted
  <2>4. CASE ~\E t \in Threads : pc[t] = "sleeping" /\ slot[t] = now + 1
    <3>1. waiting' = waiting
      BY <1>1, <2>1, <2>4 DEF waiting, RateInv, IInv, TypeOK
    <3>2. Cardinality(due) <= Cardinality(due')
      BY <1>2, <2>2, FS_Subset
    <3> QED
      BY <1>1, <1>2, <2>1, <3>1, <3>2 DEF RateInv, StartsCounted
  <2> QED
    BY <2>3, <2>4
<1>4. ASSUME NEW t \in Threads, Pace(t) PROVE StartsCounted'
  <2>1. /\ now' = now /\ starts' = starts
        /\ pc[t] = "acquired" /\ pc'[t] = "sleeping" /\ slot'[t] = next_slot
        /\ \A u \in Threads \ {t} : pc'[u] = pc[u] /\ slot'[u] = slot[u]
    BY <1>4 DEF Pace, RateInv, IInv, TypeOK
  <2>2. t \notin waiting
    BY <2>1 DEF waiting
  <2>3. CASE next_slot <= now
    <3>1. waiting' = waiting \cup {t}
      BY <2>1, <2>2, <2>3 DEF waiting
    <3>2. due' = due \cup {Len(slots) + 1} /\ Len(slots) + 1 \notin due
      BY <1>4, <2>1, <2>3, PaceAppends DEF due
    <3>3. Cardinality(waiting') = Cardinality(waiting) + 1
      BY <1>1, <2>2, <3>1, FS_AddElement
    <3>4. Cardinality(due') = Cardinality(due) + 1
      BY <1>1, <3>2, FS_AddElement
    <3> QED
      BY <1>1, <2>1, <3>3, <3>4 DEF RateInv, StartsCounted
  <2>4. CASE ~(next_slot <= now)
    <3>1. waiting' = waiting
      BY <2>1, <2>2, <2>4 DEF waiting
    <3>2. due' = due
      BY <1>4, <2>1, <2>4, PaceAppends DEF due
    <3> QED
      BY <2>1, <3>1, <3>2 DEF RateInv, StartsCounted
  <2> QED
    BY <2>3, <2>4
<1>5. ASSUME NEW t \in Threads, Wake(t) PROVE StartsCounted'
  <2>1. /\ now' = now /\ slots' = slots /\ slot' = slot /\ Len(starts') = Len(starts) + 1
        /\ pc[t] = "sleeping" /\ slot[t] <= now /\ pc'[t] = "working"
        /\ \A u \in Threads \ {t} : pc'[u] = pc[u]
    BY <1>5 DEF Wake, may_wake, RateInv, IInv, TypeOK
  <2>2. waiting' = waiting \ {t} /\ t \in waiting /\ due' = due
    BY <2>1 DEF waiting, due
  <2>3. Cardinality(waiting') = Cardinality(waiting) - 1
    BY <1>1, <2>2, FS_RemoveElement
  <2> QED
    BY <1>1, <2>1, <2>2, <2>3 DEF RateInv, StartsCounted
<1>6. ASSUME NEW t \in Threads, Acquire(t) \/ Release(t) \/ Interrupt(t) PROVE StartsCounted'
  <2>1. UNCHANGED <<now, slots, slot, starts>>
    BY <1>6 DEF Acquire, Release, Interrupt, release
  <2>2. \A u \in Threads : pc'[u] = "sleeping" => pc[u] = "sleeping"
    BY <1>6 DEF Acquire, Release, Interrupt, release, RateInv, IInv, TypeOK
  <2>3. waiting' \subseteq waiting /\ due' = due
    BY <2>1, <2>2 DEF waiting, due
  <2>4. Cardinality(waiting') <= Cardinality(waiting) /\ Cardinality(waiting') \in Nat
    BY <1>1, <2>3, FS_Subset, FS_CardinalityType
  <2> QED
    BY <1>1, <2>1, <2>3, <2>4 DEF RateInv, StartsCounted
<1> QED
  BY <1>3, <1>4, <1>5, <1>6 DEF Next

\* As many slots are due as there are intervals behind, and one.
LEMMA DueAtTheRate ==
  ASSUME RateInv, due # {}
  PROVE  interval * (Cardinality(due) - 1) <= now
<1> DEFINE q == now \div interval
<1>1. now \in Nat /\ interval \in Nat \ {0}
  BY GovernorAssumption DEF RateInv, IInv, TypeOK
<1>2. q \in Nat /\ interval * q <= now /\ now < interval * (q + 1)
  BY <1>1
<1> HIDE DEF q
<1>3. ASSUME NEW i \in due PROVE i \in 1..(q + 1)
  <2>1. i \in Nat \ {0} /\ interval * (i - 1) <= now
    BY <1>1 DEF due, RateInv, IInv, TypeOK, SlotsAbove
  <2>2. i - 1 \in Nat /\ interval * (i - 1) < interval * (q + 1)
    BY <1>1, <1>2, <2>1
  <2>3. i - 1 < q + 1
    BY <1>1, <1>2, <2>2
  <2> QED
    BY <1>2, <2>1, <2>3
<1>4. IsFiniteSet(1..(q + 1)) /\ Cardinality(1..(q + 1)) = q + 1
  BY <1>2, FS_Interval
<1>5. Cardinality(due) <= q + 1
  BY <1>3, <1>4, FS_Subset
<1>6. Cardinality(due) \in Nat
  BY FiniteCounts DEF RateInv, IInv
<1>7. interval * (Cardinality(due) - 1) <= interval * q
  BY <1>1, <1>2, <1>5, <1>6
<1> QED
  BY <1>1, <1>2, <1>6, <1>7

\* The aggregate rate, for any number of threads, any rate and any number of
\* leases: n leases take at least n - 1 intervals, overslept or interrupted ones
\* among them (_pace hands out the slots, lease starts the work).
THEOREM GovernorAverageRate == Spec => []AverageRate
<1>1. RateInv /\ Next => RateInv'
  BY TypeInductive, PermitsInductive, SlotsInductive, AboveInductive, SleepersInductive,
     CountInductive DEF RateInv, IInv
<1>2. RateInv /\ UNCHANGED vars => RateInv'
  BY DEF RateInv, IInv, TypeOK, PermitsConserved, holders, SlotsBelowNext, SlotsSpaced, NeverEarly,
         SlotsAbove, SleepersHaveSlots, StartsCounted, due, waiting, vars
<1>3. RateInv => AverageRate
  <2> SUFFICES ASSUME RateInv, starts # <<>> PROVE interval * (Len(starts) - 1) <= now
    BY DEF AverageRate
  <2> DEFINE n == Len(starts)
             d == Cardinality(due)
  <2>1. n \in Nat \ {0} /\ now \in Nat
    BY EmptySeq, LenProperties DEF RateInv, IInv, TypeOK
  <2>2. d \in Nat /\ n <= d
    BY <2>1, FiniteCounts DEF RateInv, IInv, StartsCounted
  <2>3. due # {}
    BY <2>1, <2>2, FS_EmptySet
  <2>4. interval * (d - 1) <= now
    BY <2>3, DueAtTheRate
  <2> HIDE DEF n, d
  <2>5. interval * (n - 1) <= interval * (d - 1)
    BY <2>1, <2>2, GovernorAssumption
  <2>6. interval * (n - 1) <= now
    BY <2>1, <2>2, <2>4, <2>5, GovernorAssumption
  <2> QED
    BY <2>6 DEF n
<1> QED
  BY InitRateInv, <1>1, <1>2, <1>3, PTL DEF Spec
=============================================================================
