---------------------------- MODULE RateGovernor ----------------------------
(***************************************************************************)
(* The process-global rate governor (kernel/rate.py): a semaphore caps how *)
(* many leases are held at once, and under a lock each lease is given the  *)
(* next slot of a pacing clock and told how long to sleep for it.          *)
(*                                                                         *)
(* The clock counts ticks; an interval (1 / requests_per_second) is a      *)
(* whole number of them.  A sleeper may oversleep.                         *)
(***************************************************************************)
EXTENDS Integers, Sequences, FiniteSets

CONSTANTS
  Threads,         \* callers of lease()
  max_concurrency,
  interval,        \* 1 / rps, in ticks
  MaxLeases,       \* bound: leases paced in one behaviour
  Horizon          \* bound: from then on the clock runs only for sleepers

ASSUME GovernorAssumption ==
  /\ IsFiniteSet(Threads)
  /\ max_concurrency \in Nat \ {0}
  /\ interval \in Nat \ {0}
  /\ MaxLeases \in Nat /\ Horizon \in Nat

VARIABLES
  now,        \* the monotonic clock
  sem,        \* permits left in the BoundedSemaphore
  next_free,  \* _next_free
  pc,         \* thread -> "idle", "acquired", "sleeping", "working"
  slot,       \* thread -> the time its lease is paced to
  slots,      \* history: every slot given, in order (Len is total_acquires)
  starts      \* history: when the work of each lease began, in order

vars == <<now, sem, next_free, pc, slot, slots, starts>>

Init ==
  /\ now = 0
  /\ sem = max_concurrency
  /\ next_free = 0
  /\ pc = [t \in Threads |-> "idle"]
  /\ slot = [t \in Threads |-> 0]
  /\ slots = <<>>
  /\ starts = <<>>

later(a, b) == IF a >= b THEN a ELSE b

\* Mutant: the slot is forgotten when the clock has not caught up.
next_slot_now == now

\* max(now, _next_free): the slot of the next lease.
next_slot == later(now, next_free)

\* Mutant: the semaphore does not block.
Acquire_unguarded(t) ==
  /\ pc[t] = "idle"
  /\ sem' = sem - 1
  /\ pc' = [pc EXCEPT ![t] = "acquired"]
  /\ UNCHANGED <<now, next_free, slot, slots, starts>>

\* lease(): a permit, or wait for one.
Acquire(t) ==
  /\ pc[t] = "idle"
  /\ sem > 0
  /\ sem' = sem - 1
  /\ pc' = [pc EXCEPT ![t] = "acquired"]
  /\ UNCHANGED <<now, next_free, slot, slots, starts>>

\* Mutant: pacing takes a second permit for as long as it lasts.
Pace_second_permit(t) ==
  /\ pc[t] = "acquired" /\ sem > 0 /\ Len(slots) < MaxLeases
  /\ slot' = [slot EXCEPT ![t] = next_slot]
  /\ next_free' = next_slot + interval
  /\ slots' = Append(slots, next_slot)
  /\ pc' = [pc EXCEPT ![t] = "sleeping"]
  /\ UNCHANGED <<now, sem, starts>>

\* _pace(), under the lock: read the clock, take the slot, move it on.
Pace(t) ==
  /\ pc[t] = "acquired"
  /\ Len(slots) < MaxLeases
  /\ slot' = [slot EXCEPT ![t] = next_slot]
  /\ next_free' = next_slot + interval
  /\ slots' = Append(slots, next_slot)
  /\ pc' = [pc EXCEPT ![t] = "sleeping"]
  /\ UNCHANGED <<now, sem, starts>>

\* Mutant: a sleeper may wake a tick early.
may_wake_early(t) == now + 1 >= slot[t]

may_wake(t) == now >= slot[t]

\* Mutant: the sleeper needs a second permit to go on.
Wake_second_permit(t) ==
  /\ pc[t] = "sleeping" /\ may_wake(t) /\ sem > 0
  /\ pc' = [pc EXCEPT ![t] = "working"]
  /\ starts' = Append(starts, now)
  /\ UNCHANGED <<now, sem, next_free, slot, slots>>

\* The sleep is over (or there was none) and the caller's work begins.
Wake(t) ==
  /\ pc[t] = "sleeping"
  /\ may_wake(t)
  /\ pc' = [pc EXCEPT ![t] = "working"]
  /\ starts' = Append(starts, now)
  /\ UNCHANGED <<now, sem, next_free, slot, slots>>

release(t) ==
  /\ pc' = [pc EXCEPT ![t] = "idle"]
  /\ sem' = sem + 1
  /\ UNCHANGED <<now, next_free, slot, slots, starts>>

\* The caller's work ends or raises: the permit goes back either way.
Release(t) == pc[t] = "working" /\ release(t)

\* Mutant: an interrupted sleeper keeps its permit.
Interrupt_keeps(t) ==
  /\ pc[t] \in {"acquired", "sleeping"}
  /\ pc' = [pc EXCEPT ![t] = "idle"]
  /\ UNCHANGED <<now, sem, next_free, slot, slots, starts>>

\* Ctrl-C before the work began: the finally clause gives the permit back,
\* a slot already taken is not.
Interrupt(t) == pc[t] \in {"acquired", "sleeping"} /\ release(t)

Tick ==
  /\ now < Horizon \/ \E t \in Threads : pc[t] = "sleeping" /\ ~may_wake(t)
  /\ now' = now + 1
  /\ UNCHANGED <<sem, next_free, pc, slot, slots, starts>>

Next == Tick \/ \E t \in Threads : Acquire(t) \/ Pace(t) \/ Wake(t) \/ Release(t) \/ Interrupt(t)

Spec == Init /\ [][Next]_vars

\* Time passes, a sleep ends, and a caller's work (each call has a timeout)
\* ends.  Nothing makes a caller ask for a lease.
FairSpec ==
  /\ Spec
  /\ WF_vars(Tick)
  /\ \A t \in Threads : WF_vars(Pace(t)) /\ WF_vars(Wake(t)) /\ WF_vars(Release(t))

----------------------------------------------------------------------------
holders == {t \in Threads : pc[t] # "idle"}

\* Clock, semaphore, slots and histories have their types.
TypeOK ==
  /\ now \in Nat /\ sem \in Nat /\ next_free \in Nat
  /\ pc \in [Threads -> {"idle", "acquired", "sleeping", "working"}]
  /\ slot \in [Threads -> Nat]
  /\ slots \in Seq(Nat) /\ starts \in Seq(Nat)

\* No permit is lost or made up, whatever raises where: the permits left and
\* the leases held always add up to max_concurrency, so no more than that are
\* ever held and the semaphore can always be refilled.
PermitsConserved == sem + Cardinality(holders) = max_concurrency

\* No two leases share an interval: slots are given in order, each at least
\* an interval after the one before, however threads interleave.
SlotsSpaced == \A i, j \in DOMAIN slots : i < j => slots[j] >= slots[i] + interval

\* Work never begins before its slot.
NeverEarly == \A t \in Threads : pc[t] = "working" => slot[t] <= now

\* The aggregate rate over the governor's whole life: n leases take at least
\* n - 1 intervals, however many threads ask.
AverageRate == starts # <<>> => interval * (Len(starts) - 1) <= now

\* A caller that sleeps for its slot gets to work, or is interrupted, whatever
\* the others hold.
PacedCallerProceeds ==
  \A t \in Threads : (pc[t] = "sleeping") ~> (pc[t] # "sleeping")

\* Every lease ends: whoever holds a permit, at the pacing lock, asleep or at
\* work, gives it back in the end, so the pool never stays dry (lease's finally).
\* Left out is a caller at the lock when the bound has no leases left.
PermitsReturn ==
  \A t \in Threads :
    (pc[t] # "idle") ~> (pc[t] = "idle" \/ (pc[t] = "acquired" /\ Len(slots) = MaxLeases))
=============================================================================
