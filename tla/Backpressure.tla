---------------------------- MODULE Backpressure ----------------------------
(***************************************************************************)
(* BackpressureController and BackpressureGuard (src/backpressure.rs), the *)
(* counter of pending frames that the crate offers to its users.  Several  *)
(* tasks share it: each reserves a slot, holds it under a guard, and gives *)
(* it back or, having disarmed the guard, leaves that to a releaser such   *)
(* as a writer task, which gives back whole batches.                       *)
(*                                                                         *)
(* Loads and fetch_adds are steps of their own.  The counter is a usize:   *)
(* it wraps at Width.                                                      *)
(***************************************************************************)
EXTENDS Integers, FiniteSets

CONSTANTS
  Tasks,        \* the users of clones of one controller
  MaxPending,   \* max_pending
  Width,        \* the number of values of usize
  MaxReserves,  \* bound of the model: reservations per task
  MaxResets     \* bound of the model: calls of reset

ASSUME BackpressureAssumption ==
  /\ IsFiniteSet(Tasks)
  /\ MaxPending \in Nat
  /\ MaxReserves \in Nat
  /\ MaxResets \in Nat
  /\ Width \in Nat /\ Width > MaxPending + Cardinality(Tasks)

VARIABLES
  pending,   \* Arc<AtomicUsize>
  task,      \* where each task is
  reserves,  \* how many reservations each task has begun
  released,  \* BackpressureGuard::released of the guard each task holds
  handed,    \* slots whose guard was disarmed: the releaser gives them back
  resets,    \* how often reset() was called
  forgotten  \* history: slots that were in use when reset() forgot them

vars == <<pending, task, reserves, released, handed, resets, forgotten>>

\* "waiting"  in wait_and_reserve
\* "admitted" saw pending < max_pending and will increment it
\* "holding"  owns a guard
\* "dropping" the guard's destructor is to run
TaskStates == {"idle", "waiting", "admitted", "holding", "dropping"}

Admitted == {t \in Tasks : task[t] = "admitted"}

\* The tasks whose guard still has a slot to give back.
Owing == {t \in Tasks : task[t] \in {"holding", "dropping"} /\ ~released[t]}

\* BackpressureController::new, with_timeout and clone share one counter.
Init ==
  /\ pending = 0
  /\ task = [t \in Tasks |-> "idle"]
  /\ reserves = [t \in Tasks |-> 0]
  /\ released = [t \in Tasks |-> FALSE]
  /\ handed = 0
  /\ resets = 0
  /\ forgotten = 0

Goto(t, s) == task' = [task EXCEPT ![t] = s]

-----------------------------------------------------------------------------
(* BackpressureController                                                  *)

can_accept == pending < MaxPending

\* try_reserve: the load, and the refusal at the limit
TryReserve(t) ==
  /\ task[t] = "idle"
  /\ reserves[t] < MaxReserves
  /\ reserves' = [reserves EXCEPT ![t] = @ + 1]
  /\ Goto(t, IF can_accept THEN "admitted" ELSE "idle")
  /\ UNCHANGED <<pending, released, handed, resets, forgotten>>

\* reserve: the load of the fast path, else the slow path
Reserve(t) ==
  /\ task[t] = "idle"
  /\ reserves[t] < MaxReserves
  /\ reserves' = [reserves EXCEPT ![t] = @ + 1]
  /\ Goto(t, IF can_accept THEN "admitted" ELSE "waiting")
  /\ UNCHANGED <<pending, released, handed, resets, forgotten>>

\* Mutant of WaitAndReserve: no timeout.
WaitForEver(t) ==
  /\ task[t] = "waiting"
  /\ can_accept
  /\ Goto(t, "admitted")
  /\ UNCHANGED <<pending, reserves, released, handed, resets, forgotten>>

\* Mutant of WaitAndReserve: the wake-up is taken for room.
WaitOnce(t) ==
  /\ task[t] = "waiting"
  /\ Goto(t, "admitted")
  /\ UNCHANGED <<pending, reserves, released, handed, resets, forgotten>>

\* One turn of wait_and_reserve: the counter first, then the clock, which may
\* have run out.
WaitAndReserve(t) ==
  /\ task[t] = "waiting"
  /\ Goto(t, IF can_accept THEN "admitted" ELSE "idle")
  /\ UNCHANGED <<pending, reserves, released, handed, resets, forgotten>>

\* The future of reserve() is dropped while it sleeps.
DropFuture(t) ==
  /\ task[t] = "waiting"
  /\ Goto(t, "idle")
  /\ UNCHANGED <<pending, reserves, released, handed, resets, forgotten>>

\* fetch_add(1), and BackpressureGuard::new around the slot
Take(t) ==
  /\ task[t] = "admitted"
  /\ pending' = (pending + 1) % Width
  /\ released' = [released EXCEPT ![t] = FALSE]
  /\ Goto(t, "holding")
  /\ UNCHANGED <<reserves, handed, resets, forgotten>>

\* fetch_sub(n) of release and release_many
Subtract(n) == pending' = (pending - n) % Width

\* Mutant of ReleaseMany: only whole batches are given back.
ReleaseBatches(n) ==
  /\ n \in 2..handed
  /\ Subtract(n)
  /\ handed' = handed - n
  /\ UNCHANGED <<task, reserves, released, resets, forgotten>>

\* release (n = 1) and release_many, for slots that are the releaser's to return
ReleaseMany(n) ==
  /\ n \in 1..handed
  /\ Subtract(n)
  /\ handed' = handed - n
  /\ UNCHANGED <<task, reserves, released, resets, forgotten>>

\* reset stores 0 whoever still holds a slot.
Reset ==
  /\ resets < MaxResets
  /\ resets' = resets + 1
  /\ pending' = 0
  /\ forgotten' = handed + Cardinality(Owing)
  /\ UNCHANGED <<task, reserves, released, handed>>

-----------------------------------------------------------------------------
(* BackpressureGuard                                                       *)

\* release(self): gives the slot back unless disarmed; self is then dropped
GuardRelease(t) ==
  /\ task[t] = "holding"
  /\ IF released[t] THEN UNCHANGED pending ELSE Subtract(1)
  /\ released' = [released EXCEPT ![t] = TRUE]
  /\ Goto(t, "dropping")
  /\ UNCHANGED <<reserves, handed, resets, forgotten>>

\* disarm: the slot is left to the releaser
Disarm(t) ==
  /\ task[t] = "holding"
  /\ ~released[t]
  /\ released' = [released EXCEPT ![t] = TRUE]
  /\ handed' = handed + 1
  /\ UNCHANGED <<pending, task, reserves, resets, forgotten>>

\* The guard goes out of scope, on return or by unwinding.
GuardLeaves(t) ==
  /\ task[t] = "holding"
  /\ Goto(t, "dropping")
  /\ UNCHANGED <<pending, reserves, released, handed, resets, forgotten>>

\* Mutant of GuardDrop: the destructor does not look at the flag.
GuardDropAlways(t) ==
  /\ task[t] = "dropping"
  /\ Subtract(1)
  /\ Goto(t, "idle")
  /\ UNCHANGED <<reserves, released, handed, resets, forgotten>>

\* Drop::drop
GuardDrop(t) ==
  /\ task[t] = "dropping"
  /\ IF released[t] THEN UNCHANGED pending ELSE Subtract(1)
  /\ Goto(t, "idle")
  /\ UNCHANGED <<reserves, released, handed, resets, forgotten>>

-----------------------------------------------------------------------------
TaskStep(t) ==
  \/ TryReserve(t)
  \/ Reserve(t)
  \/ WaitAndReserve(t)
  \/ DropFuture(t)
  \/ Take(t)
  \/ GuardRelease(t)
  \/ Disarm(t)
  \/ GuardLeaves(t)
  \/ GuardDrop(t)

ReleaserStep == \E n \in 1..handed : ReleaseMany(n)

\* Every task has made its reservations and every slot was given back.
Finished ==
  /\ \A t \in Tasks : task[t] = "idle" /\ reserves[t] = MaxReserves
  /\ handed = 0
  /\ resets = MaxResets
  /\ UNCHANGED vars

Next == (\E t \in Tasks : TaskStep(t)) \/ ReleaserStep \/ Reset \/ Finished

Spec == Init /\ [][Next]_vars

\* The runtime polls a woken task, guards leave their scope and destructors
\* run, and the releaser does its work.  Nobody has to reserve or to reset.
Fairness ==
  /\ \A t \in Tasks :
       /\ WF_vars(WaitAndReserve(t) \/ Take(t) \/ GuardDrop(t))
       /\ WF_vars(GuardRelease(t) \/ GuardLeaves(t))
  /\ WF_vars(ReleaserStep)

FairSpec == Spec /\ Fairness
-----------------------------------------------------------------------------
(* Properties                                                              *)

\* Each slot is given back once, by its guard or by the releaser and never by
\* both: the counter is the number of slots in use, less those that a reset
\* forgot and that their owners return nevertheless, which is what wraps it.
CounterExact ==
  pending = (handed + Cardinality(Owing) - forgotten) % Width

\* The load and the fetch_add are two steps, so the limit can be overrun, but by
\* at most one slot for each other task.  A reset under slots in use takes the
\* bound away with the count.
LimitOverrun ==
  LET claims == pending + Cardinality(Admitted)
  IN  forgotten = 0 /\ claims > 0 => claims < MaxPending + Cardinality(Tasks)

\* Every reservation ends, also if the counter has wrapped and stays above the
\* limit for ever.
ReservationEnds ==
  \A t \in Tasks : task[t] \in {"waiting", "admitted"}
                     ~> task[t] \notin {"waiting", "admitted"}

\* Once no more slots are asked for, all of them come back, whichever of
\* release, drop, disarm and release_many each of them took: a controller that
\* was reset only while no slot was in use ends at zero.
SlotsReturn == <>[](forgotten = 0 => pending = 0)
=============================================================================
