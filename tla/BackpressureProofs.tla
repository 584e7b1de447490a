------------------------- MODULE BackpressureProofs -------------------------
(***************************************************************************)
(* Proofs about Backpressure, for any number of tasks, any limit and any   *)
(* width of the counter that has room for the limit and its overrun.       *)
(*                                                                         *)
(* CounterExact carries itself through the wrapping arithmetic, but the    *)
(* bound on the overrun does not: a task is admitted on the value of the   *)
(* counter, so one must know that the value is the number of slots in use. *)
(* That holds as long as those are fewer than Width, which is what the     *)
(* bound says.  The two are proved together, over the exact number of      *)
(* claims in place of the counter.                                         *)
(***************************************************************************)
EXTENDS Backpressure, FiniteSetTheorems, TLAPS

Types ==
  /\ pending \in 0..(Width - 1)
  /\ task \in [Tasks -> TaskStates]
  /\ reserves \in [Tasks -> Nat]
  /\ released \in [Tasks -> BOOLEAN]
  /\ handed \in Nat
  /\ resets \in Nat
  /\ forgotten \in Nat

\* The slots in use, and with them those that admitted tasks will take.
InUse == handed + Cardinality(Owing)
Claims == InUse + Cardinality(Admitted)

\* Unless a reset forgot slots, the limit is overrun by less than a slot per task.
ClaimsBounded ==
  forgotten = 0 /\ Claims > 0 => Claims < MaxPending + Cardinality(Tasks)

\* A limit of 0 admits nobody, not even after a reset.
NobodyAdmitted == MaxPending = 0 => Cardinality(Admitted) = 0

IndInv == Types /\ CounterExact /\ ClaimsBounded /\ NobodyAdmitted

-----------------------------------------------------------------------------
(* Arithmetic modulo the width of the counter                              *)

\* Quotient and remainder.
LEMMA Division ==
  ASSUME NEW w \in Nat, w > 0, NEW a \in Int
  PROVE  /\ a = w * (a \div w) + (a % w)
         /\ a \div w \in Int /\ a % w \in 0..(w - 1)
OBVIOUS

\* The only multiple of w that is smaller than w in size is 0.
LEMMA SmallMultiple ==
  ASSUME NEW w \in Nat, w > 0, NEW m \in Int, w * m < w, -w < w * m
  PROVE  m = 0
<1>1. CASE m >= 1
  <2>1. w * m = w + w * (m - 1) /\ w * (m - 1) >= 0
    BY <1>1
  <2> QED
    BY <2>1
<1>2. CASE m <= -1
  <2>1. w * m = -w - w * (-1 - m) /\ w * (-1 - m) >= 0
    BY <1>2
  <2> QED
    BY <2>1
<1> QED
  BY <1>1, <1>2

\* Adding to a wrapped value wraps to the same as adding to the value itself.
LEMMA WrappedSum ==
  ASSUME NEW w \in Nat, w > 0, NEW a \in Int, NEW d \in Int
  PROVE  ((a % w) + d) % w = (a + d) % w
<1>1. PICK q \in Int, r \in 0..(w - 1) : a = w * q + r /\ r = a % w
  BY Division
<1>2. PICK p \in Int, s \in 0..(w - 1) : r + d = w * p + s /\ s = (r + d) % w
  BY Division
<1>3. PICK u \in Int, v \in 0..(w - 1) : a + d = w * u + v /\ v = (a + d) % w
  BY Division
<1>4. w * (q + p - u) = v - s
  <2>1. w * (q + p - u) = w * q + w * p - w * u
    OBVIOUS
  <2> QED
    BY <1>1, <1>2, <1>3, <2>1
<1>5. q + p - u = 0
  BY <1>4, SmallMultiple
<1>6. v = s
  BY <1>4, <1>5
<1> QED
  BY <1>1, <1>2, <1>3, <1>6

-----------------------------------------------------------------------------
(* Counting the tasks                                                      *)

\* Subsets of the tasks can be counted.
LEMMA TasksCount ==
  ASSUME NEW T \in SUBSET Tasks
  PROVE  /\ IsFiniteSet(T) /\ Cardinality(T) \in Nat
         /\ Cardinality(T) <= Cardinality(Tasks) /\ Cardinality(Tasks) \in Nat
BY BackpressureAssumption, FS_Subset, FS_CardinalityType DEF BackpressureAssumption

\* Two sets that agree on all tasks but t differ by at most one in size.
LEMMA OneDiffers ==
  ASSUME NEW T \in SUBSET Tasks, NEW U \in SUBSET Tasks, NEW t \in Tasks,
         \A x \in Tasks : x # t => (x \in T <=> x \in U)
  PROVE  Cardinality(U) = Cardinality(T) + (IF t \in U THEN 1 ELSE 0)
                                         - (IF t \in T THEN 1 ELSE 0)
<1>0. IsFiniteSet(T) /\ Cardinality(T) \in Nat
  BY TasksCount
<1>1. CASE (t \in T) = (t \in U)
  <2>1. T = U
    BY <1>1
  <2> QED
    BY <1>0, <1>1, <2>1
<1>2. CASE t \in U /\ t \notin T
  <2>1. U = T \cup {t}
    BY <1>2
  <2>2. Cardinality(T \cup {t}) = Cardinality(T) + 1
    BY <1>0, <1>2, FS_AddElement
  <2> QED
    BY <1>0, <1>2, <2>1, <2>2
<1>3. CASE t \notin U /\ t \in T
  <2>1. U = T \ {t}
    BY <1>3
  <2>2. Cardinality(T \ {t}) = Cardinality(T) - 1
    BY <1>0, <1>3, FS_RemoveElement
  <2> QED
    BY <1>0, <1>3, <2>1, <2>2
<1> QED
  BY <1>1, <1>2, <1>3

\* Task t goes to state q with its guard's flag at b.
Moves(t, q, b) ==
  /\ Types
  /\ task' = [task EXCEPT ![t] = q]
  /\ released' = [released EXCEPT ![t] = b]

\* Whether a task in state q with flag b has a slot to give back.
Owes(q, b) == q \in {"holding", "dropping"} /\ ~b

\* What a move does to the counts.
LEMMA MovedCounts ==
  ASSUME NEW t \in Tasks, NEW q \in TaskStates, NEW b \in BOOLEAN, Moves(t, q, b)
  PROVE  /\ Cardinality(Owing') =
              Cardinality(Owing) + (IF Owes(q, b) THEN 1 ELSE 0)
                - (IF Owes(task[t], released[t]) THEN 1 ELSE 0)
         /\ Cardinality(Admitted') =
              Cardinality(Admitted) + (IF q = "admitted" THEN 1 ELSE 0)
                - (IF task[t] = "admitted" THEN 1 ELSE 0)
         /\ Cardinality(Admitted') <= Cardinality(Tasks)
         /\ Cardinality(Owing) \in Nat /\ Cardinality(Owing') \in Nat
         /\ Cardinality(Admitted) \in Nat /\ Cardinality(Admitted') \in Nat
         /\ Cardinality(Tasks) \in Nat
         /\ task' \in [Tasks -> TaskStates] /\ released' \in [Tasks -> BOOLEAN]
<1>1. /\ Owing \in SUBSET Tasks /\ Owing' \in SUBSET Tasks
      /\ \A x \in Tasks : x # t => (x \in Owing <=> x \in Owing')
      /\ t \in Owing' <=> Owes(q, b)
      /\ t \in Owing <=> Owes(task[t], released[t])
  BY DEF Owing, Owes, Moves, Types
<1>2. /\ Admitted \in SUBSET Tasks /\ Admitted' \in SUBSET Tasks
      /\ \A x \in Tasks : x # t => (x \in Admitted <=> x \in Admitted')
      /\ t \in Admitted' <=> q = "admitted"
      /\ t \in Admitted <=> task[t] = "admitted"
  BY DEF Admitted, Moves, Types
<1>3. task' \in [Tasks -> TaskStates] /\ released' \in [Tasks -> BOOLEAN]
  BY DEF Moves, Types
<1>4. Cardinality(Owing') = Cardinality(Owing) + (IF t \in Owing' THEN 1 ELSE 0)
                                               - (IF t \in Owing THEN 1 ELSE 0)
  BY <1>1, OneDiffers
<1>5. Cardinality(Admitted') =
        Cardinality(Admitted) + (IF t \in Admitted' THEN 1 ELSE 0)
                              - (IF t \in Admitted THEN 1 ELSE 0)
  BY <1>2, OneDiffers
<1>6. /\ Cardinality(Owing) \in Nat /\ Cardinality(Owing') \in Nat
      /\ Cardinality(Admitted) \in Nat /\ Cardinality(Admitted') \in Nat
      /\ Cardinality(Tasks) \in Nat
      /\ Cardinality(Admitted') <= Cardinality(Tasks)
  BY <1>1, <1>2, TasksCount
<1> QED
  BY <1>1, <1>2, <1>3, <1>4, <1>5, <1>6

\* The counts and the constants are naturals.
LEMMA CountsNat ==
  /\ Cardinality(Owing) \in Nat /\ Cardinality(Admitted) \in Nat
  /\ Cardinality(Tasks) \in Nat /\ Cardinality(Admitted) <= Cardinality(Tasks)
  /\ MaxPending \in Nat /\ Width \in Nat /\ Width > 0
  /\ Width > MaxPending + Cardinality(Tasks)
<1>1. Owing \in SUBSET Tasks /\ Admitted \in SUBSET Tasks
  BY DEF Owing, Admitted
<1> QED
  BY <1>1, TasksCount, BackpressureAssumption DEF BackpressureAssumption

-----------------------------------------------------------------------------
(* The inductive invariant                                                 *)

\* While no slot was forgotten the counter does not wrap: it is the number of
\* slots in use.
LEMMA CounterIsInUse ==
  ASSUME IndInv, forgotten = 0
  PROVE  pending = InUse
<1> USE CountsNat
<1>1. InUse \in 0..(Width - 1)
  BY DEF IndInv, Types, ClaimsBounded, Claims, InUse
<1>2. pending = InUse % Width
  BY DEF IndInv, Types, CounterExact, InUse
<1> QED
  BY <1>1, <1>2

\* A step that moves the counter and the slots in use by the same d keeps the
\* counter exact.
LEMMA CounterMoves ==
  ASSUME IndInv, NEW d \in Int, pending' = (pending + d) % Width,
         handed' \in Nat, Cardinality(Owing') \in Nat,
         InUse' = InUse + d, forgotten' = forgotten
  PROVE  CounterExact' /\ pending' \in 0..(Width - 1)
<1> USE CountsNat
<1>1. InUse - forgotten \in Int /\ InUse' - forgotten' = (InUse - forgotten) + d
  BY DEF IndInv, Types, InUse
<1>2. pending = (InUse - forgotten) % Width
  BY DEF IndInv, Types, CounterExact, InUse
<1>3. pending' = ((InUse - forgotten) + d) % Width
  BY <1>1, <1>2, WrappedSum
<1>4. pending' = (InUse' - forgotten') % Width
  BY <1>1, <1>3
<1>5. CounterExact'
  BY <1>4 DEF CounterExact, InUse, IndInv, Types
<1>6. pending' \in 0..(Width - 1)
  BY <1>1, <1>3, Division
<1> QED
  BY <1>5, <1>6

\* So does a step that moves neither.
LEMMA CounterStays ==
  ASSUME IndInv, pending' = pending, handed' \in Nat, Cardinality(Owing') \in Nat,
         InUse' = InUse, forgotten' = forgotten
  PROVE  CounterExact' /\ pending' \in 0..(Width - 1)
<1> USE CountsNat
<1>1. pending \in 0..(Width - 1)
  BY DEF IndInv, Types
<1>2. pending' = (pending + 0) % Width
  BY <1>1
<1>3. InUse' = InUse + 0
  BY DEF InUse, IndInv, Types
<1> QED
  BY <1>2, <1>3, CounterMoves

\* A step after which nobody claims more than before keeps the bounds.
LEMMA ClaimsFall ==
  ASSUME IndInv, forgotten' = forgotten, Claims \in Nat, Claims' \in Nat,
         Claims' <= Claims, Cardinality(Admitted') \in Nat,
         Cardinality(Admitted') <= Cardinality(Admitted)
  PROVE  ClaimsBounded' /\ NobodyAdmitted'
BY CountsNat DEF IndInv, ClaimsBounded, NobodyAdmitted

\* The first state.
LEMMA InitInd == Init => IndInv
<1> SUFFICES ASSUME Init PROVE IndInv
  OBVIOUS
<1> USE CountsNat
<1>1. Owing = {} /\ Admitted = {}
  BY DEF Init, Owing, Admitted
<1>2. Cardinality(Owing) = 0 /\ Cardinality(Admitted) = 0
  BY <1>1, FS_EmptySet
<1>3. Types
  BY DEF Init, Types, TaskStates
<1>4. CounterExact /\ ClaimsBounded /\ NobodyAdmitted
  BY <1>2 DEF Init, CounterExact, ClaimsBounded, NobodyAdmitted, Claims, InUse
<1> QED
  BY <1>3, <1>4 DEF IndInv

\* A task that is refused, waits, gives up or loses its guard to the destructor
\* moves no slot.
LEMMA Quiet ==
  ASSUME IndInv, NEW t \in Tasks, NEW q \in TaskStates, NEW b \in BOOLEAN,
         Moves(t, q, b), q # "admitted", task[t] # "admitted",
         Owes(q, b) <=> Owes(task[t], released[t]),
         UNCHANGED <<pending, handed, resets, forgotten>>,
         reserves' \in [Tasks -> Nat]
  PROVE  IndInv'
<1> USE CountsNat
<1>1. /\ Cardinality(Owing') = Cardinality(Owing)
      /\ Cardinality(Admitted') = Cardinality(Admitted)
      /\ task' \in [Tasks -> TaskStates] /\ released' \in [Tasks -> BOOLEAN]
  BY MovedCounts
<1>2. InUse' = InUse /\ Claims' = Claims /\ Claims \in Nat /\ handed' \in Nat
  BY <1>1 DEF InUse, Claims, IndInv, Types
<1>3. CounterExact' /\ pending' \in 0..(Width - 1)
  BY <1>1, <1>2, CounterStays
<1>4. ClaimsBounded' /\ NobodyAdmitted'
  BY <1>1, <1>2, ClaimsFall
<1>5. Types'
  BY <1>1, <1>3 DEF IndInv, Types
<1> QED
  BY <1>3, <1>4, <1>5 DEF IndInv

\* A task that sees room is admitted: the counter it saw was below the limit, and
\* it and the others that were admitted are at most all tasks.
LEMMA Admit ==
  ASSUME IndInv, NEW t \in Tasks, NEW b \in BOOLEAN, Moves(t, "admitted", b),
         can_accept, task[t] \in {"idle", "waiting"},
         UNCHANGED <<pending, handed, resets, forgotten>>,
         reserves' \in [Tasks -> Nat]
  PROVE  IndInv'
<1> USE CountsNat
<1>0. "admitted" \in TaskStates /\ ~Owes("admitted", b) /\ ~Owes(task[t], released[t])
  BY DEF TaskStates, Owes
<1>1. /\ Cardinality(Owing') = Cardinality(Owing)
      /\ Cardinality(Admitted') <= Cardinality(Tasks)
      /\ Cardinality(Admitted') \in Nat
      /\ task' \in [Tasks -> TaskStates] /\ released' \in [Tasks -> BOOLEAN]
  BY <1>0, MovedCounts
<1>2. InUse' = InUse /\ InUse \in Nat /\ handed' \in Nat
  BY <1>1 DEF InUse, IndInv, Types
<1>3. CounterExact' /\ pending' \in 0..(Width - 1)
  BY <1>1, <1>2, CounterStays
<1>4. pending < MaxPending /\ MaxPending # 0
  BY DEF can_accept, IndInv, Types
<1>5. ASSUME forgotten' = 0 PROVE Claims' < MaxPending + Cardinality(Tasks)
  <2>1. InUse' < MaxPending
    BY <1>2, <1>4, <1>5, CounterIsInUse
  <2> QED
    BY <1>1, <1>2, <2>1 DEF Claims
<1>6. ClaimsBounded' /\ NobodyAdmitted'
  BY <1>4, <1>5 DEF ClaimsBounded, NobodyAdmitted
<1>7. Types'
  BY <1>1, <1>3 DEF IndInv, Types
<1> QED
  BY <1>3, <1>6, <1>7 DEF IndInv

\* fetch_add: the claim becomes a slot in use.
LEMMA TakeInd ==
  ASSUME IndInv, NEW t \in Tasks, Take(t)
  PROVE  IndInv'
<1> USE CountsNat
<1>0. PICK b \in BOOLEAN :
         /\ Moves(t, "holding", b) /\ "holding" \in TaskStates
         /\ task[t] = "admitted" /\ Owes("holding", b)
         /\ ~Owes(task[t], released[t])
         /\ pending' = (pending + 1) % Width
         /\ UNCHANGED <<reserves, handed, resets, forgotten>>
  BY DEF Take, Goto, Moves, IndInv, TaskStates, Owes
<1>1. /\ Cardinality(Owing') = Cardinality(Owing) + 1
      /\ Cardinality(Admitted') = Cardinality(Admitted) - 1
      /\ Cardinality(Admitted') \in Nat
      /\ task' \in [Tasks -> TaskStates] /\ released' \in [Tasks -> BOOLEAN]
  BY <1>0, MovedCounts
<1>2. InUse' = InUse + 1 /\ Claims' = Claims /\ Claims \in Nat /\ handed' \in Nat
  BY <1>0, <1>1 DEF InUse, Claims, IndInv, Types
<1>3. CounterExact' /\ pending' \in 0..(Width - 1)
  BY <1>0, <1>1, <1>2, CounterMoves
<1>4. ClaimsBounded' /\ NobodyAdmitted'
  BY <1>0, <1>1, <1>2, ClaimsFall
<1>5. Types'
  BY <1>0, <1>1, <1>3 DEF IndInv, Types
<1> QED
  BY <1>3, <1>4, <1>5 DEF IndInv

\* A guard that has not released its slot does so, by release or by drop.
LEMMA GiveBack ==
  ASSUME IndInv, NEW t \in Tasks, NEW q \in {"idle", "dropping"},
         NEW b \in BOOLEAN, Moves(t, q, b), ~Owes(q, b),
         Owes(task[t], released[t]), Subtract(1),
         UNCHANGED <<reserves, handed, resets, forgotten>>
  PROVE  IndInv'
<1> USE CountsNat
<1>0. q \in TaskStates /\ q # "admitted" /\ task[t] # "admitted"
  BY DEF TaskStates, Owes
<1>1. /\ Cardinality(Owing') = Cardinality(Owing) - 1
      /\ Cardinality(Owing') \in Nat
      /\ Cardinality(Admitted') = Cardinality(Admitted)
      /\ task' \in [Tasks -> TaskStates] /\ released' \in [Tasks -> BOOLEAN]
  BY <1>0, MovedCounts
<1>2. /\ InUse' = InUse + (-1) /\ Claims' <= Claims
      /\ Claims \in Nat /\ Claims' \in Nat /\ handed' \in Nat
  BY <1>1 DEF InUse, Claims, IndInv, Types
<1>3. pending' = (pending + (-1)) % Width
  BY DEF Subtract, IndInv, Types
<1>4. CounterExact' /\ pending' \in 0..(Width - 1)
  BY <1>1, <1>2, <1>3, CounterMoves
<1>5. ClaimsBounded' /\ NobodyAdmitted'
  BY <1>1, <1>2, ClaimsFall
<1>6. Types'
  BY <1>1, <1>4 DEF IndInv, Types
<1> QED
  BY <1>4, <1>5, <1>6 DEF IndInv

\* disarm: the slot changes hands.
LEMMA DisarmInd ==
  ASSUME IndInv, NEW t \in Tasks, Disarm(t)
  PROVE  IndInv'
<1> USE CountsNat
<1>0. PICK b \in BOOLEAN :
         /\ Moves(t, "holding", b) /\ "holding" \in TaskStates
         /\ task[t] = "holding" /\ ~Owes("holding", b)
         /\ Owes(task[t], released[t])
         /\ handed' = handed + 1
         /\ UNCHANGED <<pending, reserves, resets, forgotten>>
  BY DEF Disarm, Moves, IndInv, Types, TaskStates, Owes
<1>1. /\ Cardinality(Owing') = Cardinality(Owing) - 1
      /\ Cardinality(Owing') \in Nat
      /\ Cardinality(Admitted') = Cardinality(Admitted)
      /\ task' \in [Tasks -> TaskStates] /\ released' \in [Tasks -> BOOLEAN]
  BY <1>0, MovedCounts
<1>2. InUse' = InUse /\ Claims' = Claims /\ Claims \in Nat /\ handed' \in Nat
  BY <1>0, <1>1 DEF InUse, Claims, IndInv, Types
<1>3. CounterExact' /\ pending' \in 0..(Width - 1)
  BY <1>0, <1>1, <1>2, CounterStays
<1>4. ClaimsBounded' /\ NobodyAdmitted'
  BY <1>0, <1>1, <1>2, ClaimsFall
<1>5. Types'
  BY <1>0, <1>1, <1>3 DEF IndInv, Types
<1> QED
  BY <1>3, <1>4, <1>5 DEF IndInv

\* Every step of a task preserves the invariant.
LEMMA TaskInd ==
  ASSUME IndInv, NEW t \in Tasks, TaskStep(t)
  PROVE  IndInv'
<1>0. /\ Types /\ released[t] \in BOOLEAN
      /\ task[t] \in TaskStates
      /\ released = [released EXCEPT ![t] = released[t]]
  BY DEF IndInv, Types
<1>1. CASE TryReserve(t) \/ Reserve(t) \/ WaitAndReserve(t) \/ DropFuture(t)
  <2>1. /\ UNCHANGED <<pending, handed, resets, forgotten>>
        /\ reserves' \in [Tasks -> Nat] /\ released' = released
        /\ task[t] \in {"idle", "waiting"}
    BY <1>0, <1>1 DEF TryReserve, Reserve, WaitAndReserve, DropFuture, Types
  <2>2. CASE Goto(t, "admitted") /\ can_accept
    <3>1. Moves(t, "admitted", released[t])
      BY <1>0, <2>1, <2>2 DEF Moves, Goto
    <3> QED
      BY <1>0, <2>1, <2>2, <3>1, Admit
  <2>3. ASSUME NEW q \in {"idle", "waiting"}, Goto(t, q) PROVE IndInv'
    <3>1. Moves(t, q, released[t]) /\ q \in TaskStates
      BY <1>0, <2>1, <2>3 DEF Moves, Goto, TaskStates
    <3>2. q # "admitted" /\ ~Owes(q, released[t]) /\ ~Owes(task[t], released[t])
      BY <2>1, <2>3 DEF Owes
    <3> QED
      BY <1>0, <2>1, <3>1, <3>2, Quiet
  <2> QED
    BY <1>1, <2>2, <2>3 DEF TryReserve, Reserve, WaitAndReserve, DropFuture
<1>2. CASE GuardLeaves(t)
  <2>1. Moves(t, "dropping", released[t]) /\ "dropping" \in TaskStates
    BY <1>0, <1>2 DEF GuardLeaves, Moves, Goto, TaskStates
  <2>2. /\ UNCHANGED <<pending, handed, resets, forgotten>>
        /\ reserves' \in [Tasks -> Nat]
        /\ task[t] # "admitted"
        /\ Owes("dropping", released[t]) <=> Owes(task[t], released[t])
    BY <1>0, <1>2 DEF GuardLeaves, Types, Owes
  <2> QED
    BY <1>0, <2>1, <2>2, Quiet
<1>3. ASSUME NEW q \in {"idle", "dropping"}, NEW b \in BOOLEAN, Moves(t, q, b),
             ~Owes(q, b), task[t] \in {"holding", "dropping"},
             IF released[t] THEN UNCHANGED pending ELSE Subtract(1),
             UNCHANGED <<reserves, handed, resets, forgotten>>
      PROVE  IndInv'
  <2>1. CASE released[t]
    <3>1. /\ q \in TaskStates /\ q # "admitted" /\ task[t] # "admitted"
          /\ ~Owes(task[t], released[t])
          /\ reserves' \in [Tasks -> Nat] /\ pending' = pending
      BY <1>0, <1>3, <2>1 DEF TaskStates, Owes, Types
    <3> QED
      BY <1>3, <3>1, Quiet
  <2>2. CASE ~released[t]
    <3>1. Owes(task[t], released[t]) /\ Subtract(1)
      BY <1>3, <2>2 DEF Owes
    <3> QED
      BY <1>3, <3>1, GiveBack
  <2> QED
    BY <2>1, <2>2
<1>4. CASE GuardRelease(t)
  <2>1. Moves(t, "dropping", TRUE) /\ ~Owes("dropping", TRUE)
    BY <1>0, <1>4 DEF GuardRelease, Moves, Goto, Owes
  <2> QED
    BY <1>3, <1>4, <2>1 DEF GuardRelease
<1>5. CASE GuardDrop(t)
  <2>1. Moves(t, "idle", released[t]) /\ ~Owes("idle", released[t])
    BY <1>0, <1>5 DEF GuardDrop, Moves, Goto, Owes
  <2> QED
    BY <1>0, <1>3, <1>5, <2>1 DEF GuardDrop
<1> QED
  BY <1>1, <1>2, <1>4, <1>5, TakeInd, DisarmInd DEF TaskStep

\* The releaser's batches preserve it.
LEMMA ReleaserInd ==
  ASSUME IndInv, ReleaserStep
  PROVE  IndInv'
<1> USE CountsNat
<1>1. PICK n \in 1..handed : ReleaseMany(n)
  BY DEF ReleaserStep
<1>2. /\ Owing' = Owing /\ Admitted' = Admitted /\ n \in Nat /\ handed \in Nat
      /\ handed' = handed - n /\ handed' \in Nat
      /\ UNCHANGED <<task, reserves, released, resets, forgotten>>
  BY <1>1 DEF ReleaseMany, Owing, Admitted, IndInv, Types
<1>3. pending' = (pending + (-n)) % Width
  BY <1>1, <1>2 DEF ReleaseMany, Subtract, IndInv, Types
<1>4. /\ InUse' = InUse + (-n) /\ Claims' <= Claims
      /\ Claims \in Nat /\ Claims' \in Nat
  BY <1>2 DEF InUse, Claims
<1>5. CounterExact' /\ pending' \in 0..(Width - 1)
  BY <1>2, <1>3, <1>4, CounterMoves
<1>6. ClaimsBounded' /\ NobodyAdmitted'
  BY <1>2, <1>4, ClaimsFall
<1>7. Types'
  BY <1>2, <1>5 DEF IndInv, Types
<1> QED
  BY <1>5, <1>6, <1>7 DEF IndInv

\* reset preserves it: what it forgets is recorded, and if it forgets nothing the
\* claims that are left are those of admitted tasks.
LEMMA ResetInd ==
  ASSUME IndInv, Reset
  PROVE  IndInv'
<1> USE CountsNat
<1>1. /\ Owing' = Owing /\ Admitted' = Admitted /\ handed' = handed
      /\ pending' = 0 /\ forgotten' = InUse /\ InUse' = InUse
      /\ UNCHANGED <<task, reserves, released>> /\ resets' = resets + 1
  BY DEF Reset, Owing, Admitted, InUse
<1>2. InUse \in Nat /\ handed \in Nat
  BY DEF InUse, IndInv, Types
<1>3. CounterExact'
  <2>1. InUse' - forgotten' = 0 /\ 0 % Width = 0
    BY <1>1, <1>2
  <2> QED
    BY <1>1, <1>2, <2>1 DEF CounterExact, InUse
<1>4. NobodyAdmitted'
  BY <1>1 DEF IndInv, NobodyAdmitted
<1>5. ClaimsBounded'
  <2>1. ASSUME forgotten' = 0, Claims' > 0
        PROVE  Claims' < MaxPending + Cardinality(Tasks)
    <3>1. Claims' = Cardinality(Admitted)
      BY <1>1, <1>2, <2>1 DEF Claims
    <3>2. MaxPending # 0
      BY <2>1, <3>1 DEF IndInv, NobodyAdmitted
    <3> QED
      BY <3>1, <3>2
  <2> QED
    BY <2>1 DEF ClaimsBounded
<1>6. Types'
  BY <1>1, <1>2 DEF IndInv, Types
<1> QED
  BY <1>3, <1>4, <1>5, <1>6 DEF IndInv

\* Every step preserves the inductive invariant.
LEMMA NextInd == IndInv /\ [Next]_vars => IndInv'
<1> SUFFICES ASSUME IndInv, [Next]_vars PROVE IndInv'
  OBVIOUS
<1>1. CASE UNCHANGED vars
  BY <1>1
  DEF vars, IndInv, Types, CounterExact, ClaimsBounded, NobodyAdmitted, Claims,
      InUse, Owing, Admitted
<1> QED
  BY <1>1, TaskInd, ReleaserInd, ResetInd DEF Next, Finished

\* It holds in every reachable state.
THEOREM Invariance == Spec => []IndInv
<1> QED
  BY InitInd, NextInd, PTL DEF Spec

\* fetch_add and fetch_sub on the shared counter: however guards, disarmed slots,
\* batches and resets interleave, it is the slots in use less the forgotten ones,
\* modulo the width of usize.
THEOREM CountsSlots == Spec => []CounterExact
<1>1. IndInv => CounterExact
  BY DEF IndInv
<1> QED
  BY <1>1, Invariance, PTL

\* The load and the fetch_add of reserve and try_reserve are two steps; they
\* overrun the limit by at most one slot for each other task.
THEOREM OverrunBounded == Spec => []LimitOverrun
<1>1. IndInv => LimitOverrun
  <2> SUFFICES ASSUME IndInv, forgotten = 0, pending + Cardinality(Admitted) > 0
               PROVE  pending + Cardinality(Admitted)
                        < MaxPending + Cardinality(Tasks)
    BY DEF LimitOverrun
  <2>1. pending = InUse
    BY CounterIsInUse
  <2> QED
    BY <2>1 DEF IndInv, ClaimsBounded, Claims
<1> QED
  BY <1>1, Invariance, PTL
=============================================================================
