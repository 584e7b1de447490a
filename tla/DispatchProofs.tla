--------------------------- MODULE DispatchProofs ---------------------------
(***************************************************************************)
(* Proofs about Dispatch, for any finite set of requests, any request ids, *)
(* any number of permits, with failing sends and encodes, helpers, aborts  *)
(* and panics.                                                             *)
(*                                                                         *)
(* Three inductive invariants that need nothing of each other but the      *)
(* types: the permits, the map of active contexts with the aborts that go  *)
(* through it, and the answers of one request.                             *)
(***************************************************************************)
EXTENDS Dispatch, FiniteSetTheorems, SequenceTheorems, TLAPS

Holders == {t \in Tasks : phase[t] \in Holding}

CapacityInv == TypeOK /\ PermitsConserved

\* Requests that want an answer have ids of their own, and nobody cancels a
\* request that is not in the map yet.
OwnIds ==
  \A t, u \in Tasks :
    /\ t # u /\ phase[t] # "none" /\ phase[u] # "none"
    /\ reqId[t] = reqId[u]
    => reqId[t] = 0
Untouched ==
  \A t \in Tasks :
    phase[t] \in {"none", "registering"} => ~cancelled[t] /\ t \notin aborted

MapInv == ContextsTracked /\ OwnIds /\ Untouched /\ AbortExact

\* The right to answer: until mark_responded nobody has it, then one user has it
\* until the terminal frame is out or lost, and it is not given again.
Entitled(t) ==
  /\ ~responded[t] =>
       TerminalsIn(out[t]) = {} /\ \A u \in Users : op[t][u] \notin Terminals
  /\ \A u \in Users :
       op[t][u] \in Terminals =>
         /\ TerminalsIn(out[t]) = {}
         /\ \A v \in Users : op[t][v] \in Terminals => v = u
  /\ \A i, j \in TerminalsIn(out[t]) : i = j
OneEntitled == \A t \in Tasks : Entitled(t)

-----------------------------------------------------------------------------
(* Counting the tasks that hold a permit                                   *)

\* Two sets of tasks that agree on all tasks but t differ by at most one in size.
LEMMA TasksMove ==
  ASSUME NEW T \in SUBSET Tasks, NEW U \in SUBSET Tasks, NEW t \in Tasks,
         \A x \in Tasks : x # t => (x \in T <=> x \in U)
  PROVE  /\ Cardinality(T) \in Nat /\ Cardinality(U) \in Nat
         /\ Cardinality(U) = Cardinality(T) + (IF t \in U THEN 1 ELSE 0)
                                            - (IF t \in T THEN 1 ELSE 0)
<1>0. IsFiniteSet(T) /\ Cardinality(T) \in Nat /\ Cardinality(U) \in Nat
  BY DispatchAssumption, FS_Subset, FS_CardinalityType DEF DispatchAssumption
<1>1. CASE (t \in T) = (t \in U)
  <2>1. T = U
    BY <1>1
  <2> QED
    BY <1>0, <1>1, <2>1
<1>2. CASE t \in U /\ t \notin T
  <2>1. U = T \cup {t}
    BY <1>2
  <2>2. Cardinality(T \cup {t}) = Cardinality(T) + 1
    BY <1>0, <1>2, FS_AddElement
  <2> QED
    BY <1>0, <1>2, <2>1, <2>2
<1>3. CASE t \notin U /\ t \in T
  <2>1. U = T \ {t}
    BY <1>3
  <2>2. Cardinality(T \ {t}) = Cardinality(T) - 1
    BY <1>0, <1>3, FS_RemoveElement
  <2> QED
    BY <1>0, <1>3, <2>1, <2>2
<1> QED
  BY <1>1, <1>2, <1>3

\* Task t goes to phase q, the others stay where they are.
Moves(t, q) ==
  /\ phase \in [Tasks -> Phases]
  /\ phase' = [phase EXCEPT ![t] = q]

\* The holders change with it.
LEMMA HoldersMove ==
  ASSUME NEW t \in Tasks, NEW q \in Phases, Moves(t, q)
  PROVE  /\ Cardinality(Holders) \in Nat /\ Cardinality(Holders') \in Nat
         /\ Cardinality(Holders') =
              Cardinality(Holders) + (IF q \in Holding THEN 1 ELSE 0)
                                   - (IF phase[t] \in Holding THEN 1 ELSE 0)
<1>1. /\ Holders \in SUBSET Tasks /\ Holders' \in SUBSET Tasks
      /\ \A x \in Tasks : x # t => (x \in Holders <=> x \in Holders')
      /\ t \in Holders' <=> q \in Holding
      /\ t \in Holders <=> phase[t] \in Holding
  BY DEF Holders, Moves
<1> QED
  BY <1>1, TasksMove

\* Steps that take or give no permit: the task stays a holder, or stays none.
LEMMA PermitsUntouched ==
  ASSUME CapacityInv, NEW t \in Tasks, NEW q \in Phases,
         phase' = [phase EXCEPT ![t] = q], permits' = permits,
         q \in Holding <=> phase[t] \in Holding
  PROVE  PermitsConserved'
<1>0. Moves(t, q)
  BY DEF CapacityInv, TypeOK, Moves
<1>1. Cardinality(Holders') = Cardinality(Holders)
  BY <1>0, HoldersMove
<1> QED
  BY <1>1 DEF CapacityInv, PermitsConserved, Holders

\* Steps that give one back: the task was a holder and is none any more.
LEMMA PermitReturned ==
  ASSUME CapacityInv, NEW t \in Tasks, NEW q \in Phases,
         phase' = [phase EXCEPT ![t] = q], permits' = permits + 1,
         q \notin Holding, phase[t] \in Holding
  PROVE  PermitsConserved' /\ permits' \in 0..MaxConcurrent
<1>0. Moves(t, q)
  BY DEF CapacityInv, TypeOK, Moves
<1>1. /\ Cardinality(Holders') = Cardinality(Holders) - 1
      /\ Cardinality(Holders) \in Nat /\ Cardinality(Holders') \in Nat
  BY <1>0, HoldersMove
<1>2. /\ permits + Cardinality(Holders) = MaxConcurrent
      /\ permits \in 0..MaxConcurrent /\ MaxConcurrent \in Nat
  BY DispatchAssumption
  DEF CapacityInv, TypeOK, PermitsConserved, Holders, DispatchAssumption
<1>3. permits' + Cardinality(Holders') = MaxConcurrent
  BY <1>1, <1>2
<1> QED
  BY <1>1, <1>2, <1>3 DEF PermitsConserved, Holders

-----------------------------------------------------------------------------
(* The calls of one context                                                *)

OpStates == Kinds \cup {"idle", "absent", "listening"}

\* User u of task t enters or leaves a call, no other user does.
OpMoves(t, u, k) ==
  /\ op \in [Tasks -> [Users -> OpStates]]
  /\ op' = [op EXCEPT ![t][u] = k]

\* What that does to `op`.
LEMMA OpMoved ==
  ASSUME NEW t \in Tasks, NEW u \in Users, NEW k \in OpStates, OpMoves(t, u, k)
  PROVE  /\ op' \in [Tasks -> [Users -> OpStates]]
         /\ op'[t][u] = k
         /\ \A v \in Users : v # u => op'[t][v] = op[t][v]
         /\ \A x \in Tasks : x # t => op'[x] = op[x]
<1>1. op' = [op EXCEPT ![t] = [op[t] EXCEPT ![u] = k]]
  BY DEF OpMoves
<1>2. op[t] \in [Users -> OpStates] /\ [op[t] EXCEPT ![u] = k] \in [Users -> OpStates]
  BY DEF OpMoves
<1>3. op'[t] = [op[t] EXCEPT ![u] = k] /\ \A x \in Tasks : x # t => op'[x] = op[x]
  BY <1>1 DEF OpMoves
<1>4. op' \in [Tasks -> [Users -> OpStates]]
  BY <1>1, <1>2 DEF OpMoves
<1> QED
  BY <1>2, <1>3, <1>4

-----------------------------------------------------------------------------
(* Types and permits                                                       *)

\* The first state is well typed and all permits are in the semaphore.
LEMMA CapacityInit == Init => CapacityInv
<1> SUFFICES ASSUME Init PROVE CapacityInv
  OBVIOUS
<1> USE DispatchAssumption DEF DispatchAssumption
<1>1. Holders = {}
  BY DEF Init, Holders, Holding, Active
<1>2. Cardinality(Holders) = 0
  BY <1>1, FS_EmptySet
<1>3. PermitsConserved
  BY <1>2 DEF Init, PermitsConserved, Holders
<1>4. TypeOK
  BY DEF Init, TypeOK, Ids, Phases, Kinds, Terminals
<1> QED
  BY <1>3, <1>4 DEF CapacityInv

\* The read loop preserves types and permits.
LEMMA CapacityReader ==
  ASSUME CapacityInv, ReaderStep
  PROVE  CapacityInv'
<1> USE DispatchAssumption DEF DispatchAssumption, CapacityInv
<1>1. ASSUME NEW i \in Ids, AdmitRequest(i) PROVE CapacityInv'
  <2>1. PICK t \in Tasks :
           /\ phase[t] = "none"
           /\ phase' = [phase EXCEPT ![t] = "registering"]
           /\ reqId' = [reqId EXCEPT ![t] = i]
    BY <1>1 DEF AdmitRequest
  <2>2. TypeOK'
    BY <1>1, <2>1
    DEF AdmitRequest, TypeOK, Phases, Holding, Active, contextVars
  <2>3. /\ Cardinality(Holders') = Cardinality(Holders) + 1
        /\ Cardinality(Holders) \in Nat
    <3>1. "registering" \in Holding /\ "none" \notin Holding /\ "registering" \in Phases
      BY DEF Holding, Active, Phases
    <3>2. Moves(t, "registering")
      BY <2>1 DEF TypeOK, Moves
    <3> QED
      BY <2>1, <3>1, <3>2, HoldersMove
  <2>4. PermitsConserved'
    BY <1>1, <2>3 DEF AdmitRequest, PermitsConserved, Holders, TypeOK
  <2> QED
    BY <2>2, <2>4
<1>2. ASSUME NEW t \in Tasks, Register(t) PROVE CapacityInv'
  <2>1. TypeOK'
    BY <1>2 DEF Register, TypeOK, Phases, Holding, Active, contextVars
  <2>2. PermitsConserved'
    BY <1>2, PermitsUntouched DEF Register, Phases, Holding, Active
  <2> QED
    BY <2>1, <2>2
<1>3. ASSUME NEW i \in Ids, AbortFrame(i) PROVE CapacityInv'
  <2>1. TypeOK'
    BY <1>3 DEF AbortFrame, TypeOK, contextVars
  <2>2. PermitsConserved'
    BY <1>3 DEF AbortFrame, PermitsConserved
  <2> QED
    BY <2>1, <2>2
<1>4. CASE ReadEnds
  BY <1>4 DEF ReadEnds, TypeOK, PermitsConserved, contextVars
<1> QED
  BY <1>1, <1>2, <1>3, <1>4 DEF ReaderStep

\* The spawned task preserves them.
LEMMA CapacityRuntime ==
  ASSUME CapacityInv, NEW t \in Tasks, RuntimeStep(t)
  PROVE  CapacityInv'
<1> USE DispatchAssumption DEF DispatchAssumption, CapacityInv
<1> USE DEF Phases, Holding, Active
<1>1. CASE Invoke(t)
  <2>1. PICK q \in {"failing", "running"} : phase' = [phase EXCEPT ![t] = q]
    BY <1>1 DEF Invoke
  <2>2. TypeOK'
    BY <1>1 DEF Invoke, TypeOK, contextVars
  <2>3. PermitsConserved'
    BY <1>1, <2>1, PermitsUntouched DEF Invoke
  <2> QED
    BY <2>2, <2>3
<1>2. CASE CheckResponded(t)
  <2>1. PICK q \in {"cleanup", "autoError"} : phase' = [phase EXCEPT ![t] = q]
    BY <1>2 DEF CheckResponded
  <2>2. TypeOK'
    BY <1>2 DEF CheckResponded, TypeOK, contextVars
  <2>3. PermitsConserved'
    BY <1>2, <2>1, PermitsUntouched DEF CheckResponded
  <2> QED
    BY <2>2, <2>3
<1>3. CASE AutoError(t)
  <2>1. TypeOK'
    <3>1. op' \in [Tasks -> [Users -> OpStates]]
      <4>1. CASE OpMoves(t, "task", "response")
        BY <4>1, OpMoved DEF OpStates, Kinds, Terminals
      <4>2. CASE op' = op
        BY <4>2 DEF TypeOK, OpStates
      <4> QED
        BY <1>3, <4>1, <4>2 DEF AutoError, TypeOK, OpStates, OpMoves
    <3>2. phase' \in [Tasks -> Phases] /\ responded' \in [Tasks -> BOOLEAN]
      BY <1>3 DEF AutoError, TypeOK
    <3> QED
      BY <1>3, <3>1, <3>2 DEF AutoError, TypeOK, OpStates
  <2>2. CASE phase' = phase
    BY <1>3, <2>1, <2>2 DEF AutoError, PermitsConserved
  <2>3. CASE phase' = [phase EXCEPT ![t] = "cleanup"]
    BY <1>3, <2>1, <2>3, PermitsUntouched DEF AutoError
  <2> QED
    BY <1>3, <2>2, <2>3 DEF AutoError
<1>4. CASE Cleanup(t)
  <2>1. TypeOK'
    BY <1>4 DEF Cleanup, TypeOK, contextVars
  <2>2. PermitsConserved'
    BY <1>4, PermitsUntouched DEF Cleanup
  <2> QED
    BY <2>1, <2>2
<1>5. CASE ReleasePermit(t)
  <2>1. PermitsConserved' /\ permits' \in 0..MaxConcurrent
    BY <1>5, PermitReturned DEF ReleasePermit
  <2>2. TypeOK'
    BY <1>5, <2>1 DEF ReleasePermit, TypeOK, contextVars
  <2> QED
    BY <2>1, <2>2
<1> QED
  BY <1>1, <1>2, <1>3, <1>4, <1>5 DEF RuntimeStep

\* The steps of user u on the context of task t.
UserStep(t, u) ==
  \/ SpawnHelper(t)
  \/ \E k \in Terminals : CallTerminal(t, u, k)
  \/ CallChunk(t, u)
  \/ DropCall(t, u)
  \/ AwaitCancelled(t, u)
  \/ StopListening(t, u)
  \/ CallStep(t, u)

\* What each of them does to the rest: nothing, except that the end of the
\* automatic error sends the task to its cleanup.
ContextStep(t) ==
  /\ UNCHANGED <<reader, permits, contexts, reqId, cancelled, outcome, aborted>>
  /\ phase' = phase \/ (phase[t] = "autoError" /\ Moves(t, "cleanup"))

\* A user's step is one of these, and keeps the types of what it changes.
LEMMA UserStepType ==
  ASSUME TypeOK, NEW t \in Tasks, NEW u \in Users, UserStep(t, u)
  PROVE  /\ ContextStep(t)
         /\ \E v \in Users, k \in OpStates : OpMoves(t, v, k)
         /\ responded' \in [Tasks -> BOOLEAN]
         /\ out' \in [Tasks -> Seq(Kinds)]
         /\ faults' \in [Tasks -> SUBSET {"encode", "lost"}]
<1> USE DEF OpStates, OpMoves
<1>0. /\ op \in [Tasks -> [Users -> OpStates]] /\ phase \in [Tasks -> Phases]
      /\ "idle" \in OpStates /\ "listening" \in OpStates
      /\ Kinds \subseteq OpStates /\ Terminals \subseteq Kinds /\ "chunk" \in Kinds
  BY DEF TypeOK, Kinds
<1>1. CASE SpawnHelper(t)
  BY <1>0, <1>1 DEF SpawnHelper, ContextStep, TypeOK
<1>2. ASSUME NEW k \in Terminals, CallTerminal(t, u, k)
      PROVE  /\ ContextStep(t) /\ OpMoves(t, u, k) /\ k \in OpStates
             /\ responded' \in [Tasks -> BOOLEAN]
             /\ out' = out /\ faults' = faults
  BY <1>0, <1>2 DEF CallTerminal, ContextStep, TypeOK
<1>3. CASE CallChunk(t, u)
  BY <1>0, <1>3 DEF CallChunk, ContextStep, TypeOK
<1>4. CASE AwaitCancelled(t, u)
  BY <1>0, <1>4 DEF AwaitCancelled, ContextStep, TypeOK
<1>5. CASE StopListening(t, u) \/ CancelledReturns(t, u)
  BY <1>0, <1>5 DEF StopListening, CancelledReturns, ContextStep, TypeOK
<1>6. ASSUME CallEnds(t, u)
      PROVE  /\ OpMoves(t, u, "idle")
             /\ phase' = phase \/ (phase[t] = "autoError" /\ Moves(t, "cleanup"))
  BY <1>0, <1>6 DEF CallEnds, Automatic, Moves
<1>7. ASSUME NEW fault \in {"encode", "lost"}, Fails(t, u, fault)
      PROVE  /\ ContextStep(t) /\ OpMoves(t, u, "idle")
             /\ responded' = responded /\ out' = out
             /\ faults' \in [Tasks -> SUBSET {"encode", "lost"}]
  <2>1. faults' \in [Tasks -> SUBSET {"encode", "lost"}]
    BY <1>7 DEF Fails, TypeOK
  <2>2. CallEnds(t, u)
    BY <1>7 DEF Fails
  <2> QED
    BY <1>6, <1>7, <2>1, <2>2 DEF Fails, ContextStep
<1>8. CASE DropCall(t, u) \/ EncodeFails(t, u) \/ SendFails(t, u)
  <2>1. PICK fault \in {"encode", "lost"} : Fails(t, u, fault)
    BY <1>8 DEF DropCall, EncodeFails, SendFails
  <2> QED
    BY <1>0, <1>7, <2>1 DEF TypeOK
<1>9. CASE SendSucceeds(t, u)
  <2>1. CallEnds(t, u) /\ op[t][u] \in Kinds
    BY <1>9 DEF SendSucceeds
  <2>2. out' = [out EXCEPT ![t] = Append(out[t], op[t][u])]
    BY <1>9 DEF SendSucceeds
  <2>3. Append(out[t], op[t][u]) \in Seq(Kinds)
    BY <2>1, AppendProperties DEF TypeOK
  <2>4. out' \in [Tasks -> Seq(Kinds)]
    BY <2>2, <2>3 DEF TypeOK
  <2>5. /\ UNCHANGED <<reader, permits, contexts, reqId, cancelled, outcome, aborted>>
        /\ responded' = responded /\ faults' = faults
    BY <1>9 DEF SendSucceeds
  <2> QED
    BY <1>0, <1>6, <2>1, <2>4, <2>5 DEF ContextStep, TypeOK
<1>10. ASSUME \E k \in Terminals : CallTerminal(t, u, k)
       PROVE  /\ ContextStep(t)
              /\ \E v \in Users, k \in OpStates : OpMoves(t, v, k)
              /\ responded' \in [Tasks -> BOOLEAN]
              /\ out' \in [Tasks -> Seq(Kinds)]
              /\ faults' \in [Tasks -> SUBSET {"encode", "lost"}]
  BY <1>2, <1>10 DEF TypeOK
<1> QED
  BY <1>1, <1>3, <1>4, <1>5, <1>8, <1>9, <1>10 DEF UserStep, CallStep

\* The users of a context preserve types and permits.
LEMMA CapacityUser ==
  ASSUME CapacityInv, NEW t \in Tasks, NEW u \in Users, UserStep(t, u)
  PROVE  CapacityInv'
<1>1. /\ ContextStep(t)
      /\ \E v \in Users, k \in OpStates : OpMoves(t, v, k)
      /\ responded' \in [Tasks -> BOOLEAN]
      /\ out' \in [Tasks -> Seq(Kinds)]
      /\ faults' \in [Tasks -> SUBSET {"encode", "lost"}]
  BY UserStepType DEF CapacityInv
<1>2. op' \in [Tasks -> [Users -> OpStates]]
  BY <1>1, OpMoved
<1>3. phase' \in [Tasks -> Phases]
  BY <1>1 DEF ContextStep, Moves, CapacityInv, TypeOK, Phases, Holding, Active
<1>4. TypeOK'
  BY <1>1, <1>2, <1>3 DEF ContextStep, CapacityInv, TypeOK, OpStates
<1>5. PermitsConserved'
  <2>1. CASE phase' = phase
    BY <1>1, <2>1 DEF ContextStep, CapacityInv, PermitsConserved
  <2>2. CASE phase[t] = "autoError" /\ Moves(t, "cleanup")
    BY <1>1, <2>2, PermitsUntouched
    DEF ContextStep, Moves, Phases, Holding, Active
  <2> QED
    BY <1>1, <2>1, <2>2 DEF ContextStep
<1> QED
  BY <1>4, <1>5 DEF CapacityInv

\* A panic takes the handler out of the call it is in, and keeps the types of what
\* it changes.
LEMMA PanicStep ==
  ASSUME TypeOK, NEW t \in Tasks, HandlerPanics(t)
  PROVE  /\ "task" \in Users /\ OpMoves(t, "task", "idle")
         /\ op' \in [Tasks -> [Users -> OpStates]]
         /\ faults' \in [Tasks -> SUBSET {"encode", "lost"}]
         /\ phase[t] = "running" /\ phase' = [phase EXCEPT ![t] = "panicked"]
         /\ permits' = permits + 1
         /\ UNCHANGED <<reader, contexts, reqId, responded, cancelled, outcome,
                        out, aborted>>
<1>1. "task" \in Users /\ "idle" \in OpStates
  BY DispatchAssumption DEF DispatchAssumption, OpStates
<1>2. OpMoves(t, "task", "idle")
  BY DEF HandlerPanics, PanicUnwinds, OpMoves, OpStates, TypeOK
<1>3. op' \in [Tasks -> [Users -> OpStates]]
  BY <1>1, <1>2, OpMoved
<1>4. faults' \in [Tasks -> SUBSET {"encode", "lost"}]
  BY DEF HandlerPanics, PanicUnwinds, TypeOK
<1> QED
  BY <1>1, <1>2, <1>3, <1>4 DEF HandlerPanics, PanicUnwinds

\* The return and the panic of a handler preserve them: unwinding drops the
\* permit that the task held.
LEMMA CapacityHandler ==
  ASSUME CapacityInv, NEW t \in Tasks,
         (\E r \in {"Ok", "Err"} : HandlerReturns(t, r)) \/ HandlerPanics(t)
  PROVE  CapacityInv'
<1> USE DEF CapacityInv, Phases, Holding, Active
<1>1. ASSUME NEW r \in {"Ok", "Err"}, HandlerReturns(t, r) PROVE CapacityInv'
  <2>1. PICK q \in {"cleanup", "failing"} : phase' = [phase EXCEPT ![t] = q]
    BY <1>1 DEF HandlerReturns
  <2>2. TypeOK'
    BY <1>1 DEF HandlerReturns, TypeOK, contextVars
  <2>3. PermitsConserved'
    BY <1>1, <2>1, PermitsUntouched DEF HandlerReturns
  <2> QED
    BY <2>2, <2>3
<1>2. CASE HandlerPanics(t)
  <2>1. PermitsConserved' /\ permits' \in 0..MaxConcurrent
    BY <1>2, PanicStep, PermitReturned
  <2>2. TypeOK'
    BY <1>2, <2>1, PanicStep DEF TypeOK, OpStates
  <2> QED
    BY <2>1, <2>2
<1> QED
  BY <1>1, <1>2

\* The steps of Next, by who takes them.
LEMMA NextCases ==
  ASSUME [Next]_vars
  PROVE  \/ ReaderStep
         \/ \E t \in Tasks : RuntimeStep(t)
         \/ \E t \in Tasks :
              (\E r \in {"Ok", "Err"} : HandlerReturns(t, r)) \/ HandlerPanics(t)
         \/ \E t \in Tasks, u \in Users : UserStep(t, u)
         \/ UNCHANGED vars
<1>1. "task" \in Users
  BY DispatchAssumption DEF DispatchAssumption
<1> QED
  BY <1>1 DEF Next, HandlerStep, UserStep, Finished

\* Every step preserves types and permits.
LEMMA CapacityNext == CapacityInv /\ [Next]_vars => CapacityInv'
<1> SUFFICES ASSUME CapacityInv, [Next]_vars PROVE CapacityInv'
  OBVIOUS
<1>1. CASE UNCHANGED vars
  BY <1>1 DEF vars, CapacityInv, TypeOK, PermitsConserved
<1> QED
  BY <1>1, NextCases, CapacityReader, CapacityRuntime, CapacityHandler, CapacityUser

\* Types and permits hold in every reachable state.
THEOREM CapacityInvariance == Spec => []CapacityInv
<1> QED
  BY CapacityInit, CapacityNext, PTL DEF Spec

-----------------------------------------------------------------------------
(* The map of active contexts, and aborts                                  *)

\* The first state: the map is empty and nobody was cancelled.
LEMMA MapInit == Init => MapInv
<1> SUFFICES ASSUME Init PROVE MapInv
  OBVIOUS
<1>1. \A i \in Ids : contexts[i] \notin Tasks
  BY DispatchAssumption DEF Init, DispatchAssumption
<1> QED
  BY <1>1
  DEF Init, MapInv, ContextsTracked, OwnIds, Untouched, AbortExact, Active

\* A task goes from one phase to another, and the map is left alone.  It must not
\* become or cease to be active, except by a panic.
LEMMA MapPhase ==
  ASSUME MapInv, NEW t \in Tasks, NEW q \in Phases, Moves(t, q),
         UNCHANGED <<contexts, reqId, cancelled, aborted>>,
         phase[t] \notin {"none", "panicked"}, q \notin {"none", "registering"},
         q \in Active => phase[t] \in Active,
         phase[t] \in Active => q \in Active \cup {"panicked"}
  PROVE  MapInv'
<1> USE DEF MapInv
<1>0. phase'[t] = q /\ \A x \in Tasks : x # t => phase'[x] = phase[x]
  BY DEF Moves
<1>1. ContextsTracked'
  <2>1. \A x \in Tasks :
          phase'[x] \in Active /\ reqId'[x] # 0 => contexts'[reqId'[x]] = x
    BY <1>0 DEF ContextsTracked
  <2>2. \A i \in Ids : \A x \in Tasks :
          contexts'[i] = x => reqId'[x] = i /\ phase'[x] \in Active \cup {"panicked"}
    BY <1>0 DEF ContextsTracked
  <2> QED
    BY <2>1, <2>2 DEF ContextsTracked
<1>2. OwnIds'
  BY <1>0 DEF OwnIds
<1>3. Untouched'
  BY <1>0 DEF Untouched
<1>4. AbortExact'
  BY <1>0 DEF AbortExact
<1> QED
  BY <1>1, <1>2, <1>3, <1>4

\* Steps that touch neither the map nor a phase.
LEMMA MapUnchanged ==
  ASSUME MapInv, UNCHANGED <<contexts, phase, reqId, cancelled, aborted>>
  PROVE  MapInv'
BY DEF MapInv, ContextsTracked, OwnIds, Untouched, AbortExact

\* The read loop preserves the map's invariant.
LEMMA MapReader ==
  ASSUME TypeOK, MapInv, ReaderStep
  PROVE  MapInv'
<1> USE DEF MapInv
<1>0. NoTask \notin Tasks
  BY DispatchAssumption DEF DispatchAssumption
<1>1. ASSUME NEW i \in Ids, AdmitRequest(i) PROVE MapInv'
  <2>1. PICK t \in Tasks :
           /\ phase[t] = "none"
           /\ phase' = [phase EXCEPT ![t] = "registering"]
           /\ reqId' = [reqId EXCEPT ![t] = i]
    BY <1>1 DEF AdmitRequest
  <2>2. /\ phase'[t] = "registering" /\ reqId'[t] = i
        /\ \A x \in Tasks : x # t => phase'[x] = phase[x] /\ reqId'[x] = reqId[x]
        /\ UNCHANGED <<contexts, cancelled, aborted>>
    BY <1>1, <2>1 DEF AdmitRequest, TypeOK
  <2>3. \A x \in Tasks : phase[x] # "none" => reqId[x] # i \/ i = 0
    BY <1>1 DEF AdmitRequest, Fresh
  <2>4. \A j \in Ids : contexts[j] # t
    BY <2>1 DEF ContextsTracked, Active
  <2>5. ContextsTracked'
    <3>1. \A x \in Tasks :
            phase'[x] \in Active /\ reqId'[x] # 0 => contexts'[reqId'[x]] = x
      BY <2>2 DEF ContextsTracked, Active
    <3>2. \A j \in Ids : \A x \in Tasks :
            contexts'[j] = x =>
              reqId'[x] = j /\ phase'[x] \in Active \cup {"panicked"}
      BY <2>2, <2>4 DEF ContextsTracked
    <3> QED
      BY <3>1, <3>2 DEF ContextsTracked
  <2>6. OwnIds'
    BY <2>2, <2>3 DEF OwnIds
  <2>7. Untouched'
    BY <2>1, <2>2 DEF Untouched
  <2>8. AbortExact'
    BY <2>1, <2>2 DEF AbortExact, Untouched
  <2> QED
    BY <2>5, <2>6, <2>7, <2>8
<1>2. ASSUME NEW t \in Tasks, Register(t) PROVE MapInv'
  <2>1. /\ phase[t] = "registering" /\ phase'[t] = "spawned"
        /\ \A x \in Tasks : x # t => phase'[x] = phase[x]
        /\ reqId[t] \in Ids /\ contexts'[reqId[t]] = t
        /\ \A i \in Ids : i # reqId[t] => contexts'[i] = contexts[i]
        /\ UNCHANGED <<reqId, cancelled, aborted>>
    BY <1>2 DEF Register, TypeOK
  <2>2. \A i \in Ids : contexts[i] # t
    BY <2>1 DEF ContextsTracked, Active
  <2>3. \A x \in Tasks : x # t /\ phase[x] # "none" /\ reqId[x] # 0
          => reqId[x] # reqId[t]
    BY <2>1 DEF OwnIds
  <2>4. ContextsTracked'
    <3>1. \A x \in Tasks :
            phase'[x] \in Active /\ reqId'[x] # 0 => contexts'[reqId'[x]] = x
      <4> SUFFICES ASSUME NEW x \in Tasks, phase'[x] \in Active, reqId[x] # 0
                   PROVE  contexts'[reqId[x]] = x
        BY <2>1
      <4>1. CASE x = t
        BY <2>1, <4>1
      <4>2. CASE x # t
        <5>1. phase[x] \in Active /\ phase[x] # "none" /\ reqId[x] \in Ids
          BY <2>1, <4>2 DEF Active, TypeOK
        <5> QED
          BY <2>1, <2>3, <4>2, <5>1 DEF ContextsTracked
      <4> QED
        BY <4>1, <4>2
    <3>2. \A i \in Ids : \A x \in Tasks :
            contexts'[i] = x =>
              reqId'[x] = i /\ phase'[x] \in Active \cup {"panicked"}
      <4> SUFFICES ASSUME NEW i \in Ids, NEW x \in Tasks, contexts'[i] = x
                   PROVE  reqId[x] = i /\ phase'[x] \in Active \cup {"panicked"}
        BY <2>1
      <4>1. CASE i = reqId[t]
        BY <2>1, <4>1 DEF Active
      <4>2. CASE i # reqId[t]
        BY <2>1, <2>2, <4>2 DEF ContextsTracked
      <4> QED
        BY <4>1, <4>2
    <3> QED
      BY <3>1, <3>2 DEF ContextsTracked
  <2>5. OwnIds' /\ Untouched' /\ AbortExact'
    BY <2>1 DEF OwnIds, Untouched, AbortExact
  <2> QED
    BY <2>4, <2>5
<1>3. ASSUME NEW i \in Ids, AbortFrame(i) PROVE MapInv'
  <2>1. /\ \A t \in Tasks : cancelled'[t] <=> cancelled[t] \/ contexts[i] = t
        /\ \A t \in Tasks :
             t \in aborted' <=> t \in aborted \/ (reqId[t] = i /\ phase[t] \in Active)
        /\ UNCHANGED <<contexts, phase, reqId>>
    BY <1>3 DEF AbortFrame, TypeOK
  <2>2. ContextsTracked' /\ OwnIds'
    BY <2>1 DEF ContextsTracked, OwnIds
  <2>3. Untouched'
    BY <2>1 DEF Untouched, ContextsTracked, Active
  <2>4. AbortExact'
    <3> SUFFICES ASSUME NEW t \in Tasks, reqId[t] # 0
                 PROVE  /\ t \in aborted' => cancelled'[t]
                        /\ cancelled'[t] => t \in aborted' \/ phase[t] = "panicked"
      BY <2>1 DEF AbortExact
    <3>1. reqId[t] = i /\ phase[t] \in Active => contexts[i] = t
      BY DEF ContextsTracked
    <3>2. contexts[i] = t => reqId[t] = i /\ phase[t] \in Active \cup {"panicked"}
      BY DEF ContextsTracked
    <3>3. /\ t \in aborted => cancelled[t]
          /\ cancelled[t] => t \in aborted \/ phase[t] = "panicked"
      BY DEF AbortExact
    <3> QED
      BY <2>1, <3>1, <3>2, <3>3
  <2> QED
    BY <2>2, <2>3, <2>4
<1>4. CASE ReadEnds
  BY <1>4, MapUnchanged DEF ReadEnds
<1> QED
  BY <1>1, <1>2, <1>3, <1>4 DEF ReaderStep

\* So does the spawned task, which takes its own entry out and no other.
LEMMA MapRuntime ==
  ASSUME TypeOK, MapInv, NEW t \in Tasks, RuntimeStep(t)
  PROVE  MapInv'
<1>1. CASE Cleanup(t)
  <2> USE DEF MapInv
  <2>0. NoTask \notin Tasks
    BY DispatchAssumption DEF DispatchAssumption
  <2>1. /\ phase[t] = "cleanup" /\ phase'[t] = "releasing"
        /\ \A x \in Tasks : x # t => phase'[x] = phase[x]
        /\ reqId[t] \in Ids /\ contexts'[reqId[t]] = NoTask
        /\ \A i \in Ids : i # reqId[t] => contexts'[i] = contexts[i]
        /\ UNCHANGED <<reqId, cancelled, aborted>>
    BY <1>1 DEF Cleanup, TypeOK
  <2>2. \A x \in Tasks : x # t /\ phase[x] # "none" /\ reqId[x] # 0
          => reqId[x] # reqId[t]
    BY <2>1 DEF OwnIds
  <2>3. ContextsTracked'
    <3>1. \A x \in Tasks :
            phase'[x] \in Active /\ reqId'[x] # 0 => contexts'[reqId'[x]] = x
      <4> SUFFICES ASSUME NEW x \in Tasks, phase'[x] \in Active, reqId[x] # 0
                   PROVE  contexts'[reqId[x]] = x
        BY <2>1
      <4>1. x # t
        BY <2>1 DEF Active
      <4>2. phase[x] \in Active /\ phase[x] # "none" /\ reqId[x] \in Ids
        BY <2>1, <4>1 DEF Active, TypeOK
      <4> QED
        BY <2>1, <2>2, <4>1, <4>2 DEF ContextsTracked
    <3>2. \A i \in Ids : \A x \in Tasks :
            contexts'[i] = x =>
              reqId'[x] = i /\ phase'[x] \in Active \cup {"panicked"}
      <4> SUFFICES ASSUME NEW i \in Ids, NEW x \in Tasks, contexts'[i] = x
                   PROVE  reqId[x] = i /\ phase'[x] \in Active \cup {"panicked"}
        BY <2>1
      <4>1. i # reqId[t] /\ contexts[i] = x
        BY <2>0, <2>1
      <4>2. reqId[x] = i /\ phase[x] \in Active \cup {"panicked"}
        BY <4>1 DEF ContextsTracked
      <4> QED
        BY <2>1, <4>1, <4>2
    <3> QED
      BY <3>1, <3>2 DEF ContextsTracked
  <2>4. OwnIds' /\ Untouched' /\ AbortExact'
    BY <2>1 DEF OwnIds, Untouched, AbortExact
  <2> QED
    BY <2>3, <2>4
<1>2. CASE AutoError(t) /\ phase' = phase
  BY <1>2, MapUnchanged DEF AutoError
<1>3. CASE \/ Invoke(t) \/ CheckResponded(t) \/ ReleasePermit(t)
           \/ AutoError(t) /\ phase' # phase
  <2>1. PICK q \in {"failing", "running", "cleanup", "autoError", "done"} :
           /\ Moves(t, q)
           /\ phase[t] \in {"spawned", "failing", "autoError", "releasing"}
           /\ q = "done" <=> phase[t] = "releasing"
    BY <1>3
    DEF Invoke, CheckResponded, ReleasePermit, AutoError, Moves, TypeOK
  <2>2. UNCHANGED <<contexts, reqId, cancelled, aborted>>
    BY <1>3 DEF Invoke, CheckResponded, ReleasePermit, AutoError
  <2>3. /\ q \in Phases /\ phase[t] \notin {"none", "panicked"}
        /\ q \notin {"none", "registering"}
        /\ q \in Active => phase[t] \in Active
        /\ phase[t] \in Active => q \in Active \cup {"panicked"}
    BY <2>1 DEF Phases, Holding, Active
  <2> QED
    BY <2>1, <2>2, <2>3, MapPhase
<1> QED
  BY <1>1, <1>2, <1>3 DEF RuntimeStep

\* So do the return and the panic of a handler.
LEMMA MapHandler ==
  ASSUME TypeOK, MapInv, NEW t \in Tasks,
         (\E r \in {"Ok", "Err"} : HandlerReturns(t, r)) \/ HandlerPanics(t)
  PROVE  MapInv'
<1>1. PICK q \in {"cleanup", "failing", "panicked"} :
         Moves(t, q) /\ phase[t] = "running"
  BY PanicStep DEF HandlerReturns, Moves, TypeOK
<1>2. UNCHANGED <<contexts, reqId, cancelled, aborted>>
  BY PanicStep DEF HandlerReturns
<1>3. /\ q \in Phases /\ phase[t] \notin {"none", "panicked"}
      /\ q \notin {"none", "registering"}
      /\ q \in Active => phase[t] \in Active
      /\ phase[t] \in Active => q \in Active \cup {"panicked"}
  BY <1>1 DEF Phases, Holding, Active
<1> QED
  BY <1>1, <1>2, <1>3, MapPhase

\* So do the users of a context.
LEMMA MapUser ==
  ASSUME TypeOK, MapInv, NEW t \in Tasks, NEW u \in Users, UserStep(t, u)
  PROVE  MapInv'
<1>1. ContextStep(t)
  BY UserStepType
<1>2. UNCHANGED <<contexts, reqId, cancelled, aborted>>
  BY <1>1 DEF ContextStep
<1>3. CASE phase' = phase
  BY <1>2, <1>3, MapUnchanged
<1>4. CASE phase[t] = "autoError" /\ Moves(t, "cleanup")
  <2>1. "cleanup" \in Phases /\ "cleanup" \in Active /\ "autoError" \in Active
    BY DEF Phases, Holding, Active
  <2> QED
    BY <1>2, <1>4, <2>1, MapPhase
<1> QED
  BY <1>1, <1>3, <1>4 DEF ContextStep

\* Every step preserves the map's invariant.
LEMMA MapNext == TypeOK /\ MapInv /\ [Next]_vars => MapInv'
<1> SUFFICES ASSUME TypeOK, MapInv, [Next]_vars PROVE MapInv'
  OBVIOUS
<1>1. CASE UNCHANGED vars
  BY <1>1, MapUnchanged DEF vars
<1> QED
  BY <1>1, NextCases, MapReader, MapRuntime, MapHandler, MapUser

-----------------------------------------------------------------------------
(* The answers of one request                                              *)

\* What one more frame does to the terminal frames of a stream.
LEMMA TerminalsAppend ==
  ASSUME NEW s \in Seq(Kinds), NEW k \in Kinds
  PROVE  /\ k \notin Terminals => TerminalsIn(Append(s, k)) = TerminalsIn(s)
         /\ k \in Terminals /\ TerminalsIn(s) = {} =>
              TerminalsIn(Append(s, k)) = {Len(s) + 1}
<1>1. /\ Len(s) \in Nat /\ Len(Append(s, k)) = Len(s) + 1
      /\ Append(s, k)[Len(s) + 1] = k
      /\ \A i \in 1..Len(s) : Append(s, k)[i] = s[i]
  BY AppendProperties, LenProperties
<1>2. \A i \in 1..(Len(s) + 1) : i \in 1..Len(s) \/ i = Len(s) + 1
  BY <1>1
<1>3. 1..Len(s) \subseteq 1..(Len(s) + 1) /\ Len(s) + 1 \in 1..(Len(s) + 1)
      /\ Len(s) + 1 \notin 1..Len(s)
  BY <1>1
<1>4. TerminalsIn(Append(s, k)) =
        {i \in 1..(Len(s) + 1) : Append(s, k)[i] \in Terminals}
  BY <1>1 DEF TerminalsIn
<1>5. CASE k \notin Terminals
  BY <1>1, <1>2, <1>3, <1>4, <1>5 DEF TerminalsIn
<1>6. CASE k \in Terminals /\ TerminalsIn(s) = {}
  BY <1>1, <1>2, <1>3, <1>4, <1>6 DEF TerminalsIn
<1> QED
  BY <1>5, <1>6

\* The three ways in which a step bears on the answer of task t: a user wins the
\* swap of mark_responded; a user enters or leaves a call without a terminal
\* frame coming of it; the writer takes the frame of a call.
Claims(t, u, k) ==
  /\ ~responded[t] /\ k \in Terminals
  /\ responded' = [responded EXCEPT ![t] = TRUE]
  /\ OpMoves(t, u, k)
  /\ out' = out
Passes(t, u, k) ==
  /\ k \in OpStates \ Terminals
  /\ OpMoves(t, u, k)
  /\ UNCHANGED <<responded, out>>
Sends(t, u) ==
  /\ op[t][u] \in Kinds
  /\ OpMoves(t, u, "idle")
  /\ out' = [out EXCEPT ![t] = Append(out[t], op[t][u])]
  /\ responded' = responded
AnswerStep(t) ==
  \/ \E u \in Users : \E k \in OpStates : Claims(t, u, k) \/ Passes(t, u, k)
  \/ \E u \in Users : Sends(t, u)
  \/ UNCHANGED <<op, responded, out>>

\* The step of a user is one of these.
LEMMA UserAnswers ==
  ASSUME TypeOK, NEW t \in Tasks, NEW u \in Users, UserStep(t, u)
  PROVE  AnswerStep(t)
<1>0. /\ op \in [Tasks -> [Users -> OpStates]]
      /\ "idle" \in OpStates \ Terminals /\ "listening" \in OpStates \ Terminals
      /\ "chunk" \in OpStates \ Terminals /\ Terminals \subseteq OpStates
  BY DEF TypeOK, OpStates, Kinds, Terminals
<1>1. CASE SpawnHelper(t)
  <2>1. "helper" \in Users /\ Passes(t, "helper", "idle")
    BY <1>0, <1>1 DEF SpawnHelper, Passes, OpMoves
  <2> QED
    BY <1>0, <2>1 DEF AnswerStep
<1>2. ASSUME NEW k \in Terminals, CallTerminal(t, u, k) PROVE AnswerStep(t)
  <2>1. Claims(t, u, k)
    BY <1>0, <1>2 DEF CallTerminal, Claims, OpMoves
  <2> QED
    BY <1>0, <2>1 DEF AnswerStep
<1>3. CASE CallChunk(t, u)
  <2>1. Passes(t, u, "chunk")
    BY <1>0, <1>3 DEF CallChunk, Passes, OpMoves
  <2> QED
    BY <1>0, <2>1 DEF AnswerStep
<1>4. CASE AwaitCancelled(t, u)
  <2>1. Passes(t, u, "listening")
    BY <1>0, <1>4 DEF AwaitCancelled, Passes, OpMoves
  <2> QED
    BY <1>0, <2>1 DEF AnswerStep
<1>5. CASE \/ StopListening(t, u) \/ CancelledReturns(t, u)
           \/ \E fault \in {"encode", "lost"} : Fails(t, u, fault)
  <2>1. Passes(t, u, "idle")
    BY <1>0, <1>5
    DEF StopListening, CancelledReturns, Fails, CallEnds, Passes, OpMoves
  <2> QED
    BY <1>0, <2>1 DEF AnswerStep
<1>6. CASE SendSucceeds(t, u)
  <2>1. Sends(t, u)
    BY <1>0, <1>6 DEF SendSucceeds, CallEnds, Sends, OpMoves
  <2> QED
    BY <2>1 DEF AnswerStep
<1>7. CASE DropCall(t, u) \/ EncodeFails(t, u) \/ SendFails(t, u)
  BY <1>5, <1>7 DEF DropCall, EncodeFails, SendFails
<1> QED
  BY <1>1, <1>2, <1>3, <1>4, <1>5, <1>6, <1>7 DEF UserStep, CallStep

\* So is the automatic error, and the other steps of a task bear on no answer.
LEMMA RuntimeAnswers ==
  ASSUME TypeOK, NEW t \in Tasks, RuntimeStep(t)
  PROVE  AnswerStep(t)
<1>0. /\ op \in [Tasks -> [Users -> OpStates]] /\ "task" \in Users
      /\ "response" \in OpStates /\ "response" \in Terminals
  BY DispatchAssumption
  DEF DispatchAssumption, TypeOK, OpStates, Kinds, Terminals
<1>1. CASE AutoError(t)
  <2>1. CASE responded[t] /\ UNCHANGED <<op, responded>>
    BY <1>1, <2>1 DEF AutoError, AnswerStep
  <2>2. CASE ~responded[t]
    <3>1. Claims(t, "task", "response")
      BY <1>0, <1>1, <2>2 DEF AutoError, Claims, OpMoves
    <3> QED
      BY <1>0, <3>1 DEF AnswerStep
  <2> QED
    BY <1>1, <2>1, <2>2 DEF AutoError
<1>2. CASE Invoke(t) \/ CheckResponded(t) \/ Cleanup(t) \/ ReleasePermit(t)
  BY <1>2 DEF Invoke, CheckResponded, Cleanup, ReleasePermit, contextVars, AnswerStep
<1> QED
  BY <1>1, <1>2 DEF RuntimeStep

\* A step on the context of one task keeps the right to answer single: for that
\* task, and for the others, whose context it does not touch.
LEMMA AnswerOnce ==
  ASSUME TypeOK, OneEntitled, NEW t \in Tasks, AnswerStep(t)
  PROVE  OneEntitled'
<1>0. /\ op \in [Tasks -> [Users -> OpStates]]
      /\ responded \in [Tasks -> BOOLEAN] /\ out \in [Tasks -> Seq(Kinds)]
      /\ Entitled(t)
  BY DEF TypeOK, OpStates, OneEntitled
<1>1. ASSUME NEW x \in Tasks, op'[x] = op[x], responded'[x] = responded[x],
             out'[x] = out[x]
      PROVE  Entitled(x)'
  <2>1. Entitled(x)
    BY DEF OneEntitled
  <2> QED
    BY <1>1, <2>1 DEF Entitled
<1>2. ASSUME NEW u \in Users, NEW k \in OpStates, Claims(t, u, k)
      PROVE  OneEntitled'
  <2>1. /\ op'[t][u] = k /\ k \in Terminals
        /\ \A v \in Users : v # u => op'[t][v] = op[t][v]
        /\ \A x \in Tasks : x # t => op'[x] = op[x]
    BY <1>2, OpMoved DEF Claims
  <2>2. /\ responded'[t] /\ ~responded[t] /\ out' = out
        /\ \A x \in Tasks : x # t => responded'[x] = responded[x]
    BY <1>0, <1>2 DEF Claims
  <2>3. TerminalsIn(out[t]) = {} /\ \A v \in Users : op[t][v] \notin Terminals
    BY <1>0, <2>2 DEF Entitled
  <2>4. Entitled(t)'
    BY <2>1, <2>2, <2>3 DEF Entitled
  <2> QED
    BY <1>1, <2>1, <2>2, <2>4 DEF OneEntitled
<1>3. ASSUME NEW u \in Users, NEW k \in OpStates, Passes(t, u, k)
      PROVE  OneEntitled'
  <2>1. /\ op'[t][u] = k /\ k \notin Terminals
        /\ \A v \in Users : v # u => op'[t][v] = op[t][v]
        /\ \A x \in Tasks : x # t => op'[x] = op[x]
    BY <1>3, OpMoved DEF Passes
  <2>2. responded' = responded /\ out' = out
    BY <1>3 DEF Passes
  <2>3. Entitled(t)'
    BY <1>0, <2>1, <2>2 DEF Entitled
  <2> QED
    BY <1>1, <2>1, <2>2, <2>3 DEF OneEntitled
<1>4. ASSUME NEW u \in Users, Sends(t, u) PROVE OneEntitled'
  <2>0. "idle" \in OpStates /\ "idle" \notin Terminals
    BY DEF OpStates, Terminals
  <2>1. /\ op'[t][u] = "idle"
        /\ \A v \in Users : v # u => op'[t][v] = op[t][v]
        /\ \A x \in Tasks : x # t => op'[x] = op[x]
    BY <1>4, <2>0, OpMoved DEF Sends
  <2>2. /\ responded' = responded /\ out'[t] = Append(out[t], op[t][u])
        /\ \A x \in Tasks : x # t => out'[x] = out[x]
        /\ out[t] \in Seq(Kinds) /\ op[t][u] \in Kinds
    BY <1>0, <1>4 DEF Sends
  <2>3. ASSUME op[t][u] \notin Terminals PROVE Entitled(t)'
    <3>1. TerminalsIn(out'[t]) = TerminalsIn(out[t])
      BY <2>2, <2>3, TerminalsAppend
    <3> QED
      BY <1>0, <2>0, <2>1, <2>2, <3>1 DEF Entitled
  <2>4. ASSUME op[t][u] \in Terminals PROVE Entitled(t)'
    <3>1. responded[t] /\ TerminalsIn(out[t]) = {}
      BY <1>0, <2>4 DEF Entitled
    <3>2. TerminalsIn(out'[t]) = {Len(out[t]) + 1}
      BY <2>2, <2>4, <3>1, TerminalsAppend
    <3>3. \A v \in Users : op'[t][v] \notin Terminals
      BY <1>0, <2>0, <2>1, <2>4 DEF Entitled
    <3> QED
      BY <2>2, <3>1, <3>2, <3>3 DEF Entitled
  <2>5. Entitled(t)'
    BY <2>3, <2>4
  <2> QED
    BY <1>1, <2>1, <2>2, <2>5 DEF OneEntitled
<1>5. CASE UNCHANGED <<op, responded, out>>
  BY <1>1, <1>5 DEF OneEntitled
<1> QED
  BY <1>2, <1>3, <1>4, <1>5 DEF AnswerStep

\* Nobody has answered at the start.
LEMMA AnswersInit == Init => OneEntitled
<1> SUFFICES ASSUME Init, NEW t \in Tasks PROVE Entitled(t)
  BY DEF OneEntitled
<1>1. out[t] = << >> /\ \A u \in Users : op[t][u] \in {"idle", "absent"}
  BY DEF Init
<1>2. TerminalsIn(out[t]) = {}
  BY <1>1 DEF TerminalsIn
<1> QED
  BY <1>1, <1>2 DEF Entitled, Terminals

\* Every step keeps the right to answer single.
LEMMA AnswersNext == TypeOK /\ OneEntitled /\ [Next]_vars => OneEntitled'
<1> SUFFICES ASSUME TypeOK, OneEntitled, [Next]_vars PROVE OneEntitled'
  OBVIOUS
<1>1. CASE UNCHANGED <<op, responded, out>>
  BY <1>1 DEF OneEntitled, Entitled
<1>2. CASE UNCHANGED vars
  BY <1>1, <1>2 DEF vars
<1>3. CASE ReaderStep
  BY <1>1, <1>3
  DEF ReaderStep, AdmitRequest, Register, AbortFrame, ReadEnds, contextVars
<1>4. ASSUME NEW t \in Tasks, RuntimeStep(t) PROVE OneEntitled'
  BY <1>4, RuntimeAnswers, AnswerOnce
<1>5. ASSUME NEW t \in Tasks,
             (\E r \in {"Ok", "Err"} : HandlerReturns(t, r)) \/ HandlerPanics(t)
      PROVE  OneEntitled'
  <2>1. CASE \E r \in {"Ok", "Err"} : HandlerReturns(t, r)
    BY <1>1, <2>1 DEF HandlerReturns, contextVars
  <2>2. CASE HandlerPanics(t)
    <3>1. "idle" \in OpStates /\ "idle" \notin Terminals
      BY DEF OpStates, Terminals
    <3>2. "task" \in Users /\ Passes(t, "task", "idle")
      BY <2>2, <3>1, PanicStep DEF Passes
    <3> QED
      BY <3>1, <3>2, AnswerOnce DEF AnswerStep
  <2> QED
    BY <1>5, <2>1, <2>2
<1>6. ASSUME NEW t \in Tasks, NEW u \in Users, UserStep(t, u) PROVE OneEntitled'
  BY <1>6, UserAnswers, AnswerOnce
<1> QED
  BY <1>2, <1>3, <1>4, <1>5, <1>6, NextCases

-----------------------------------------------------------------------------
(* The theorems                                                            *)

\* Every variable keeps its type; the semaphore is never over-filled.
THEOREM DispatchTypes == Spec => []TypeOK
<1>1. CapacityInv => TypeOK
  BY DEF CapacityInv
<1> QED
  BY <1>1, CapacityInvariance, PTL

\* try_acquire_owned, the guard moved into the task, its drop at the end of the
\* block and while a panic unwinds: the permits and their holders always add up
\* to max_concurrent_handlers.
THEOREM PermitsNeverLost == Spec => []PermitsConserved
<1>1. CapacityInv => PermitsConserved
  BY DEF CapacityInv
<1> QED
  BY <1>1, CapacityInvariance, PTL

\* The inductive invariant of the map holds in every reachable state.
THEOREM MapInvariance == Spec => []MapInv
<1>1. Spec => []TypeOK
  BY DispatchTypes
<1>2. MapInv /\ TypeOK /\ [Next]_vars => MapInv'
  BY MapNext
<1> QED
  BY <1>1, <1>2, MapInit, PTL DEF Spec

\* active_contexts and the tasks agree, for any number of requests.
THEOREM MapTracksTasks == Spec => []ContextsTracked
<1>1. MapInv => ContextsTracked
  BY DEF MapInv
<1> QED
  BY <1>1, MapInvariance, PTL

\* An ABORT cancels the request it names and no other, whenever it comes.
THEOREM AbortReachesItsRequest == Spec => []AbortExact
<1>1. MapInv => AbortExact
  BY DEF MapInv
<1> QED
  BY <1>1, MapInvariance, PTL

\* mark_responded's swap: at most one terminal frame per request, whoever races.
THEOREM OneAnswer == Spec => []AtMostOneTerminal
<1>1. Spec => []TypeOK
  BY DispatchTypes
<1>2. OneEntitled /\ TypeOK /\ [Next]_vars => OneEntitled'
  BY AnswersNext
<1>3. OneEntitled => AtMostOneTerminal
  <2> SUFFICES ASSUME OneEntitled, NEW t \in Tasks
               PROVE  Cardinality(TerminalsIn(out[t])) <= 1
    BY DEF AtMostOneTerminal
  <2>1. \A i, j \in TerminalsIn(out[t]) : i = j
    BY DEF OneEntitled, Entitled
  <2>2. CASE TerminalsIn(out[t]) = {}
    BY <2>2, FS_EmptySet
  <2>3. CASE TerminalsIn(out[t]) # {}
    <3>1. PICK i \in TerminalsIn(out[t]) : TerminalsIn(out[t]) = {i}
      BY <2>1, <2>3
    <3>2. Cardinality({i}) = 1
      BY FS_Singleton
    <3> QED
      BY <3>1, <3>2
  <2> QED
    BY <2>2, <2>3
<1> QED
  BY <1>1, <1>2, <1>3, AnswersInit, PTL DEF Spec
=============================================================================
