------------------------------ MODULE Dispatch ------------------------------
(***************************************************************************)
(* Requests from arrival to release (src/client.rs read_loop and           *)
(* dispatch_frame, src/handler/context.rs RequestContext).                 *)
(*                                                                         *)
(* The read loop takes frames one at a time.  A request takes a permit of  *)
(* the semaphore, enters the map of active contexts and gets a task of its *)
(* own; the task runs the handler, answers for it when it fails, leaves    *)
(* the map and gives the permit back.  The handler answers through its     *)
(* RequestContext, which it may clone into a helper task that outlives it. *)
(*                                                                         *)
(* Of a frame only its request id is kept.  A stray AUTH frame, an         *)
(* unexpected response, and a request that finds no permit left change     *)
(* nothing and have no action: the last is dropped without an answer.      *)
(* WriterHandle is represented by its outcome (module Writer,              *)
(* OutcomeIsTruthful): a send puts the frame in the stream and returns Ok, *)
(* or returns an error and the frame is nowhere.                           *)
(***************************************************************************)
EXTENDS Integers, Sequences, FiniteSets

CONSTANTS
  Tasks,          \* bound of the model: requests that get a task
  NoTask,
  MaxId,          \* bound of the model: the parent's request ids
  MaxConcurrent,  \* max_concurrent_handlers: permits of the semaphore
  MaxChunks,      \* bound of the model: chunks per request
  Users,          \* who uses a RequestContext: the spawned "task" (the handler,
                  \* later the automatic error), a "helper" with a clone
  SendMayFail,    \* writer.send may return an error
  EncodeMayFail,  \* MsgPackCodec::encode may return an error
  MayListen       \* handlers wait for their cancellation

ASSUME DispatchAssumption ==
  /\ IsFiniteSet(Tasks) /\ NoTask \notin Tasks
  /\ MaxId \in Nat /\ MaxConcurrent \in Nat /\ MaxChunks \in Nat
  /\ "task" \in Users /\ Users \subseteq {"task", "helper"}
  /\ SendMayFail \in BOOLEAN /\ EncodeMayFail \in BOOLEAN
  /\ MayListen \in BOOLEAN

\* The parent numbers requests from 1 and repeats no number in a session; 0
\* stands for "no answer expected" and may occur any number of times.
Ids == 0..MaxId

\* A terminal call either encodes a payload (respond, error, error_with) or
\* has nothing to encode (respond_raw, respond_bytes, ack, end).
Terminals == {"response", "signal"}
Kinds == Terminals \cup {"chunk"}

VARIABLES
  reader,     \* read_loop: "ready", "registering" a request, or "ended"
  permits,    \* Semaphore: permits left
  contexts,   \* active_contexts: id -> the task whose token is stored
  phase,      \* where each task is
  reqId,      \* its header.request_id
  op,         \* per task and user: the frame kind of the call it is in, or
              \* "listening" in cancelled().await
  responded,  \* RequestContext::responded
  cancelled,  \* its CancellationToken
  outcome,    \* what registry.dispatch returned
  out,        \* history: kinds of its frames the writer accepted, in order
  faults,     \* history: how calls of its context failed
  aborted     \* history: tasks for which an ABORT came while they were active

contextVars == <<op, responded, out, faults>>
vars == <<reader, permits, contexts, phase, reqId, op, responded,
          cancelled, outcome, out, faults, aborted>>

\* "registering" has its permit, waits for the lock of active_contexts
\* "spawned"     tokio::spawn done, registry.dispatch not yet begun
\* "running"     in the handler
\* "failing"     dispatch returned Err, has_responded() not yet read
\* "autoError"   in ctx.error() on the handler's behalf
\* "cleanup"     waits for the lock to leave the map
\* "releasing"   has left it, still holds the permit
\* "panicked"    the handler panicked: the permit is back, the entry stays
Active == {"spawned", "running", "failing", "autoError", "cleanup"}
Holding == Active \cup {"registering", "releasing"}
Phases == Holding \cup {"none", "done", "panicked"}

Init ==
  /\ reader = "ready"
  /\ permits = MaxConcurrent
  /\ contexts = [i \in Ids |-> NoTask]
  /\ phase = [t \in Tasks |-> "none"]
  /\ reqId = [t \in Tasks |-> 0]
  /\ op = [t \in Tasks |-> [u \in Users |-> IF u = "task" THEN "idle" ELSE "absent"]]
  /\ responded = [t \in Tasks |-> FALSE]
  /\ cancelled = [t \in Tasks |-> FALSE]
  /\ outcome = [t \in Tasks |-> "none"]
  /\ out = [t \in Tasks |-> <<>>]
  /\ faults = [t \in Tasks |-> {}]
  /\ aborted = {}

-----------------------------------------------------------------------------
(* dispatch_frame, on the read loop                                        *)

Fresh(i) == i = 0 \/ \A t \in Tasks : phase[t] # "none" => reqId[t] # i

\* try_acquire_owned succeeds: the request gets a task.
AdmitRequest(i) ==
  /\ reader = "ready"
  /\ Fresh(i)
  /\ permits > 0
  /\ \E t \in Tasks :
       /\ phase[t] = "none"
       /\ phase' = [phase EXCEPT ![t] = "registering"]
       /\ reqId' = [reqId EXCEPT ![t] = i]
  /\ permits' = permits - 1
  /\ reader' = "registering"
  /\ UNCHANGED <<contexts, contextVars, cancelled, outcome, aborted>>

\* Under the write lock the new token enters the map, over any entry with the
\* same id; then the task is spawned.
Register(t) ==
  /\ phase[t] = "registering"
  /\ contexts' = [contexts EXCEPT ![reqId[t]] = t]
  /\ phase' = [phase EXCEPT ![t] = "spawned"]
  /\ reader' = "ready"
  /\ UNCHANGED <<permits, reqId, contextVars, cancelled, outcome,
                 aborted>>

\* Mutant of AbortFrame: the entry is taken out of the map and dropped, which
\* does not cancel its token.
AbortDrops(i) ==
  /\ reader = "ready"
  /\ contexts' = [contexts EXCEPT ![i] = NoTask]
  /\ aborted' = aborted \cup {t \in Tasks : reqId[t] = i /\ phase[t] \in Active}
  /\ UNCHANGED <<reader, permits, phase, reqId, contextVars, cancelled, outcome>>

\* An ABORT frame: cancel the token found under its id, if there is one.
AbortFrame(i) ==
  /\ reader = "ready"
  /\ cancelled' = [t \in Tasks |-> cancelled[t] \/ contexts[i] = t]
  /\ aborted' = aborted \cup {t \in Tasks : reqId[t] = i /\ phase[t] \in Active}
  /\ UNCHANGED <<reader, permits, contexts, phase, reqId,
                 contextVars, outcome>>

\* The connection ends or brings a malformed frame; running tasks go on.
ReadEnds ==
  /\ reader = "ready"
  /\ reader' = "ended"
  /\ UNCHANGED <<permits, contexts, phase, reqId, contextVars,
                 cancelled, outcome, aborted>>

-----------------------------------------------------------------------------
(* The spawned task                                                        *)

\* registry.dispatch: an unknown method, or a payload that does not decode,
\* is an Err before any handler code runs.
Invoke(t) ==
  /\ phase[t] = "spawned"
  /\ \/ /\ phase' = [phase EXCEPT ![t] = "failing"]
        /\ outcome' = [outcome EXCEPT ![t] = "Err"]
     \/ /\ phase' = [phase EXCEPT ![t] = "running"]
        /\ UNCHANGED outcome
  /\ UNCHANGED <<reader, permits, contexts, reqId, contextVars,
                 cancelled, aborted>>

HandlerReturns(t, r) ==
  /\ phase[t] = "running"
  /\ op[t]["task"] = "idle"
  /\ outcome' = [outcome EXCEPT ![t] = r]
  /\ phase' = [phase EXCEPT ![t] = IF r = "Ok" THEN "cleanup" ELSE "failing"]
  /\ UNCHANGED <<reader, permits, contexts, reqId, contextVars,
                 cancelled, aborted>>

\* User code may panic between the handler's calls, beside one it has joined
\* with other work, and inside one (T::serialize, in the encode of respond and
\* chunk).  The call is then gone, its frame unsent; mark_responded is not taken
\* back.
PanicUnwinds(t) ==
  /\ phase[t] = "running"
  /\ phase' = [phase EXCEPT ![t] = "panicked"]
  /\ op' = [op EXCEPT ![t]["task"] = "idle"]
  /\ faults' = IF op[t]["task"] \in Kinds
               THEN [faults EXCEPT ![t] = @ \cup {"lost"}] ELSE faults

\* Mutant of HandlerPanics: the permit was forgotten, not held by a guard.
PanicKeepsPermit(t) ==
  /\ PanicUnwinds(t)
  /\ UNCHANGED <<reader, permits, contexts, reqId, responded, cancelled,
                 outcome, out, aborted>>

\* A panic unwinds the task: the permit is dropped, nothing else is done.
HandlerPanics(t) ==
  /\ PanicUnwinds(t)
  /\ permits' = permits + 1
  /\ UNCHANGED <<reader, contexts, reqId, responded, cancelled,
                 outcome, out, aborted>>

\* Mutant of CheckResponded: the task leaves the map before it answers.
CheckRemovesFirst(t) ==
  /\ phase[t] = "failing"
  /\ phase' = [phase EXCEPT ![t] = IF responded[t] THEN "cleanup" ELSE "autoError"]
  /\ contexts' = [contexts EXCEPT ![reqId[t]] = NoTask]
  /\ UNCHANGED <<reader, permits, reqId, contextVars, cancelled, outcome,
                 aborted>>

\* if !ctx.has_responded()
CheckResponded(t) ==
  /\ phase[t] = "failing"
  /\ phase' = [phase EXCEPT ![t] = IF responded[t] THEN "cleanup" ELSE "autoError"]
  /\ UNCHANGED <<reader, permits, contexts, reqId, contextVars,
                 cancelled, outcome, aborted>>

\* Mutant of AutoError: a store in place of mark_responded's swap.
AutoErrorStores(t) ==
  /\ phase[t] = "autoError"
  /\ op[t]["task"] = "idle"
  /\ responded' = [responded EXCEPT ![t] = TRUE]
  /\ op' = [op EXCEPT ![t]["task"] = "response"]
  /\ UNCHANGED <<reader, permits, contexts, phase, reqId, cancelled,
                 outcome, out, faults, aborted>>

\* Mutant of AutoError: when the swap is lost the task waits for the winner.
AutoErrorWaits(t) ==
  /\ phase[t] = "autoError"
  /\ op[t]["task"] = "idle"
  /\ ~responded[t]
  /\ responded' = [responded EXCEPT ![t] = TRUE]
  /\ op' = [op EXCEPT ![t]["task"] = "response"]
  /\ UNCHANGED <<reader, permits, contexts, phase, reqId, cancelled,
                 outcome, out, faults, aborted>>

\* ctx.error(): its mark_responded may still lose to a helper's.
AutoError(t) ==
  /\ phase[t] = "autoError"
  /\ op[t]["task"] = "idle"
  /\ \/ /\ responded[t]
        /\ phase' = [phase EXCEPT ![t] = "cleanup"]
        /\ UNCHANGED <<op, responded>>
     \/ /\ ~responded[t]
        /\ responded' = [responded EXCEPT ![t] = TRUE]
        /\ op' = [op EXCEPT ![t]["task"] = "response"]
        /\ UNCHANGED phase
  /\ UNCHANGED <<reader, permits, contexts, reqId, cancelled,
                 outcome, out, faults, aborted>>

\* Mutant of Cleanup: an early return after an error skips the removal.
CleanupOnSuccess(t) ==
  /\ phase[t] = "cleanup"
  /\ contexts' = IF outcome[t] = "Ok"
                 THEN [contexts EXCEPT ![reqId[t]] = NoTask] ELSE contexts
  /\ phase' = [phase EXCEPT ![t] = "releasing"]
  /\ UNCHANGED <<reader, permits, reqId, contextVars, cancelled,
                 outcome, aborted>>

\* Under the write lock: contexts.remove(&request_id).
Cleanup(t) ==
  /\ phase[t] = "cleanup"
  /\ contexts' = [contexts EXCEPT ![reqId[t]] = NoTask]
  /\ phase' = [phase EXCEPT ![t] = "releasing"]
  /\ UNCHANGED <<reader, permits, reqId, contextVars, cancelled,
                 outcome, aborted>>

\* Mutant of ReleasePermit: add_permits by hand and the guard's drop.
ReleaseTwice(t) ==
  /\ phase[t] = "releasing"
  /\ permits' = permits + 2
  /\ phase' = [phase EXCEPT ![t] = "done"]
  /\ UNCHANGED <<reader, contexts, reqId, contextVars, cancelled,
                 outcome, aborted>>

\* End of the block: the lock guard is dropped first, then the permit.
ReleasePermit(t) ==
  /\ phase[t] = "releasing"
  /\ permits' = permits + 1
  /\ phase' = [phase EXCEPT ![t] = "done"]
  /\ UNCHANGED <<reader, contexts, reqId, contextVars, cancelled,
                 outcome, aborted>>

-----------------------------------------------------------------------------
(* RequestContext, used by the handler and by a helper it spawned          *)

MayCall(t, u) == op[t][u] = "idle" /\ (u = "task" => phase[t] = "running")

\* The automatic error is no call of user code: it encodes a string, which
\* cannot fail, and nobody drops its future.
Automatic(t, u) == u = "task" /\ phase[t] = "autoError"

\* The handler moves a clone of its context, token included, into a task.
SpawnHelper(t) ==
  /\ "helper" \in Users
  /\ phase[t] = "running"
  /\ op[t]["helper"] = "absent"
  /\ op' = [op EXCEPT ![t]["helper"] = "idle"]
  /\ UNCHANGED <<reader, permits, contexts, phase, reqId,
                 responded, cancelled, outcome, out, faults, aborted>>

is_cancelled(t) == cancelled[t]

\* ctx.cancelled().await, usually as a branch of a select
AwaitCancelled(t, u) ==
  /\ MayListen
  /\ MayCall(t, u)
  /\ op' = [op EXCEPT ![t][u] = "listening"]
  /\ UNCHANGED <<reader, permits, contexts, phase, reqId, responded, cancelled,
                 outcome, out, faults, aborted>>

StopListening(t, u) ==
  /\ op[t][u] = "listening"
  /\ op' = [op EXCEPT ![t][u] = "idle"]
  /\ UNCHANGED <<reader, permits, contexts, phase, reqId, responded, cancelled,
                 outcome, out, faults, aborted>>

\* The token was cancelled: the future is ready.
CancelledReturns(t, u) == is_cancelled(t) /\ StopListening(t, u)

\* respond, respond_raw, respond_bytes, ack, end, error, error_with: the swap of
\* mark_responded.  The call that finds the flag set returns
\* ResponseAlreadySent and changes nothing.
CallTerminal(t, u, k) ==
  /\ MayCall(t, u)
  /\ ~responded[t]
  /\ responded' = [responded EXCEPT ![t] = TRUE]
  /\ op' = [op EXCEPT ![t][u] = k]
  /\ UNCHANGED <<reader, permits, contexts, phase, reqId,
                 cancelled, outcome, out, faults, aborted>>

\* Mutant of CallChunk: chunk() marks the request as responded, as if it were
\* terminal.
CallChunkMarks(t, u) ==
  /\ MayCall(t, u)
  /\ Len(SelectSeq(out[t], LAMBDA k : k = "chunk")) < MaxChunks
  /\ op' = [op EXCEPT ![t][u] = "chunk"]
  /\ responded' = [responded EXCEPT ![t] = TRUE]
  /\ UNCHANGED <<reader, permits, contexts, phase, reqId,
                 cancelled, outcome, out, faults, aborted>>

\* chunk, chunk_raw, chunk_bytes: the flag is not looked at.
CallChunk(t, u) ==
  /\ MayCall(t, u)
  /\ Len(SelectSeq(out[t], LAMBDA k : k = "chunk")) < MaxChunks
  /\ op' = [op EXCEPT ![t][u] = "chunk"]
  /\ UNCHANGED <<reader, permits, contexts, phase, reqId,
                 responded, cancelled, outcome, out, faults, aborted>>

\* The call of user u is over; after the automatic error the task cleans up.
CallEnds(t, u) ==
  /\ op' = [op EXCEPT ![t][u] = "idle"]
  /\ phase' = IF Automatic(t, u) THEN [phase EXCEPT ![t] = "cleanup"] ELSE phase

Fails(t, u, fault) ==
  /\ op[t][u] \in Kinds
  /\ CallEnds(t, u)
  /\ faults' = [faults EXCEPT ![t] = @ \cup {fault}]
  /\ UNCHANGED <<reader, permits, contexts, reqId, responded,
                 cancelled, outcome, out, aborted>>

\* MsgPackCodec::encode(payload)? returns before anything is sent.
EncodeFails(t, u) ==
  /\ EncodeMayFail
  /\ ~Automatic(t, u)
  /\ op[t][u] \in {"response", "chunk"}
  /\ Fails(t, u, "encode")

\* send_frame, send_frame_empty: writer.send returned Ok.
SendSucceeds(t, u) ==
  /\ op[t][u] \in Kinds
  /\ out' = [out EXCEPT ![t] = Append(@, op[t][u])]
  /\ CallEnds(t, u)
  /\ UNCHANGED <<reader, permits, contexts, reqId, responded,
                 cancelled, outcome, faults, aborted>>

\* ... or BackpressureTimeout or ConnectionClosed.
SendFails(t, u) == SendMayFail /\ Fails(t, u, "lost")

\* The user drops the future of its call while writer.send waits.
DropCall(t, u) == ~Automatic(t, u) /\ Fails(t, u, "lost")

-----------------------------------------------------------------------------
ReaderStep ==
  \/ \E i \in Ids : AdmitRequest(i) \/ AbortFrame(i)
  \/ \E t \in Tasks : Register(t)
  \/ ReadEnds

RuntimeStep(t) ==
  \/ Invoke(t)
  \/ CheckResponded(t)
  \/ AutoError(t)
  \/ Cleanup(t)
  \/ ReleasePermit(t)

HandlerStep(t) ==
  \/ \E r \in {"Ok", "Err"} : HandlerReturns(t, r)
  \/ HandlerPanics(t)
  \/ SpawnHelper(t)
  \/ \E u \in Users : \/ \E k \in Terminals : CallTerminal(t, u, k)
                      \/ CallChunk(t, u)
                      \/ DropCall(t, u)
                      \/ AwaitCancelled(t, u)
                      \/ StopListening(t, u)  \* the select's other branch

CallStep(t, u) ==
  EncodeFails(t, u) \/ SendSucceeds(t, u) \/ SendFails(t, u)
    \/ CancelledReturns(t, u)

\* The connection is closed and no task is left.
Finished ==
  /\ reader = "ended"
  /\ \A t \in Tasks : phase[t] \in {"none", "done", "panicked"}
  /\ UNCHANGED vars

Next ==
  \/ ReaderStep
  \/ \E t \in Tasks :
       RuntimeStep(t) \/ HandlerStep(t) \/ \E u \in Users : CallStep(t, u)
  \/ Finished

Spec == Init /\ [][Next]_vars

\* Tasks are polled, locks of active_contexts are handed out in order, a call of
\* writer.send returns (module Writer, SendReturns), and a cancelled token wakes
\* who waits for it.  Nothing is
\* assumed of the parent's frames or of the handler's code.
Fairness ==
  \A t \in Tasks :
    /\ WF_vars(Register(t) \/ RuntimeStep(t))
    /\ \A u \in Users : WF_vars(CallStep(t, u))

FairSpec == Spec /\ Fairness
-----------------------------------------------------------------------------
(* Properties                                                              *)

\* Every variable has its type; the semaphore never holds more permits than it
\* was created with.
TypeOK ==
  /\ reader \in {"ready", "registering", "ended"}
  /\ permits \in 0..MaxConcurrent
  /\ contexts \in [Ids -> Tasks \cup {NoTask}]
  /\ phase \in [Tasks -> Phases]
  /\ reqId \in [Tasks -> Ids]
  /\ op \in [Tasks -> [Users -> Kinds \cup {"idle", "absent", "listening"}]]
  /\ responded \in [Tasks -> BOOLEAN]
  /\ cancelled \in [Tasks -> BOOLEAN]
  /\ outcome \in [Tasks -> {"none", "Ok", "Err"}]
  /\ out \in [Tasks -> Seq(Kinds)]
  /\ faults \in [Tasks -> SUBSET {"encode", "lost"}]
  /\ aborted \in SUBSET Tasks

\* Every permit is either in the semaphore or held by exactly one unfinished
\* task, also after panics: capacity is never lost and never invented.
PermitsConserved ==
  permits + Cardinality({t \in Tasks : phase[t] \in Holding}) = MaxConcurrent

\* The map of active contexts and the tasks agree: a task with an id of its own
\* is found under it from before its first step until it has nothing left to
\* abort, and no entry outlives its task, except that of a handler that
\* panicked.
ContextsTracked ==
  /\ \A t \in Tasks :
       phase[t] \in Active /\ reqId[t] # 0 => contexts[reqId[t]] = t
  /\ \A i \in Ids : \A t \in Tasks :
       contexts[i] = t => reqId[t] = i /\ phase[t] \in Active \cup {"panicked"}

\* An ABORT reaches the request it names if that is still active, whatever the
\* task is doing at the time, and never another one.
AbortExact ==
  \A t \in Tasks :
    reqId[t] # 0 =>
      /\ t \in aborted => cancelled[t]
      /\ cancelled[t] => t \in aborted \/ phase[t] = "panicked"

\* Whoever waits for the cancellation of a request that was aborted while it was
\* active comes out of the wait, the handler as well as a helper that has
\* outlived it: a long-running stream can rely on ABORT to end it.
AbortWakes ==
  \A t \in Tasks : \A u \in Users :
    (t \in aborted /\ reqId[t] # 0 /\ op[t][u] = "listening")
      ~> (op[t][u] # "listening")

TerminalsIn(s) == {i \in 1..Len(s) : s[i] \in Terminals}

\* However the handler, its helper and the automatic error race, at most one
\* terminal frame is sent for a request.
AtMostOneTerminal == \A t \in Tasks : Cardinality(TerminalsIn(out[t])) <= 1

Answered(t) ==
  TerminalsIn(out[t]) # {} \/ \E u \in Users : op[t][u] \in Terminals

\* A task that is not inside handler code comes to an end, or to the handler:
\* the permit and the map entry are given back also when the automatic error
\* loses its race or cannot be sent.
TaskReleased ==
  \A t \in Tasks :
    (phase[t] \in Holding \ {"running"}) ~> (phase[t] \in {"running", "done"})

\* The request of a handler that failed, after chunks or before any, gets a
\* terminal frame, unless a call on its context failed.  Nothing is asked of a
\* request that was aborted: docs/01-PROTOCOL-SPEC.md wants no answer to it, and
\* the task, which does not look at the token, sends one all the same.
FailureEventuallyAnswered ==
  \A t \in Tasks :
    (outcome[t] = "Err")
      ~> (TerminalsIn(out[t]) # {} \/ faults[t] # {} \/ t \in aborted)

\* What README.md says of a handler that returns Err without having responded:
\* the parent gets an error response, unless the writer refuses it or user code
\* drops the call that was sending one.
ErrAlwaysAnswered ==
  \A t \in Tasks :
    /\ outcome[t] = "Err"
    /\ phase[t] \in {"cleanup", "releasing", "done"}
    /\ faults[t] \subseteq {"encode"}
    => Answered(t)
=============================================================================
