------------------------------- MODULE Writer -------------------------------
(***************************************************************************)
(* The outbound path of the client (src/writer.rs).  Every handler owns a  *)
(* clone of WriterHandle and calls send() or try_send(); the frames go     *)
(* through a bounded mpsc channel to one writer task, which takes them in  *)
(* batches and writes them to the pipe.  An atomic counter `pending`,      *)
(* shared by all of them, decides when a sender has to wait.               *)
(*                                                                         *)
(* One action is one step no other thread can be seen inside of: an atomic *)
(* operation on `pending`, an operation on the channel, or one batch       *)
(* written.  A frame is <<sender, n>>, the n-th frame that sender tried to *)
(* send; its bytes are the business of module WriteBatch.                  *)
(***************************************************************************)
EXTENDS Integers, Sequences, FiniteSets

CONSTANTS
  Senders,          \* holders of a WriterHandle clone
  MaxPending,       \* WriterConfig::max_pending_frames
  ChannelCapacity,  \* WriterConfig::channel_capacity
  MaxBatchSize,     \* MAX_BATCH_SIZE
  MaxSends          \* bound of the model: calls per sender

\* mpsc::channel panics on capacity 0; usize makes the limits naturals.
ASSUME WriterAssumption ==
  /\ IsFiniteSet(Senders)
  /\ MaxPending \in Nat
  /\ ChannelCapacity \in Nat \ {0}
  /\ MaxBatchSize \in Nat \ {0}
  /\ MaxSends \in Nat

VARIABLES
  pending,   \* Arc<AtomicUsize>: the shared pending-frame counter
  channel,   \* frames in the mpsc channel, head first
  rxOpen,    \* the Receiver is alive
  sender,    \* where each sender is in send()/try_send()
  call,      \* which of the two it is in
  sent,      \* how many calls each sender has started
  result,    \* what its last call returned
  wstate,    \* where the writer task is in writer_loop
  batch,     \* writer_loop's batch
  wire,      \* history: frames whose last byte was written to the pipe
  accepted,  \* history: frames the channel accepted, in order
  stranded   \* history: increments of `pending` that no one will undo

handleVars == <<sender, call, sent, result>>
taskVars   == <<wstate, batch, wire>>
vars == <<pending, channel, rxOpen, sender, call, sent, result,
          wstate, batch, wire, accepted, stranded>>

Calls   == {"send", "try_send"}
Errors  == {"BackpressureTimeout", "ConnectionClosed"}
Results == {"none", "Ok", "dropped"} \cup Errors

\* "waiting"  in wait_for_backpressure
\* "admitted" saw pending < max_pending and will increment it
\* "sending"  incremented it and is in the channel's send
\* "undo"     the channel refused the frame: the decrement is still to come
\* "gone"     dropped its handle
SenderStates == {"idle", "waiting", "admitted", "sending", "undo", "gone"}

\* "ended" is a return of Ok(()), "failed" a return of Err
WriterStates == {"recv", "collect", "writing", "release", "ended", "failed"}

Frames == Senders \X (1..MaxSends)
FrameOf(s) == <<s, sent[s]>>

\* The senders that hold an increment of `pending` for a frame that is in
\* neither the channel nor the batch.
InFlight == {s \in Senders : sender[s] \in {"sending", "undo"}}
Admitted == {s \in Senders : sender[s] = "admitted"}
Sending  == {s \in Senders : sender[s] = "sending"}

Init ==
  /\ pending = 0
  /\ channel = <<>>
  /\ rxOpen = TRUE
  /\ sender = [s \in Senders |-> "idle"]
  /\ call = [s \in Senders |-> "send"]
  /\ sent = [s \in Senders |-> 0]
  /\ result = [s \in Senders |-> "none"]
  /\ wstate = "recv"
  /\ batch = <<>>
  /\ wire = <<>>
  /\ accepted = <<>>
  /\ stranded = 0

-----------------------------------------------------------------------------
(* WriterHandle::send and WriterHandle::try_send                           *)

Return(s, r) ==
  /\ sender' = [sender EXCEPT ![s] = "idle"]
  /\ result' = [result EXCEPT ![s] = r]

\* Mutant of Begin: `>` for `>=`, so the limit itself still admits a sender.
BeginAtLimit(s, c) ==
  /\ sender[s] = "idle"
  /\ sent[s] < MaxSends
  /\ sent' = [sent EXCEPT ![s] = @ + 1]
  /\ call' = [call EXCEPT ![s] = c]
  /\ \/ /\ pending <= MaxPending
        /\ sender' = [sender EXCEPT ![s] = "admitted"]
        /\ UNCHANGED result
     \/ /\ pending > MaxPending
        /\ Return(s, "BackpressureTimeout")
  /\ UNCHANGED <<pending, channel, rxOpen, taskVars, accepted, stranded>>

\* The first load of `pending`: at the limit send() starts to wait and
\* try_send() gives up.
Begin(s, c) ==
  /\ sender[s] = "idle"
  /\ sent[s] < MaxSends
  /\ sent' = [sent EXCEPT ![s] = @ + 1]
  /\ call' = [call EXCEPT ![s] = c]
  /\ \/ /\ pending < MaxPending
        /\ sender' = [sender EXCEPT ![s] = "admitted"]
        /\ UNCHANGED result
     \/ /\ pending >= MaxPending
        /\ c = "send"
        /\ sender' = [sender EXCEPT ![s] = "waiting"]
        /\ UNCHANGED result
     \/ /\ pending >= MaxPending
        /\ c = "try_send"
        /\ Return(s, "BackpressureTimeout")
  /\ UNCHANGED <<pending, channel, rxOpen, taskVars, accepted, stranded>>

\* Mutant of Poll: the wait is not bounded by the timeout.
PollForever(s) ==
  /\ sender[s] = "waiting"
  /\ pending < MaxPending
  /\ sender' = [sender EXCEPT ![s] = "admitted"]
  /\ UNCHANGED <<pending, channel, rxOpen, call, sent, result, taskVars,
                 accepted, stranded>>

\* Mutant of Poll: the sender goes on after the wait whether there is room or
\* not.
PollOnce(s) ==
  /\ sender[s] = "waiting"
  /\ sender' = [sender EXCEPT ![s] = "admitted"]
  /\ UNCHANGED <<pending, channel, rxOpen, call, sent, result, taskVars,
                 accepted, stranded>>

\* One turn of wait_for_backpressure: the counter is looked at first, the
\* clock only if there is still no room.
Poll(s) ==
  /\ sender[s] = "waiting"
  /\ \/ /\ pending < MaxPending
        /\ sender' = [sender EXCEPT ![s] = "admitted"]
        /\ UNCHANGED result
     \/ /\ pending >= MaxPending
        /\ Return(s, "BackpressureTimeout")
  /\ UNCHANGED <<pending, channel, rxOpen, call, sent, taskVars, accepted,
                 stranded>>

\* pending.fetch_add(1), a step apart from the load that admitted the sender.
Reserve(s) ==
  /\ sender[s] = "admitted"
  /\ pending' = pending + 1
  /\ sender' = [sender EXCEPT ![s] = "sending"]
  /\ UNCHANGED <<channel, rxOpen, call, sent, result, taskVars, accepted,
                 stranded>>

\* tx.send / tx.try_send finds room.  send() stays here while there is none.
Enqueue(s) ==
  /\ sender[s] = "sending"
  /\ rxOpen
  /\ Len(channel) < ChannelCapacity
  /\ channel' = Append(channel, FrameOf(s))
  /\ accepted' = Append(accepted, FrameOf(s))
  /\ Return(s, "Ok")
  /\ UNCHANGED <<pending, rxOpen, call, sent, taskVars, stranded>>

\* Mutant of Refuse: a closed channel is not reported to the caller.
RefuseSilently(s) ==
  /\ sender[s] = "sending"
  /\ ~rxOpen \/ (call[s] = "try_send" /\ Len(channel) >= ChannelCapacity)
  /\ result' = [result EXCEPT ![s] = "Ok"]
  /\ sender' = [sender EXCEPT ![s] = "undo"]
  /\ UNCHANGED <<pending, channel, rxOpen, call, sent, taskVars, accepted,
                 stranded>>

\* The channel refuses the frame: the receiver is gone, or try_send() found
\* the channel full.
Refuse(s) ==
  /\ sender[s] = "sending"
  /\ \/ /\ ~rxOpen
        /\ result' = [result EXCEPT ![s] = "ConnectionClosed"]
     \/ /\ rxOpen
        /\ call[s] = "try_send"
        /\ Len(channel) >= ChannelCapacity
        /\ result' = [result EXCEPT ![s] = "BackpressureTimeout"]
  /\ sender' = [sender EXCEPT ![s] = "undo"]
  /\ UNCHANGED <<pending, channel, rxOpen, call, sent, taskVars, accepted,
                 stranded>>

\* Mutant of Undo: the decrement runs twice, in map_err and on return.
UndoTwice(s) ==
  /\ sender[s] = "undo"
  /\ pending' = pending - 2
  /\ sender' = [sender EXCEPT ![s] = "idle"]
  /\ UNCHANGED <<channel, rxOpen, call, sent, result, taskVars, accepted,
                 stranded>>

\* The map_err closure: pending.fetch_sub(1).
Undo(s) ==
  /\ sender[s] = "undo"
  /\ pending' = pending - 1
  /\ sender' = [sender EXCEPT ![s] = "idle"]
  /\ UNCHANGED <<channel, rxOpen, call, sent, result, taskVars, accepted,
                 stranded>>

\* The caller drops the future of send() at one of its two await points (a
\* select! that lost, a timeout, an aborted task).  An increment already made
\* is not undone: nothing runs map_err.
DropFuture(s) ==
  /\ call[s] = "send"
  /\ sender[s] \in {"waiting", "sending"}
  /\ Return(s, "dropped")
  /\ stranded' = stranded + (IF sender[s] = "sending" THEN 1 ELSE 0)
  /\ UNCHANGED <<pending, channel, rxOpen, call, sent, taskVars, accepted>>

DropHandle(s) ==
  /\ sender[s] = "idle"
  /\ sender' = [sender EXCEPT ![s] = "gone"]
  /\ UNCHANGED <<pending, channel, rxOpen, call, sent, result, taskVars,
                 accepted, stranded>>

-----------------------------------------------------------------------------
(* writer_loop                                                             *)

\* rx.recv() yields the first frame of a batch.
Receive ==
  /\ wstate = "recv"
  /\ channel # <<>>
  /\ batch' = <<Head(channel)>>
  /\ channel' = Tail(channel)
  /\ wstate' = "collect"
  /\ UNCHANGED <<pending, rxOpen, handleVars, wire, accepted, stranded>>

\* Mutant of Shutdown: the task stops as soon as the last handle is gone.
ShutdownEarly ==
  /\ wstate = "recv"
  /\ \A s \in Senders : sender[s] = "gone"
  /\ wstate' = "ended"
  /\ rxOpen' = FALSE
  /\ UNCHANGED <<pending, channel, handleVars, batch, wire, accepted, stranded>>

\* rx.recv() yields None: the channel is empty and every handle is gone.
Shutdown ==
  /\ wstate = "recv"
  /\ channel = <<>>
  /\ \A s \in Senders : sender[s] = "gone"
  /\ wstate' = "ended"
  /\ rxOpen' = FALSE
  /\ UNCHANGED <<pending, channel, handleVars, batch, wire, accepted, stranded>>

\* Mutant of Collect: a frame received when the batch is full is dropped.
CollectOneTooMany ==
  /\ wstate = "collect"
  /\ \/ /\ channel # <<>>
        /\ batch' = IF Len(batch) < MaxBatchSize
                    THEN Append(batch, Head(channel)) ELSE batch
        /\ channel' = Tail(channel)
        /\ UNCHANGED wstate
     \/ /\ channel = <<>>
        /\ wstate' = "writing"
        /\ UNCHANGED <<batch, channel>>
  /\ UNCHANGED <<pending, rxOpen, handleVars, wire, accepted, stranded>>

\* One turn of the try_recv loop; it ends when the batch is full or the
\* channel is empty.
Collect ==
  /\ wstate = "collect"
  /\ \/ /\ Len(batch) < MaxBatchSize
        /\ channel # <<>>
        /\ batch' = Append(batch, Head(channel))
        /\ channel' = Tail(channel)
        /\ UNCHANGED wstate
     \/ /\ Len(batch) >= MaxBatchSize \/ channel = <<>>
        /\ wstate' = "writing"
        /\ UNCHANGED <<batch, channel>>
  /\ UNCHANGED <<pending, rxOpen, handleVars, wire, accepted, stranded>>

\* write_batch returns Ok.
Write ==
  /\ wstate = "writing"
  /\ wire' = wire \o batch
  /\ wstate' = "release"
  /\ UNCHANGED <<pending, channel, rxOpen, handleVars, batch, accepted, stranded>>

\* write_batch returns Err after k whole frames (k = Len(batch) when only the
\* flush failed).  The `?` leaves writer_loop: the receiver is dropped with
\* all that was queued, and `pending` is not touched.
WriteFails ==
  /\ wstate = "writing"
  /\ \E k \in 0..Len(batch) : wire' = wire \o SubSeq(batch, 1, k)
  /\ wstate' = "failed"
  /\ rxOpen' = FALSE
  /\ stranded' = stranded + Len(batch) + Len(channel)
  /\ batch' = <<>>
  /\ channel' = <<>>
  /\ UNCHANGED <<pending, handleVars, accepted>>

\* Mutant of Release: one decrement for the whole batch.
ReleaseOne ==
  /\ wstate = "release"
  /\ pending' = pending - 1
  /\ batch' = <<>>
  /\ wstate' = "recv"
  /\ UNCHANGED <<channel, rxOpen, handleVars, wire, accepted, stranded>>

\* pending.fetch_sub(batch_size)
Release ==
  /\ wstate = "release"
  /\ pending' = pending - Len(batch)
  /\ batch' = <<>>
  /\ wstate' = "recv"
  /\ UNCHANGED <<channel, rxOpen, handleVars, wire, accepted, stranded>>

-----------------------------------------------------------------------------
SenderStep(s) ==
  \/ \E c \in Calls : Begin(s, c)
  \/ Poll(s)
  \/ Reserve(s)
  \/ Enqueue(s)
  \/ Refuse(s)
  \/ Undo(s)
  \/ DropFuture(s)
  \/ DropHandle(s)

WriterStep == Receive \/ Shutdown \/ Collect \/ Write \/ WriteFails \/ Release

\* Everyone has left: the only state in which the component may stop.
Finished ==
  /\ \A s \in Senders : sender[s] = "gone"
  /\ wstate \in {"ended", "failed"}
  /\ UNCHANGED vars

Next == (\E s \in Senders : SenderStep(s)) \/ WriterStep \/ Finished

Spec == Init /\ [][Next]_vars

\* The runtime polls every ready task, sleep() wakes up, and tokio's channel
\* gives free slots to its waiters in order (hence SF on Enqueue).  Dropping a
\* future or a handle, and a failing pipe, are never promised.
SenderFairness ==
  \A s \in Senders :
    /\ WF_vars(Poll(s) \/ Reserve(s) \/ Refuse(s) \/ Undo(s))
    /\ SF_vars(Enqueue(s))

\* The writer task is polled; Write also needs a parent that reads the pipe.
TaskFairness == WF_vars(Receive \/ Shutdown \/ Collect \/ Release)
DrainFairness == WF_vars(Write)

FairSpec    == Spec /\ SenderFairness /\ TaskFairness /\ DrainFairness
StalledSpec == Spec /\ SenderFairness /\ TaskFairness
-----------------------------------------------------------------------------
(* Properties                                                              *)

\* Every variable has its type; in particular `pending`, a usize that is
\* decremented in three places, never wraps below zero, and neither the
\* channel nor the batch grows past its capacity.
TypeOK ==
  /\ pending \in Nat
  /\ channel \in Seq(Frames) /\ Len(channel) <= ChannelCapacity
  /\ rxOpen \in BOOLEAN
  /\ sender \in [Senders -> SenderStates]
  /\ call \in [Senders -> Calls]
  /\ sent \in [Senders -> 0..MaxSends]
  /\ result \in [Senders -> Results]
  /\ wstate \in WriterStates
  /\ batch \in Seq(Frames) /\ Len(batch) <= MaxBatchSize
  /\ wire \in Seq(Frames)
  /\ accepted \in Seq(Frames)
  /\ stranded \in Nat

\* The counter is exact in every interleaving of the senders' increments and
\* decrements with the writer's batched one: it counts the frames queued, the
\* frames in the batch, the calls between fetch_add and the channel, and the
\* increments that a dropped future or a failed pipe left behind, no others.
PendingExact ==
  pending = Len(channel) + Len(batch) + Cardinality(InFlight) + stranded

\* The load and the fetch_add of send() and try_send() are two steps, so the
\* limit can be overrun, but by at most one frame for each other sender: the
\* senders that are past the load are counted as if they had incremented.
OvershootBound ==
  LET claims == pending + Cardinality(Admitted)
  IN  claims > 0 => claims < MaxPending + Cardinality(Senders)

\* The senders that wait on the full channel in tx.send(frame).await, which no
\* timeout guards, are those the limit and its overrun leave over: none at all if
\* the channel has room for both, when the timeout of wait_for_backpressure
\* bounds the whole call.
ChannelWaitBounded ==
  Sending # {} /\ Len(channel) = ChannelCapacity =>
    ChannelCapacity + Cardinality(Sending) < MaxPending + Cardinality(Senders)

\* What a finished call returned is what happened: its frame is in the stream
\* if and only if the call returned Ok.  After an error, and after the future
\* was dropped, the frame is never sent behind the caller's back.
OutcomeIsTruthful ==
  \A s \in Senders :
    sender[s] \in {"idle", "gone"} /\ sent[s] > 0 =>
      (result[s] = "Ok" <=> \E i \in 1..Len(accepted) : accepted[i] = FrameOf(s))

\* The calls, the channel and the writer task together implement FrameStream:
\* frames are written in the order the channel accepted them, none twice, none
\* skipped, none after a failed write, and an orderly end of writer_loop comes
\* only when everything accepted has been written.
Stream == INSTANCE FrameStream WITH
            delivered <- wire,
            status <- CASE wstate = "failed" -> "broken"
                        [] wstate = "ended"  -> "ended"
                        [] OTHER             -> "open"
ImplementsFrameStream == Stream!StreamSpec

\* Every call of send() or try_send() returns (or is dropped by its caller), also
\* when the pipe has failed and `pending` will never fall below the limit again.
SendReturns ==
  \A s \in Senders :
    (sender[s] \notin {"idle", "gone"}) ~> (sender[s] \in {"idle", "gone"})

\* A frame the channel accepted reaches the pipe, unless the pipe fails first.
AcceptedIsWritten ==
  \A f \in Frames :
    (\E i \in 1..Len(accepted) : accepted[i] = f)
      ~> (wstate = "failed" \/ \E i \in 1..Len(wire) : wire[i] = f)
=============================================================================
