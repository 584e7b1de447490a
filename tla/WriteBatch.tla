----------------------------- MODULE WriteBatch -----------------------------
(***************************************************************************)
(* One call of write_batch (src/writer.rs): the bytes behind the atomic    *)
(* Write and WriteFails of module Writer.  The batch is handed to          *)
(* write_vectored as slices; the pipe may take any number of bytes, after  *)
(* which build_remaining_slices computes what is left.                     *)
(***************************************************************************)
EXTENDS Wire, SequencesExt

CONSTANT Batches  \* the batches to write: sequences of the calls that sent them

\* A call of RequestContext that answers, or Client::emit, with its arguments.
Calls == [answer : Answers \cup {"emit"}, method_id : 0..(U16 - 1),
          response_type : {"Result", "Stream", "Ack", "None"},
          request_id : 0..(U32 - 1), payload : Seq(Nat)]

ASSUME BatchesAssumption == Batches \subseteq Seq(Calls)

VARIABLES
  batch,          \* the argument of write_batch
  pc,             \* where write_batch is
  slices,         \* the argument of the next write_vectored
  total_written,
  wire,           \* history: the bytes the pipe took in this call
  result

vars == <<batch, pc, slices, total_written, wire, result>>

\* The frame that a call puts into the channel.
FrameSent(c) ==
  IF c.answer = "emit" THEN emit_frame(c.method_id, c.payload)
  ELSE answer_frame(c.answer, c.method_id, c.response_type, c.request_id,
                    c.payload)

\* The bytes of the first i frames, as the loop of build_remaining_slices carries
\* them in `skipped`.
Skipped(b) ==
  LET skipped[i \in 0..Len(b)] ==
        IF i = 0 THEN 0 ELSE skipped[i - 1] + size(b[i])
  IN  skipped

total_size == Skipped(batch)[Len(batch)]

\* The slices of one part (a header or a payload), which starts at byte
\* `start` of the batch, without the first skip_bytes bytes of the batch.
PartSlices(part, start, skip_bytes) ==
  IF part # <<>> /\ skip_bytes < start + Len(part)
  THEN LET from == IF skip_bytes > start THEN skip_bytes - start ELSE 0
       IN  <<SubSeq(part, from + 1, Len(part))>>
  ELSE <<>>

FrameSlices(f, start, skip_bytes) ==
  PartSlices(f.header, start, skip_bytes)
    \o PartSlices(f.payload, start + HEADER_SIZE, skip_bytes)

\* Mutant of build_remaining_slices: `skipped` is not carried from one frame to
\* the next.
RemainingOfEach(b, skip_bytes) ==
  FlattenSeq([i \in 1..Len(b) |-> FrameSlices(b[i], 0, skip_bytes)])

build_remaining_slices(b, skip_bytes) ==
  FlattenSeq([i \in 1..Len(b) |->
    FrameSlices(b[i], Skipped(b)[i - 1], skip_bytes)])

\* The slices of the first write: every header and every payload that is not
\* empty.
AllSlices(b) ==
  FlattenSeq([i \in 1..Len(b) |->
    <<b[i].header>> \o (IF b[i].payload # <<>> THEN <<b[i].payload>> ELSE <<>>)])

-----------------------------------------------------------------------------
Init ==
  /\ \E calls \in Batches :
       batch = [i \in 1..Len(calls) |-> FrameSent(calls[i])]
  /\ pc = "start"
  /\ slices = <<>>
  /\ total_written = 0
  /\ wire = <<>>
  /\ result = "none"

Return(r) ==
  /\ pc' = "done"
  /\ result' = r
  /\ UNCHANGED <<batch, slices, total_written, wire>>

EmptyBatch ==
  /\ pc = "start"
  /\ batch = <<>>
  /\ Return("Ok")

BuildSlices ==
  /\ pc = "start"
  /\ batch # <<>>
  /\ slices' = AllSlices(batch)
  /\ pc' = "first"
  /\ UNCHANGED <<batch, total_written, wire, result>>

\* AsyncWrite::write_vectored: the pipe takes the first n bytes of the slices.
PipeTakes(n) == wire' = wire \o SubSeq(FlattenSeq(slices), 1, n)
Offered      == Len(FlattenSeq(slices))

\* Mutant of FirstWrite: a write that took something is taken for a whole one.
FirstWriteTrusts(n) ==
  /\ pc = "first"
  /\ n \in 1..Offered
  /\ PipeTakes(n)
  /\ pc' = "flush"
  /\ UNCHANGED <<batch, slices, total_written, result>>

\* The fast path: one write that may take everything.
FirstWrite(n) ==
  /\ pc = "first"
  /\ n \in 0..Offered
  /\ PipeTakes(n)
  /\ \/ /\ n = total_size
        /\ pc' = "flush"
        /\ UNCHANGED <<total_written, result>>
     \/ /\ n # total_size
        /\ n = 0
        /\ pc' = "done"
        /\ result' = "WriteZero"
        /\ UNCHANGED total_written
     \/ /\ n \notin {0, total_size}
        /\ pc' = "rest"
        /\ total_written' = n
        /\ UNCHANGED result
  /\ UNCHANGED <<batch, slices>>

\* The head of the while loop and the `break` on no slices.
Rebuild ==
  /\ pc = "rest"
  /\ slices' = IF total_written < total_size
               THEN build_remaining_slices(batch, total_written) ELSE <<>>
  /\ pc' = IF slices' = <<>> THEN "flush" ELSE "next"
  /\ UNCHANGED <<batch, total_written, wire, result>>

\* Mutant of NextWrite: a write that took nothing is tried again.
NextWriteRetries(n) ==
  /\ pc = "next"
  /\ n \in 0..Offered
  /\ PipeTakes(n)
  /\ pc' = "rest"
  /\ total_written' = total_written + n
  /\ UNCHANGED <<batch, slices, result>>

NextWrite(n) ==
  /\ pc = "next"
  /\ n \in 0..Offered
  /\ PipeTakes(n)
  /\ \/ /\ n = 0
        /\ pc' = "done"
        /\ result' = "WriteZero"
        /\ UNCHANGED total_written
     \/ /\ n > 0
        /\ pc' = "rest"
        /\ total_written' = total_written + n
        /\ UNCHANGED result
  /\ UNCHANGED <<batch, slices>>

\* The `?` of either write: the pipe took nothing and failed.
WriteFails ==
  /\ pc \in {"first", "next"}
  /\ Return("Io")

Flush ==
  /\ pc = "flush"
  /\ Return("Ok")

FlushFails ==
  /\ pc = "flush"
  /\ Return("Io")

Done == pc = "done" /\ UNCHANGED vars

Amounts == 0..total_size

Next ==
  \/ EmptyBatch
  \/ BuildSlices
  \/ \E n \in Amounts : FirstWrite(n)
  \/ Rebuild
  \/ \E n \in Amounts : NextWrite(n)
  \/ WriteFails
  \/ Flush
  \/ FlushFails
  \/ Done

Spec == Init /\ [][Next]_vars

\* The runtime polls the task and the parent reads the pipe, so a write ends.
FairSpec == Spec /\ WF_vars(Next)
-----------------------------------------------------------------------------
(* Properties                                                              *)

\* The bytes of the batch.
Contiguous(b) == FlattenSeq([i \in 1..Len(b) |-> b[i].header \o b[i].payload])

\* Where the frame at position p ends for a reader that goes by the length in
\* its header; past the end when not even the header is whole.
FrameEnd(bytes, p) ==
  IF p + HEADER_SIZE <= Len(bytes)
  THEN p + HEADER_SIZE
         + decode(SubSeq(bytes, p + 1, p + HEADER_SIZE)).payload_length
  ELSE Len(bytes) + 1

FrameEnds(bytes) ==
  LET end[i \in 0..Len(bytes)] ==
        IF i = 0 THEN 0 ELSE FrameEnd(bytes, end[i - 1])
  IN  end

\* The frame between two ends.
FrameAt(bytes, p, end) ==
  OutboundFrame(decode(SubSeq(bytes, p + 1, p + HEADER_SIZE)),
                SubSeq(bytes, p + HEADER_SIZE + 1, end))

\* What such a reader finds: the whole frames, as header and payload.
Parsed(bytes) ==
  LET end   == FrameEnds(bytes)
      whole == {i \in 1..Len(bytes) : end[i] <= Len(bytes)}
  IN  [i \in whole |-> FrameAt(bytes, end[i - 1], end[i])]

\* No payload is too long for the length field of its header.
Fits(b) == \A i \in 1..Len(b) : Len(b[i].payload) < U32

\* Whenever a write is about to be issued, the slices are the bytes of the batch
\* that the pipe has not taken, in order, each once, the counter agrees, and no
\* slice is empty: the resumption after a partial write, inside a header, at a
\* seam or inside a payload, loses and repeats nothing.
RemainderExact ==
  pc \in {"first", "next"} =>
    /\ total_written = Len(wire)
    /\ wire \o FlattenSeq(slices) = Contiguous(batch)
    /\ \A i \in 1..Len(slices) : slices[i] # <<>>

\* Ok means that every byte was taken, and an error that a prefix was: module
\* Writer may treat the call as one step that puts a number of whole frames on
\* the wire, all of them if it succeeds.
OutcomeExact ==
  /\ IsPrefix(wire, Contiguous(batch))
  /\ result = "Ok" => wire = Contiguous(batch)

\* At any moment a reader that has only the bytes finds the first frames of the
\* batch as they were sent, and in the end all of them -- exactly as long
\* as no payload has 2^32 bytes or more, when `len() as u32` makes the header
\* disagree with what follows it.  The gathered writes leave the same bytes as
\* build_frame, which copies each frame into one buffer.
FramesRecovered ==
  /\ Fits(batch) => IsPrefix(Parsed(wire), batch)
  /\ result = "Ok" =>
       /\ Parsed(wire) = batch <=> Fits(batch)
       /\ wire = FlattenSeq([i \in 1..Len(batch) |->
                   build_frame(decode(batch[i].header), batch[i].payload)])

\* The loop comes to an end: a pipe that takes nothing is an error, not a retry.
BatchEnds == <>(pc = "done")
=============================================================================
