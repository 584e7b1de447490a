---------------------------- MODULE WriterProofs ----------------------------
(***************************************************************************)
(* Proofs about Writer, for any finite set of senders and any limits.      *)
(*                                                                         *)
(* The counter's exactness carries everything: `pending` is a natural      *)
(* because a decrement always finds its increment in one of the terms of   *)
(* PendingExact.                                                           *)
(*                                                                         *)
(* Writer implements FrameStream, and a call's result says whether its     *)
(* frame is in the stream: what the channel accepted is at all times what  *)
(* was written, followed by what the batch still has to write, followed by *)
(* what is queued.                                                         *)
(***************************************************************************)
EXTENDS Writer, FiniteSetTheorems, SequenceTheorems, TLAPS

\* The writer holds a batch only between recv() and the decrement, and a
\* call in progress has been counted in `sent`.
Shape ==
  /\ wstate \in {"recv", "ended", "failed"} => batch = <<>>
  /\ \A s \in Senders : sender[s] \notin {"idle", "gone"} => sent[s] > 0

IndInv == TypeOK /\ PendingExact /\ OvershootBound /\ Shape

-----------------------------------------------------------------------------
(* Counting senders                                                        *)

\* A set of senders is finite and no larger than Senders.
LEMMA SendersCount ==
  ASSUME NEW T \in SUBSET Senders
  PROVE  /\ IsFiniteSet(T)
         /\ Cardinality(T) \in Nat
         /\ Cardinality(T) <= Cardinality(Senders)
         /\ Cardinality(Senders) \in Nat
BY WriterAssumption, FS_Subset, FS_CardinalityType DEF WriterAssumption

\* Two sets that agree on all senders but s differ by at most one in size.
LEMMA CountMove ==
  ASSUME NEW T \in SUBSET Senders, NEW U \in SUBSET Senders,
         NEW s \in Senders,
         \A t \in Senders : t # s => (t \in T <=> t \in U)
  PROVE  Cardinality(U) = Cardinality(T) + (IF s \in U THEN 1 ELSE 0)
                                         - (IF s \in T THEN 1 ELSE 0)
<1> Cardinality(T) \in Nat /\ IsFiniteSet(T)
  BY SendersCount
<1>1. CASE (s \in T) = (s \in U)
  <2> T = U
    BY <1>1
  <2> QED
    BY <1>1
<1>2. CASE s \in U /\ s \notin T
  <2>1. U = T \cup {s}
    BY <1>2
  <2>2. Cardinality(T \cup {s}) = Cardinality(T) + 1
    BY <1>2, FS_AddElement
  <2> QED
    BY <1>2, <2>1, <2>2
<1>3. CASE s \notin U /\ s \in T
  <2>1. U = T \ {s}
    BY <1>3
  <2>2. Cardinality(T \ {s}) = Cardinality(T) - 1
    BY <1>3, FS_RemoveElement
  <2> QED
    BY <1>3, <2>1, <2>2
<1> QED
  BY <1>1, <1>2, <1>3

\* Sender s moves to state q, the others stay where they are.
Moves(s, q) ==
  /\ sender \in [Senders -> SenderStates]
  /\ sender' = [sender EXCEPT ![s] = q]

\* What that does to the counts.
LEMMA MovedCounts ==
  ASSUME NEW s \in Senders, NEW q \in SenderStates,
         Moves(s, q)
  PROVE  /\ Cardinality(InFlight') =
              Cardinality(InFlight)
                + (IF q \in {"sending", "undo"} THEN 1 ELSE 0)
                - (IF sender[s] \in {"sending", "undo"} THEN 1 ELSE 0)
         /\ Cardinality(Admitted') =
              Cardinality(Admitted)
                + (IF q = "admitted" THEN 1 ELSE 0)
                - (IF sender[s] = "admitted" THEN 1 ELSE 0)
         /\ Cardinality(Admitted') <= Cardinality(Senders)
<1>1. /\ InFlight \in SUBSET Senders /\ InFlight' \in SUBSET Senders
      /\ \A t \in Senders : t # s => (t \in InFlight <=> t \in InFlight')
      /\ s \in InFlight' <=> q \in {"sending", "undo"}
      /\ s \in InFlight <=> sender[s] \in {"sending", "undo"}
  BY DEF InFlight, Moves
<1>2. /\ Admitted \in SUBSET Senders /\ Admitted' \in SUBSET Senders
      /\ \A t \in Senders : t # s => (t \in Admitted <=> t \in Admitted')
      /\ s \in Admitted' <=> q = "admitted"
      /\ s \in Admitted <=> sender[s] = "admitted"
  BY DEF Admitted, Moves
<1>3. Cardinality(InFlight') =
        Cardinality(InFlight) + (IF s \in InFlight' THEN 1 ELSE 0)
                              - (IF s \in InFlight THEN 1 ELSE 0)
  BY <1>1, CountMove
<1>4. Cardinality(Admitted') =
        Cardinality(Admitted) + (IF s \in Admitted' THEN 1 ELSE 0)
                              - (IF s \in Admitted THEN 1 ELSE 0)
  BY <1>2, CountMove
<1>5. Cardinality(Admitted') <= Cardinality(Senders)
  BY <1>2, SendersCount
<1> QED
  BY <1>1, <1>2, <1>3, <1>4, <1>5

\* Steps that leave the senders alone leave the counts alone.
LEMMA UnmovedCounts ==
  ASSUME sender' = sender
  PROVE  /\ Cardinality(InFlight') = Cardinality(InFlight)
         /\ Cardinality(Admitted') = Cardinality(Admitted)
BY DEF InFlight, Admitted

\* The counts are naturals.
LEMMA CountsNat ==
  /\ Cardinality(InFlight) \in Nat
  /\ Cardinality(Admitted) \in Nat
  /\ Cardinality(Senders) \in Nat
BY SendersCount DEF InFlight, Admitted

-----------------------------------------------------------------------------
(* The inductive invariant                                                 *)

\* The first state satisfies the inductive invariant.
LEMMA InitInd == Init => IndInv
<1> SUFFICES ASSUME Init PROVE IndInv
  OBVIOUS
<1>1. InFlight = {} /\ Admitted = {}
  BY DEF Init, InFlight, Admitted
<1>2. Cardinality(InFlight) = 0 /\ Cardinality(Admitted) = 0
  BY <1>1, FS_EmptySet
<1>3. TypeOK
  BY WriterAssumption
  DEF Init, TypeOK, WriterAssumption, Frames, SenderStates, WriterStates,
      Calls, Results
<1>4. PendingExact /\ OvershootBound
  BY <1>2 DEF Init, PendingExact, OvershootBound
<1>5. Shape
  BY DEF Init, Shape
<1> QED
  BY <1>3, <1>4, <1>5 DEF IndInv

\* A sender's step (send, try_send, a dropped future, a dropped handle)
\* preserves the inductive invariant.
LEMMA SenderStepInd ==
  ASSUME IndInv, NEW s \in Senders, SenderStep(s)
  PROVE  IndInv'
<1> USE WriterAssumption DEF WriterAssumption, IndInv, SenderStates
<1>0. /\ Cardinality(InFlight) \in Nat /\ Cardinality(Admitted) \in Nat
      /\ Cardinality(Senders) \in Nat
      /\ sender \in [Senders -> SenderStates]
      /\ Len(channel) \in Nat /\ Len(batch) \in Nat
      /\ pending \in Nat /\ stranded \in Nat
  BY CountsNat DEF TypeOK
<1>1. ASSUME NEW c \in Calls, Begin(s, c) PROVE IndInv'
  <2>1. PICK q \in {"admitted", "waiting", "idle"} :
           /\ Moves(s, q)
           /\ q = "admitted" => pending < MaxPending
    BY <1>1 DEF Begin, Return, Moves, TypeOK
  <2>2. TypeOK'
    <3>1. sent' \in [Senders -> 0..MaxSends] /\ call' \in [Senders -> Calls]
      BY <1>1 DEF Begin, TypeOK
    <3>2. result' \in [Senders -> Results]
      BY <1>1 DEF Begin, Return, TypeOK, Results, Errors
    <3>3. sender' \in [Senders -> SenderStates]
      BY <2>1 DEF Moves, TypeOK
    <3> QED
      BY <1>1, <3>1, <3>2, <3>3 DEF Begin, TypeOK, taskVars
  <2>3. /\ Cardinality(InFlight') = Cardinality(InFlight)
        /\ Cardinality(Admitted') = Cardinality(Admitted)
                                      + (IF q = "admitted" THEN 1 ELSE 0)
        /\ Cardinality(Admitted') <= Cardinality(Senders)
    <3>1. sender[s] = "idle"
      BY <1>1 DEF Begin
    <3> QED
      BY <1>0, <2>1, <3>1, MovedCounts
  <2>4. PendingExact' /\ OvershootBound'
    BY <1>0, <1>1, <2>1, <2>3 DEF Begin, PendingExact, OvershootBound, taskVars
  <2>5. Shape'
    BY <1>1, <2>1 DEF Begin, Shape, TypeOK, Moves, taskVars
  <2> QED
    BY <2>2, <2>4, <2>5
<1>2. CASE Poll(s)
  <2>1. PICK q \in {"admitted", "idle"} :
           /\ Moves(s, q)
           /\ q = "admitted" => pending < MaxPending
    BY <1>2 DEF Poll, Return, Moves, TypeOK
  <2>2. TypeOK'
    <3>1. result' \in [Senders -> Results]
      BY <1>2 DEF Poll, Return, TypeOK, Results, Errors
    <3>2. sender' \in [Senders -> SenderStates]
      BY <2>1 DEF Moves, TypeOK
    <3> QED
      BY <1>2, <3>1, <3>2 DEF Poll, TypeOK, taskVars
  <2>3. /\ Cardinality(InFlight') = Cardinality(InFlight)
        /\ Cardinality(Admitted') = Cardinality(Admitted)
                                      + (IF q = "admitted" THEN 1 ELSE 0)
        /\ Cardinality(Admitted') <= Cardinality(Senders)
    <3>1. sender[s] = "waiting"
      BY <1>2 DEF Poll
    <3> QED
      BY <1>0, <2>1, <3>1, MovedCounts
  <2>4. PendingExact' /\ OvershootBound'
    BY <1>0, <1>2, <2>1, <2>3 DEF Poll, PendingExact, OvershootBound, taskVars
  <2>5. Shape'
    BY <1>2, <2>1 DEF Poll, Shape, TypeOK, Moves, taskVars
  <2> QED
    BY <2>2, <2>4, <2>5
<1>3. CASE Reserve(s)
  <2>1. TypeOK'
    BY <1>0, <1>3 DEF Reserve, TypeOK, taskVars
  <2>2. /\ Cardinality(InFlight') = Cardinality(InFlight) + 1
        /\ Cardinality(Admitted') = Cardinality(Admitted) - 1
    <3>1. sender[s] = "admitted" /\ Moves(s, "sending")
      BY <1>3 DEF Reserve, Moves, TypeOK
    <3> QED
      BY <1>0, <3>1, MovedCounts
  <2>3. PendingExact' /\ OvershootBound'
    <3>1. /\ pending' = pending + 1 /\ stranded' = stranded
          /\ Len(channel') = Len(channel) /\ Len(batch') = Len(batch)
      BY <1>3 DEF Reserve, taskVars
    <3>2. PendingExact'
      BY <1>0, <2>2, <3>1 DEF PendingExact
    <3>3. pending' + Cardinality(Admitted') = pending + Cardinality(Admitted)
      BY <1>0, <2>2, <3>1
    <3> QED
      BY <3>2, <3>3 DEF OvershootBound
  <2>4. Shape'
    BY <1>3 DEF Reserve, Shape, TypeOK, Moves, taskVars
  <2> QED
    BY <2>1, <2>3, <2>4
<1>4. CASE Enqueue(s)
  <2>1. FrameOf(s) \in Frames
    <3>1. sender[s] = "sending"
      BY <1>4 DEF Enqueue
    <3>2. sent[s] \in 0..MaxSends
      BY DEF TypeOK
    <3>3. sent[s] > 0
      BY <3>1 DEF Shape
    <3>4. sent[s] \in 1..MaxSends
      BY <3>2, <3>3
    <3> QED
      BY <3>4 DEF FrameOf, Frames
  <2>2. /\ channel' \in Seq(Frames) /\ accepted' \in Seq(Frames)
        /\ Len(channel') = Len(channel) + 1
    BY <1>4, <2>1 DEF Enqueue, TypeOK
  <2>3. TypeOK'
    BY <1>0, <1>4, <2>2 DEF Enqueue, Return, TypeOK, Results, taskVars
  <2>4. /\ Cardinality(InFlight') = Cardinality(InFlight) - 1
        /\ Cardinality(Admitted') = Cardinality(Admitted)
    <3>1. sender[s] = "sending" /\ Moves(s, "idle")
      BY <1>4 DEF Enqueue, Return, Moves, TypeOK
    <3> QED
      BY <1>0, <3>1, MovedCounts
  <2>5. PendingExact' /\ OvershootBound'
    BY <1>0, <1>4, <2>2, <2>4
    DEF Enqueue, PendingExact, OvershootBound, taskVars
  <2>6. Shape'
    BY <1>4 DEF Enqueue, Return, Shape, TypeOK, Moves, taskVars
  <2> QED
    BY <2>3, <2>5, <2>6
<1>5. CASE Refuse(s)
  <2>1. sender[s] = "sending" /\ Moves(s, "undo")
    BY <1>5 DEF Refuse, Moves, TypeOK
  <2>2. TypeOK'
    <3>1. result' \in [Senders -> Results]
      BY <1>5 DEF Refuse, TypeOK, Results, Errors
    <3> QED
      BY <1>5, <2>1, <3>1 DEF Refuse, TypeOK, Moves, taskVars
  <2>3. /\ Cardinality(InFlight') = Cardinality(InFlight)
        /\ Cardinality(Admitted') = Cardinality(Admitted)
    BY <1>0, <2>1, MovedCounts
  <2>4. PendingExact' /\ OvershootBound'
    BY <1>0, <1>5, <2>3 DEF Refuse, PendingExact, OvershootBound, taskVars
  <2>5. Shape'
    BY <1>5, <2>1 DEF Refuse, Shape, TypeOK, Moves, taskVars
  <2> QED
    BY <2>2, <2>4, <2>5
<1>6. CASE Undo(s)
  <2>1. sender[s] = "undo" /\ Moves(s, "idle")
    BY <1>6 DEF Undo, Moves, TypeOK
  <2>2. /\ Cardinality(InFlight') = Cardinality(InFlight) - 1
        /\ Cardinality(InFlight') \in Nat
        /\ Cardinality(Admitted') = Cardinality(Admitted)
    <3>1. InFlight' \in SUBSET Senders
      BY DEF InFlight
    <3> QED
      BY <1>0, <2>1, <3>1, MovedCounts, SendersCount
  <2>3. pending' \in Nat
    BY <1>0, <1>6, <2>2 DEF Undo, PendingExact
  <2>4. TypeOK'
    BY <1>6, <2>3 DEF Undo, TypeOK, taskVars
  <2>5. PendingExact' /\ OvershootBound'
    <3>1. /\ pending' = pending - 1 /\ stranded' = stranded
          /\ Len(channel') = Len(channel) /\ Len(batch') = Len(batch)
      BY <1>6 DEF Undo, taskVars
    <3>2. PendingExact'
      BY <1>0, <2>2, <3>1 DEF PendingExact
    <3>3. pending' + Cardinality(Admitted') = pending + Cardinality(Admitted) - 1
      BY <1>0, <2>2, <3>1
    <3>4. pending + Cardinality(Admitted) \in Nat
      BY <1>0
    <3> QED
      BY <1>0, <3>2, <3>3, <3>4 DEF OvershootBound
  <2>6. Shape'
    BY <1>6 DEF Undo, Shape, TypeOK, Moves, taskVars
  <2> QED
    BY <2>4, <2>5, <2>6
<1>7. CASE DropFuture(s)
  <2>1. /\ sender[s] \in {"waiting", "sending"}
        /\ Moves(s, "idle")
        /\ stranded' = stranded + (IF sender[s] = "sending" THEN 1 ELSE 0)
    BY <1>7 DEF DropFuture, Return, Moves, TypeOK
  <2>2. /\ Cardinality(InFlight') =
             Cardinality(InFlight) - (IF sender[s] = "sending" THEN 1 ELSE 0)
        /\ Cardinality(Admitted') = Cardinality(Admitted)
    BY <1>0, <2>1, MovedCounts
  <2>3. TypeOK'
    BY <1>0, <1>7, <2>1 DEF DropFuture, Return, Moves, TypeOK, Results, taskVars
  <2>4. PendingExact' /\ OvershootBound'
    BY <1>0, <1>7, <2>1, <2>2
    DEF DropFuture, PendingExact, OvershootBound, taskVars
  <2>5. Shape'
    BY <1>7, <2>1 DEF DropFuture, Shape, TypeOK, Moves, taskVars
  <2> QED
    BY <2>3, <2>4, <2>5
<1>8. CASE DropHandle(s)
  <2>1. sender[s] = "idle" /\ Moves(s, "gone")
    BY <1>8 DEF DropHandle, Moves, TypeOK
  <2>2. /\ Cardinality(InFlight') = Cardinality(InFlight)
        /\ Cardinality(Admitted') = Cardinality(Admitted)
    BY <1>0, <2>1, MovedCounts
  <2>3. TypeOK'
    BY <1>8 DEF DropHandle, TypeOK, taskVars
  <2>4. PendingExact' /\ OvershootBound'
    BY <1>0, <1>8, <2>2 DEF DropHandle, PendingExact, OvershootBound, taskVars
  <2>5. Shape'
    BY <1>8 DEF DropHandle, Shape, TypeOK, Moves, taskVars
  <2> QED
    BY <2>3, <2>4, <2>5
<1> QED
  BY <1>1, <1>2, <1>3, <1>4, <1>5, <1>6, <1>7, <1>8 DEF SenderStep

\* A step of the writer task preserves the inductive invariant.
LEMMA WriterStepInd ==
  ASSUME IndInv, WriterStep
  PROVE  IndInv'
<1> USE WriterAssumption DEF WriterAssumption, IndInv, WriterStates
<1>0. /\ Cardinality(InFlight) \in Nat /\ Cardinality(Admitted) \in Nat
      /\ Cardinality(Senders) \in Nat
      /\ Len(channel) \in Nat /\ Len(batch) \in Nat
      /\ pending \in Nat /\ stranded \in Nat
  BY CountsNat DEF TypeOK
<1>1. /\ sender' = sender /\ sent' = sent /\ call' = call /\ result' = result
      /\ accepted' = accepted
  BY DEF WriterStep, Receive, Shutdown, Collect, Write, WriteFails, Release,
         handleVars
<1>2. /\ Cardinality(InFlight') = Cardinality(InFlight)
      /\ Cardinality(Admitted') = Cardinality(Admitted)
  BY <1>1, UnmovedCounts
<1>3. \A s \in Senders : sender'[s] \notin {"idle", "gone"} => sent'[s] > 0
  BY <1>1 DEF Shape
<1>4. ASSUME pending' <= pending, pending' \in Nat
      PROVE  OvershootBound'
  BY <1>0, <1>2, <1>4 DEF OvershootBound
<1>5. CASE Receive
  <2>1. /\ wstate = "recv" /\ channel \in Seq(Frames) /\ channel # <<>>
        /\ batch = <<>> /\ Len(channel) <= ChannelCapacity
    BY <1>5 DEF Receive, Shape, TypeOK
  <2>2. /\ batch' \in Seq(Frames) /\ Len(batch') = 1
        /\ channel' \in Seq(Frames) /\ Len(channel') = Len(channel) - 1
    BY <1>5, <2>1 DEF Receive
  <2>3. TypeOK'
    BY <1>0, <1>1, <1>5, <2>1, <2>2 DEF Receive, TypeOK
  <2>4. PendingExact'
    BY <1>0, <1>2, <1>5, <2>1, <2>2 DEF Receive, PendingExact
  <2>5. Shape'
    BY <1>3, <1>5 DEF Receive, Shape
  <2> QED
    BY <1>0, <1>4, <1>5, <2>3, <2>4, <2>5 DEF Receive
<1>6. CASE Shutdown
  <2>1. TypeOK'
    BY <1>0, <1>1, <1>6 DEF Shutdown, TypeOK
  <2>2. PendingExact' /\ OvershootBound'
    BY <1>0, <1>2, <1>4, <1>6 DEF Shutdown, PendingExact
  <2>3. Shape'
    BY <1>3, <1>6 DEF Shutdown, Shape
  <2> QED
    BY <2>1, <2>2, <2>3
<1>7. CASE Collect
  <2>1. CASE /\ Len(batch) < MaxBatchSize
             /\ channel # <<>>
             /\ batch' = Append(batch, Head(channel))
             /\ channel' = Tail(channel)
             /\ wstate' = wstate
    <3>1. /\ channel \in Seq(Frames) /\ batch \in Seq(Frames)
          /\ Len(channel) <= ChannelCapacity
      BY DEF TypeOK
    <3>2. /\ Head(channel) \in Frames
          /\ channel' \in Seq(Frames) /\ Len(channel') = Len(channel) - 1
      BY <2>1, <3>1
    <3>3. batch' \in Seq(Frames) /\ Len(batch') = Len(batch) + 1
      BY <2>1, <3>1, <3>2
    <3>4. TypeOK'
      BY <1>0, <1>1, <1>7, <2>1, <3>1, <3>2, <3>3 DEF Collect, TypeOK
    <3>5. PendingExact'
      BY <1>0, <1>2, <1>7, <3>2, <3>3 DEF Collect, PendingExact
    <3>6. Shape'
      BY <1>3, <1>7, <2>1 DEF Collect, Shape
    <3> QED
      BY <1>0, <1>4, <1>7, <3>4, <3>5, <3>6 DEF Collect
  <2>2. CASE wstate' = "writing" /\ batch' = batch /\ channel' = channel
    <3>1. TypeOK'
      BY <1>0, <1>1, <1>7, <2>2 DEF Collect, TypeOK
    <3>2. PendingExact'
      BY <1>0, <1>2, <1>7, <2>2 DEF Collect, PendingExact
    <3>3. Shape'
      BY <1>3, <2>2 DEF Shape
    <3> QED
      BY <1>0, <1>4, <1>7, <3>1, <3>2, <3>3 DEF Collect
  <2> QED
    BY <1>7, <2>1, <2>2 DEF Collect
<1>8. CASE Write
  <2>1. wire' \in Seq(Frames)
    BY <1>8 DEF Write, TypeOK
  <2>2. TypeOK'
    BY <1>0, <1>1, <1>8, <2>1 DEF Write, TypeOK
  <2>3. PendingExact' /\ OvershootBound'
    BY <1>0, <1>2, <1>4, <1>8 DEF Write, PendingExact
  <2>4. Shape'
    BY <1>3, <1>8 DEF Write, Shape
  <2> QED
    BY <2>2, <2>3, <2>4
<1>9. CASE WriteFails
  <2>1. wire' \in Seq(Frames)
    <3>1. PICK k \in 0..Len(batch) : wire' = wire \o SubSeq(batch, 1, k)
      BY <1>9 DEF WriteFails
    <3>2. wire \in Seq(Frames) /\ batch \in Seq(Frames)
      BY DEF TypeOK
    <3>3. SubSeq(batch, 1, k) \in Seq(Frames)
      BY <3>1, <3>2
    <3> QED
      BY <3>1, <3>2, <3>3
  <2>2. /\ batch' = <<>> /\ channel' = <<>> /\ pending' = pending
        /\ wstate' = "failed" /\ rxOpen' = FALSE
        /\ stranded' = stranded + Len(batch) + Len(channel)
    BY <1>9 DEF WriteFails
  <2>3. TypeOK'
    <3>1. /\ batch' \in Seq(Frames) /\ Len(batch') <= MaxBatchSize
          /\ channel' \in Seq(Frames) /\ Len(channel') <= ChannelCapacity
      BY <2>2
    <3>2. stranded' \in Nat /\ pending' \in Nat
      BY <1>0, <2>2
    <3>3. wstate' \in WriterStates /\ rxOpen' \in BOOLEAN
      BY <2>2
    <3> QED
      BY <1>1, <2>1, <3>1, <3>2, <3>3 DEF TypeOK
  <2>4. PendingExact' /\ OvershootBound'
    BY <1>0, <1>2, <1>4, <2>2 DEF PendingExact
  <2>5. Shape'
    BY <1>3, <2>2 DEF Shape
  <2> QED
    BY <2>3, <2>4, <2>5
<1>10. CASE Release
  <2>1. /\ batch' = <<>> /\ channel' = channel /\ wstate' = "recv"
        /\ pending' = pending - Len(batch) /\ stranded' = stranded
        /\ rxOpen' = rxOpen /\ wire' = wire
    BY <1>10 DEF Release
  <2>2. pending' \in Nat /\ pending' <= pending
    BY <1>0, <2>1 DEF PendingExact
  <2>3. TypeOK'
    <3>1. batch' \in Seq(Frames) /\ Len(batch') <= MaxBatchSize
      BY <2>1
    <3>2. pending' \in Nat
      BY <2>2
    <3>3. wstate' \in WriterStates
      BY <2>1
    <3> QED
      BY <1>1, <2>1, <3>1, <3>2, <3>3 DEF TypeOK
  <2>4. PendingExact' /\ OvershootBound'
    BY <1>0, <1>2, <1>4, <2>1, <2>2 DEF PendingExact
  <2>5. Shape'
    BY <1>3, <2>1 DEF Shape
  <2> QED
    BY <2>3, <2>4, <2>5
<1> QED
  BY <1>5, <1>6, <1>7, <1>8, <1>9, <1>10 DEF WriterStep

\* Every step preserves the inductive invariant.
LEMMA NextInd == IndInv /\ [Next]_vars => IndInv'
<1> SUFFICES ASSUME IndInv, [Next]_vars PROVE IndInv'
  OBVIOUS
<1>1. CASE \E s \in Senders : SenderStep(s)
  BY <1>1, SenderStepInd
<1>2. CASE WriterStep
  BY <1>2, WriterStepInd
<1>3. CASE UNCHANGED vars
  <2>1. /\ InFlight' = InFlight /\ Admitted' = Admitted
    BY <1>3 DEF vars, InFlight, Admitted
  <2> QED
    BY <1>3, <2>1
    DEF vars, IndInv, TypeOK, PendingExact, OvershootBound, Shape
<1> QED
  BY <1>1, <1>2, <1>3 DEF Next, Finished

-----------------------------------------------------------------------------
(* The theorems                                                            *)

\* The inductive invariant holds in every reachable state.
THEOREM Invariance == Spec => []IndInv
<1> QED
  BY InitInd, NextInd, PTL DEF Spec

\* Types, and with them: `pending` never wraps below zero, and neither the
\* channel nor a batch outgrows its capacity.
THEOREM TypeCorrect == Spec => []TypeOK
<1>1. IndInv => TypeOK
  BY DEF IndInv
<1> QED
  BY <1>1, Invariance, PTL

\* The counter is exact: no interleaving of the increments of send() and
\* try_send(), their decrements in map_err and the writer's batched decrement
\* loses or duplicates a count.
THEOREM CounterExact == Spec => []PendingExact
<1>1. IndInv => PendingExact
  BY DEF IndInv
<1> QED
  BY <1>1, Invariance, PTL

\* The race between load and fetch_add overruns max_pending by at most one
\* frame for each other holder of a handle.
THEOREM OvershootBounded == Spec => []OvershootBound
<1>1. IndInv => OvershootBound
  BY DEF IndInv
<1> QED
  BY <1>1, Invariance, PTL

\* The senders waiting in the unguarded tx.send(frame).await are at most those
\* that limit and overrun leave over; with enough room in the channel, none.
THEOREM SendRarelyBlocked == Spec => []ChannelWaitBounded
<1>1. IndInv => ChannelWaitBounded
  <2> SUFFICES ASSUME IndInv, Sending # {}, Len(channel) = ChannelCapacity
               PROVE  ChannelCapacity + Cardinality(Sending)
                        < MaxPending + Cardinality(Senders)
    BY DEF ChannelWaitBounded
  <2>1. /\ Cardinality(InFlight) \in Nat /\ Cardinality(Admitted) \in Nat
        /\ Cardinality(Senders) \in Nat
        /\ Len(channel) \in Nat /\ Len(batch) \in Nat
        /\ pending \in Nat /\ stranded \in Nat
    BY CountsNat DEF IndInv, TypeOK
  <2>2. /\ Cardinality(Sending) \in Nat
        /\ Cardinality(Sending) # 0
        /\ Cardinality(Sending) <= Cardinality(InFlight)
    <3>1. Sending \in SUBSET InFlight /\ InFlight \in SUBSET Senders
      BY DEF Sending, InFlight
    <3>2. IsFiniteSet(InFlight) /\ IsFiniteSet(Sending)
      BY <3>1, SendersCount
    <3> QED
      BY <3>1, <3>2, FS_EmptySet, FS_Subset, FS_CardinalityType
  <2>3. /\ pending = Len(channel) + Len(batch) + Cardinality(InFlight) + stranded
        /\ pending + Cardinality(Admitted) > 0 =>
             pending + Cardinality(Admitted) < MaxPending + Cardinality(Senders)
    BY DEF IndInv, PendingExact, OvershootBound
  <2> QED
    BY <2>1, <2>2, <2>3, WriterAssumption DEF WriterAssumption
<1> QED
  BY <1>1, Invariance, PTL

-----------------------------------------------------------------------------
(* The stream                                                              *)

\* The frames of the batch that are not on the pipe yet: after a write the batch
\* is kept until its size has been subtracted.
Unwritten == IF wstate = "release" THEN <<>> ELSE batch

\* Until the pipe fails nothing that was accepted is lost, repeated or overtaken.
InTransit == wstate # "failed" => accepted = wire \o (Unwritten \o channel)

\* Frame f is in the stream.
InStream(f) == \E i \in 1..Len(accepted) : accepted[i] = f

\* The receiver lives as long as writer_loop runs.  A frame in the stream comes
\* from a call that was made, and not from one that is still under way and has
\* not been told: a call undoing its increment has its error already.
CallsAccounted ==
  /\ rxOpen <=> wstate \notin {"ended", "failed"}
  /\ \A s \in Senders, n \in 1..MaxSends : InStream(<<s, n>>) => n <= sent[s]
  /\ \A s \in Senders :
       sender[s] \in {"waiting", "admitted", "sending", "undo"}
         => ~InStream(FrameOf(s))
  /\ \A s \in Senders : sender[s] = "undo" => result[s] \in Errors

StreamInv == InTransit /\ CallsAccounted /\ OutcomeIsTruthful

-----------------------------------------------------------------------------
(* Sequences                                                               *)

\* Moving the first element of one sequence to the end of another keeps their
\* concatenation: recv() and try_recv() between the channel and the batch.
LEMMA HandOver ==
  ASSUME NEW S, NEW b \in Seq(S), NEW c \in Seq(S), c # <<>>
  PROVE  Append(b, Head(c)) \o Tail(c) = b \o c
<1> DEFINE l == Append(b, Head(c)) \o Tail(c)
<1>1. /\ Head(c) \in S /\ Tail(c) \in Seq(S) /\ Len(Tail(c)) = Len(c) - 1
      /\ \A i \in 1..Len(Tail(c)) : Tail(c)[i] = c[i + 1]
      /\ Head(c) = c[1] /\ Len(c) \in Nat \ {0} /\ Len(b) \in Nat
  BY HeadTailProperties, EmptySeq, LenProperties
<1>2. /\ Append(b, Head(c)) \in Seq(S)
      /\ Len(Append(b, Head(c))) = Len(b) + 1
      /\ \A i \in 1..Len(b) : Append(b, Head(c))[i] = b[i]
      /\ Append(b, Head(c))[Len(b) + 1] = c[1]
  BY <1>1, AppendProperties
<1>3. /\ l \in Seq(S) /\ Len(l) = Len(b) + Len(c)
      /\ \A i \in 1..Len(l) : l[i] = IF i <= Len(b) + 1 THEN Append(b, Head(c))[i]
                                     ELSE Tail(c)[i - (Len(b) + 1)]
  BY <1>1, <1>2, ConcatProperties
<1>4. /\ b \o c \in Seq(S) /\ Len(b \o c) = Len(b) + Len(c)
      /\ \A i \in 1..(Len(b) + Len(c)) :
           (b \o c)[i] = IF i <= Len(b) THEN b[i] ELSE c[i - Len(b)]
  BY ConcatProperties
<1>5. ASSUME NEW i \in 1..Len(l) PROVE l[i] = (b \o c)[i]
  <2>1. CASE i <= Len(b)
    BY <1>1, <1>2, <1>3, <1>4, <2>1
  <2>2. CASE i = Len(b) + 1
    BY <1>1, <1>2, <1>3, <1>4, <2>2
  <2>3. CASE i > Len(b) + 1
    <3>1. i - (Len(b) + 1) \in 1..Len(Tail(c))
      BY <1>1, <1>3, <2>3
    <3>2. l[i] = c[(i - (Len(b) + 1)) + 1]
      BY <1>1, <1>3, <2>3, <3>1
    <3> QED
      BY <1>1, <1>3, <1>4, <2>3, <3>2
  <2> QED
    BY <1>1, <2>1, <2>2, <2>3
<1> QED
  BY <1>3, <1>4, <1>5, SeqEqual

\* What is queued last is last of all.
LEMMA QueuedLast ==
  \A w, b, c \in Seq(Frames), e \in Frames :
    Append(w \o (b \o c), e) = w \o (b \o Append(c, e))
<1> TAKE w, b, c \in Seq(Frames), e \in Frames
<1>1. <<e>> \in Seq(Frames) /\ b \o c \in Seq(Frames)
      /\ w \o (b \o c) \in Seq(Frames)
  BY ConcatProperties
<1>2. Append(c, e) = c \o <<e>>
  BY AppendIsConcat
<1>3. b \o (c \o <<e>>) = (b \o c) \o <<e>>
  BY <1>1, ConcatAssociative
<1>4. w \o ((b \o c) \o <<e>>) = (w \o (b \o c)) \o <<e>>
  BY <1>1, ConcatAssociative
<1>5. Append(w \o (b \o c), e) = (w \o (b \o c)) \o <<e>>
  BY <1>1, AppendIsConcat
<1> QED
  BY <1>2, <1>3, <1>4, <1>5

\* The first part of a concatenation, cut inside its second sequence.
LEMMA CutInside ==
  ASSUME NEW S, NEW w \in Seq(S), NEW b \in Seq(S), NEW c \in Seq(S),
         NEW k \in 0..Len(b)
  PROVE  /\ w \o SubSeq(b, 1, k) = SubSeq(w \o (b \o c), 1, Len(w) + k)
         /\ Len(w) + k \in 0..Len(w \o (b \o c))
         /\ Len(w) <= Len(w) + k
<1> DEFINE all == w \o (b \o c)
           cut == SubSeq(b, 1, k)
<1>1. /\ Len(w) \in Nat /\ Len(b) \in Nat /\ Len(c) \in Nat
      /\ b \o c \in Seq(S) /\ Len(b \o c) = Len(b) + Len(c)
      /\ \A i \in 1..Len(b) : (b \o c)[i] = b[i]
  BY ConcatProperties, LenProperties
<1>2. /\ all \in Seq(S) /\ Len(all) = Len(w) + Len(b) + Len(c)
      /\ \A i \in 1..Len(w) : all[i] = w[i]
      /\ \A i \in 1..Len(b) : all[Len(w) + i] = b[i]
  <2>1. /\ all \in Seq(S) /\ Len(all) = Len(w) + Len(b \o c)
        /\ \A i \in 1..(Len(w) + Len(b \o c)) :
             all[i] = IF i <= Len(w) THEN w[i] ELSE (b \o c)[i - Len(w)]
    BY <1>1, ConcatProperties
  <2>2. ASSUME NEW i \in 1..Len(b) PROVE all[Len(w) + i] = b[i]
    <3>1. (Len(w) + i) - Len(w) = i
      BY <1>1
    <3> QED
      BY <1>1, <2>1, <3>1
  <2> QED
    BY <1>1, <2>1, <2>2
<1>3. /\ cut \in Seq(S) /\ Len(cut) = k
      /\ \A i \in 1..k : cut[i] = b[i]
  <2>1. \A i \in 1..k : b[i] \in S
    BY <1>1, ElementOfSeq
  <2>2. /\ cut \in Seq(S) /\ Len(cut) = (IF 1 <= k THEN k - 1 + 1 ELSE 0)
        /\ \A i \in 1..(k - 1 + 1) : cut[i] = b[1 + i - 1]
    BY <2>1, SubSeqProperties
  <2> QED
    BY <2>2
<1>4. /\ w \o cut \in Seq(S) /\ Len(w \o cut) = Len(w) + k
      /\ \A i \in 1..(Len(w) + k) :
           (w \o cut)[i] = IF i <= Len(w) THEN w[i] ELSE cut[i - Len(w)]
  BY <1>3, ConcatProperties
<1>5. /\ SubSeq(all, 1, Len(w) + k) \in Seq(S)
      /\ Len(SubSeq(all, 1, Len(w) + k)) = Len(w) + k
      /\ \A i \in 1..(Len(w) + k) : SubSeq(all, 1, Len(w) + k)[i] = all[i]
  <2>1. \A i \in 1..(Len(w) + k) : all[i] \in S
    BY <1>1, <1>2, ElementOfSeq
  <2>2. /\ SubSeq(all, 1, Len(w) + k) \in Seq(S)
        /\ Len(SubSeq(all, 1, Len(w) + k)) =
             (IF 1 <= Len(w) + k THEN Len(w) + k - 1 + 1 ELSE 0)
        /\ \A i \in 1..(Len(w) + k - 1 + 1) :
             SubSeq(all, 1, Len(w) + k)[i] = all[1 + i - 1]
    BY <1>1, <2>1, SubSeqProperties
  <2> QED
    BY <1>1, <2>2
<1>6. ASSUME NEW i \in 1..(Len(w) + k)
      PROVE  (w \o cut)[i] = SubSeq(all, 1, Len(w) + k)[i]
  <2>1. CASE i <= Len(w)
    BY <1>1, <1>2, <1>4, <1>5, <2>1
  <2>2. CASE i > Len(w)
    <3> DEFINE j == i - Len(w)
    <3>1. j \in 1..k /\ i = Len(w) + j
      BY <1>1, <2>2
    <3>2. (w \o cut)[i] = b[j]
      BY <1>1, <1>3, <1>4, <2>2, <3>1
    <3>3. all[i] = b[j]
      BY <1>1, <1>2, <3>1
    <3> QED
      BY <1>5, <3>2, <3>3
  <2> QED
    BY <1>1, <2>1, <2>2
<1>7. w \o cut = SubSeq(all, 1, Len(w) + k)
  BY <1>4, <1>5, <1>6, SeqEqual
<1> QED
  BY <1>1, <1>2, <1>7

-----------------------------------------------------------------------------
(* The invariant of the mapping                                            *)

\* The first state satisfies it.
LEMMA StreamInitInv == Init => StreamInv
<1> SUFFICES ASSUME Init PROVE StreamInv
  OBVIOUS
<1>1. InTransit
  <2>1. <<>> \o (<<>> \o <<>>) = <<>>
    BY ConcatEmptySeq, EmptySeq
  <2> QED
    BY <2>1 DEF Init, InTransit, Unwritten
<1>2. CallsAccounted /\ OutcomeIsTruthful
  BY DEF Init, CallsAccounted, OutcomeIsTruthful, InStream
<1> QED
  BY <1>1, <1>2 DEF StreamInv

\* A step that accepts nothing changes nothing about who is in the stream.
LEMMA StreamUnmoved ==
  ASSUME accepted' = accepted, NEW f
  PROVE  InStream(f)' <=> InStream(f)
BY DEF InStream

\* Enqueue puts one frame into the stream.
LEMMA StreamGrows ==
  ASSUME IndInv, NEW g \in Frames, accepted' = Append(accepted, g),
         NEW f
  PROVE  InStream(f)' <=> InStream(f) \/ f = g
<1>1. /\ accepted \in Seq(Frames) /\ Len(accepted) \in Nat
      /\ Len(accepted') = Len(accepted) + 1
      /\ \A i \in 1..Len(accepted) : accepted'[i] = accepted[i]
      /\ accepted'[Len(accepted) + 1] = g
  BY AppendProperties, LenProperties DEF IndInv, TypeOK
<1>2. ASSUME InStream(f)' PROVE InStream(f) \/ f = g
  <2>1. PICK i \in 1..(Len(accepted) + 1) : accepted'[i] = f
    BY <1>1, <1>2 DEF InStream
  <2>2. CASE i \in 1..Len(accepted)
    BY <1>1, <2>1, <2>2 DEF InStream
  <2>3. CASE i = Len(accepted) + 1
    BY <1>1, <2>1, <2>3
  <2> QED
    BY <1>1, <2>2, <2>3
<1>3. ASSUME InStream(f) PROVE InStream(f)'
  <2>1. PICK i \in 1..Len(accepted) : accepted[i] = f
    BY <1>3 DEF InStream
  <2>2. i \in 1..Len(accepted') /\ accepted'[i] = f
    BY <1>1, <2>1
  <2> QED
    BY <2>2 DEF InStream
<1>4. ASSUME f = g PROVE InStream(f)'
  <2>1. Len(accepted) + 1 \in 1..Len(accepted')
    BY <1>1
  <2> QED
    BY <1>1, <1>4, <2>1 DEF InStream
<1> QED
  BY <1>2, <1>3, <1>4

\* A call under way has a frame of its own.
LEMMA FrameInProgress ==
  ASSUME IndInv, NEW s \in Senders, sender[s] \notin {"idle", "gone"}
  PROVE  FrameOf(s) \in Frames /\ sent[s] \in 1..MaxSends
<1>1. sent[s] \in 0..MaxSends /\ sent[s] > 0
  BY DEF IndInv, TypeOK, Shape
<1>2. sent[s] \in 1..MaxSends
  BY <1>1
<1> QED
  BY <1>2 DEF FrameOf, Frames

\* A sender's step preserves the invariant of the mapping.
LEMMA SenderStepStream ==
  ASSUME IndInv, StreamInv, NEW s \in Senders, SenderStep(s)
  PROVE  StreamInv'
<1> USE DEF StreamInv, SenderStates
<1>0. /\ sender \in [Senders -> SenderStates] /\ sent \in [Senders -> 0..MaxSends]
      /\ result \in [Senders -> Results] /\ MaxSends \in Nat
  BY WriterAssumption DEF IndInv, TypeOK, WriterAssumption
<1>1. ASSUME accepted' = accepted,
             UNCHANGED <<channel, wstate, batch, wire, rxOpen>>
      PROVE  InTransit' /\ (rxOpen' <=> wstate' \notin {"ended", "failed"})
  BY <1>1 DEF InTransit, Unwritten, CallsAccounted
<1>2. ASSUME NEW c \in Calls, Begin(s, c) PROVE StreamInv'
  <2>1. /\ sender[s] = "idle" /\ sent' = [sent EXCEPT ![s] = @ + 1]
        /\ UNCHANGED <<accepted, channel, wstate, batch, wire, rxOpen>>
    BY <1>2 DEF Begin, taskVars
  <2>2. /\ sender'[s] \in {"admitted", "waiting", "idle"}
        /\ \A t \in Senders : t # s =>
             sender'[t] = sender[t] /\ result'[t] = result[t]
        /\ sender'[s] = "idle" => result'[s] = "BackpressureTimeout"
    BY <1>0, <1>2 DEF Begin, Return
  <2>3. sent[s] + 1 \in 1..MaxSends
    BY <1>0, <1>2 DEF Begin
  <2>4. ~InStream(FrameOf(s)')
    <3>1. FrameOf(s)' = <<s, sent[s] + 1>>
      BY <1>0, <2>1 DEF FrameOf
    <3>2. InStream(<<s, sent[s] + 1>>) => sent[s] + 1 <= sent[s]
      BY <2>3 DEF CallsAccounted
    <3> QED
      BY <1>0, <3>1, <3>2
  <2>5. \A t \in Senders : t # s => FrameOf(t)' = FrameOf(t) /\ sent'[t] = sent[t]
    BY <1>0, <2>1 DEF FrameOf
  <2>6. \A f : InStream(f)' <=> InStream(f)
    BY <2>1, StreamUnmoved
  <2>7. CallsAccounted'
    <3>1. \A t \in Senders, n \in 1..MaxSends : InStream(<<t, n>>)' => n <= sent'[t]
      <4>1. \A t \in Senders : sent[t] <= sent'[t]
        BY <1>0, <2>1
      <4> QED
        BY <1>0, <2>1, <2>6, <4>1 DEF CallsAccounted
    <3>2. \A t \in Senders :
            sender'[t] \in {"waiting", "admitted", "sending", "undo"}
              => ~InStream(FrameOf(t))'
      BY <2>1, <2>2, <2>4, <2>5 DEF CallsAccounted, InStream
    <3>3. \A t \in Senders : sender'[t] = "undo" => result'[t] \in Errors
      BY <2>2 DEF CallsAccounted
    <3> QED
      BY <1>1, <2>1, <3>1, <3>2, <3>3 DEF CallsAccounted
  <2>8. OutcomeIsTruthful'
    <3> SUFFICES ASSUME NEW t \in Senders,
                        sender'[t] \in {"idle", "gone"}, sent'[t] > 0
                 PROVE  result'[t] = "Ok" <=> InStream(FrameOf(t))'
      BY DEF OutcomeIsTruthful, InStream
    <3>1. CASE t = s
      BY <2>1, <2>2, <2>4, <3>1 DEF InStream
    <3>2. CASE t # s
      BY <2>1, <2>2, <2>5, <3>2 DEF OutcomeIsTruthful, InStream
    <3> QED
      BY <3>1, <3>2
  <2> QED
    BY <1>1, <2>1, <2>7, <2>8
<1>3. ASSUME NEW q \in SenderStates, sender' = [sender EXCEPT ![s] = q],
             UNCHANGED <<sent, accepted, channel, wstate, batch, wire, rxOpen>>,
             \A t \in Senders : t # s => result'[t] = result[t],
             q = "undo" => result'[s] \in Errors,
             q \in {"idle", "gone"} =>
               IF sender[s] \in {"idle", "gone"} THEN result'[s] = result[s]
               ELSE result'[s] # "Ok",
             q \notin {"idle", "gone"} => sender[s] \notin {"idle", "gone"}
      PROVE  StreamInv'
  <2>1. \A t \in Senders : FrameOf(t)' = FrameOf(t)
    BY <1>3 DEF FrameOf
  <2>2. \A t \in Senders : t # s => sender'[t] = sender[t]
    BY <1>0, <1>3
  <2>3. sender'[s] = q
    BY <1>0, <1>3
  <2>4. sender[s] \notin {"idle", "gone"} =>
          sender[s] \in {"waiting", "admitted", "sending", "undo"}
    BY <1>0
  <2>5. CallsAccounted'
    <3>1. \A t \in Senders, n \in 1..MaxSends : InStream(<<t, n>>)' => n <= sent'[t]
      BY <1>3 DEF CallsAccounted, InStream
    <3>2. \A t \in Senders :
            sender'[t] \in {"waiting", "admitted", "sending", "undo"}
              => ~InStream(FrameOf(t))'
      BY <1>3, <2>1, <2>2, <2>3, <2>4 DEF CallsAccounted, InStream
    <3>3. \A t \in Senders : sender'[t] = "undo" => result'[t] \in Errors
      BY <1>3, <2>2, <2>3 DEF CallsAccounted
    <3> QED
      BY <1>1, <1>3, <3>1, <3>2, <3>3 DEF CallsAccounted
  <2>6. OutcomeIsTruthful'
    <3> SUFFICES ASSUME NEW t \in Senders,
                        sender'[t] \in {"idle", "gone"}, sent'[t] > 0
                 PROVE  result'[t] = "Ok" <=> InStream(FrameOf(t))'
      BY DEF OutcomeIsTruthful, InStream
    <3>1. CASE t = s /\ sender[s] \notin {"idle", "gone"}
      BY <1>3, <2>1, <2>3, <2>4, <3>1 DEF CallsAccounted, InStream
    <3>2. CASE t = s /\ sender[s] \in {"idle", "gone"}
      BY <1>3, <2>1, <2>3, <3>2 DEF OutcomeIsTruthful, InStream
    <3>3. CASE t # s
      BY <1>3, <2>1, <2>2, <3>3 DEF OutcomeIsTruthful, InStream
    <3> QED
      BY <3>1, <3>2, <3>3
  <2> QED
    BY <1>1, <1>3, <2>5, <2>6
<1>4. CASE Poll(s)
  <2>1. PICK q \in {"admitted", "idle"} :
           /\ sender' = [sender EXCEPT ![s] = q]
           /\ q = "idle" => result'[s] # "Ok"
    BY <1>0, <1>4 DEF Poll, Return
  <2> QED
    BY <1>0, <1>3, <1>4, <2>1 DEF Poll, Return, taskVars
<1>5. CASE Reserve(s)
  BY <1>0, <1>3, <1>5 DEF Reserve, taskVars
<1>6. CASE Enqueue(s)
  <2>1. /\ sender[s] = "sending" /\ rxOpen /\ sender' = [sender EXCEPT ![s] = "idle"]
        /\ result' = [result EXCEPT ![s] = "Ok"] /\ sent' = sent
        /\ accepted' = Append(accepted, FrameOf(s))
        /\ channel' = Append(channel, FrameOf(s))
        /\ UNCHANGED <<wstate, batch, wire, rxOpen>>
    BY <1>6 DEF Enqueue, Return, taskVars
  <2>2. FrameOf(s) \in Frames /\ sent[s] \in 1..MaxSends
    BY <2>1, FrameInProgress
  <2>3. \A f : InStream(f)' <=> InStream(f) \/ f = FrameOf(s)
    BY <2>1, <2>2, StreamGrows
  <2>4. \A t \in Senders : FrameOf(t)' = FrameOf(t)
    BY <2>1 DEF FrameOf
  <2>5. \A t \in Senders : t # s => FrameOf(t) # FrameOf(s)
    BY DEF FrameOf
  <2>6. InTransit'
    <3>1. /\ wire \in Seq(Frames) /\ Unwritten \in Seq(Frames)
          /\ channel \in Seq(Frames)
      BY EmptySeq DEF IndInv, TypeOK, Unwritten
    <3>2. wstate # "failed" /\ Unwritten' = Unwritten
      BY <2>1 DEF CallsAccounted, Unwritten
    <3>3. Append(wire \o (Unwritten \o channel), FrameOf(s))
            = wire \o (Unwritten \o Append(channel, FrameOf(s)))
      BY <2>2, <3>1, QueuedLast, Zenon
    <3> QED
      BY <2>1, <3>2, <3>3 DEF InTransit
  <2>7. CallsAccounted'
    <3>1. \A t \in Senders, n \in 1..MaxSends : InStream(<<t, n>>)' => n <= sent'[t]
      <4> SUFFICES ASSUME NEW t \in Senders, NEW n \in 1..MaxSends,
                          InStream(<<t, n>>)'
                   PROVE  n <= sent[t]
        BY <2>1
      <4>1. CASE InStream(<<t, n>>)
        BY <4>1 DEF CallsAccounted
      <4>2. CASE <<t, n>> = FrameOf(s)
        BY <2>2, <4>2 DEF FrameOf
      <4> QED
        BY <2>3, <4>1, <4>2
    <3>2. \A t \in Senders : t # s => sender'[t] = sender[t] /\ result'[t] = result[t]
      BY <1>0, <2>1
    <3>3. sender'[s] = "idle"
      BY <1>0, <2>1
    <3>4. \A t \in Senders :
            sender'[t] \in {"waiting", "admitted", "sending", "undo"}
              => ~InStream(FrameOf(t))'
      <4> SUFFICES ASSUME NEW t \in Senders, t # s,
                          sender[t] \in {"waiting", "admitted", "sending", "undo"}
                   PROVE  ~InStream(FrameOf(t))'
        BY <3>2, <3>3 DEF InStream
      <4>1. ~InStream(FrameOf(t)) /\ FrameOf(t) # FrameOf(s)
        BY <2>5 DEF CallsAccounted
      <4> QED
        BY <2>3, <2>4, <4>1 DEF InStream
    <3>5. \A t \in Senders : sender'[t] = "undo" => result'[t] \in Errors
      BY <3>2, <3>3 DEF CallsAccounted
    <3> QED
      BY <2>1, <3>1, <3>4, <3>5 DEF CallsAccounted
  <2>8. OutcomeIsTruthful'
    <3> SUFFICES ASSUME NEW t \in Senders,
                        sender'[t] \in {"idle", "gone"}, sent'[t] > 0
                 PROVE  result'[t] = "Ok" <=> InStream(FrameOf(t))'
      BY DEF OutcomeIsTruthful, InStream
    <3>1. CASE t = s
      <4>1. result'[s] = "Ok"
        BY <1>0, <2>1
      <4>2. InStream(FrameOf(s))'
        BY <2>3, <2>4 DEF InStream
      <4> QED
        BY <3>1, <4>1, <4>2
    <3>2. CASE t # s
      <4>1. result'[t] = result[t] /\ sender'[t] = sender[t] /\ sent'[t] = sent[t]
        BY <1>0, <2>1, <3>2
      <4>2. result[t] = "Ok" <=> InStream(FrameOf(t))
        BY <4>1 DEF OutcomeIsTruthful, InStream
      <4>3. InStream(FrameOf(t))' <=> InStream(FrameOf(t))
        BY <2>3, <2>4, <2>5, <3>2 DEF InStream
      <4> QED
        BY <4>1, <4>2, <4>3
    <3> QED
      BY <3>1, <3>2
  <2> QED
    BY <2>6, <2>7, <2>8
<1>7. CASE Refuse(s)
  <2>1. result'[s] \in Errors
    BY <1>0, <1>7 DEF Refuse, Errors
  <2>2. \A t \in Senders : t # s => result'[t] = result[t]
    BY <1>0, <1>7 DEF Refuse
  <2>3. sender[s] = "sending" /\ sender' = [sender EXCEPT ![s] = "undo"]
    BY <1>7 DEF Refuse
  <2> QED
    BY <1>3, <1>7, <2>1, <2>2, <2>3 DEF Refuse, taskVars
<1>8. CASE Undo(s)
  <2>1. sender[s] = "undo" /\ result[s] \in Errors /\ result' = result
    BY <1>8 DEF Undo, CallsAccounted
  <2>2. result'[s] # "Ok"
    BY <2>1 DEF Errors
  <2> QED
    BY <1>3, <1>8, <2>1, <2>2 DEF Undo, taskVars
<1>9. CASE DropFuture(s)
  <2>1. /\ sender[s] \in {"waiting", "sending"} /\ result'[s] = "dropped"
        /\ \A t \in Senders : t # s => result'[t] = result[t]
    BY <1>0, <1>9 DEF DropFuture, Return
  <2> QED
    BY <1>3, <1>9, <2>1 DEF DropFuture, Return, taskVars
<1>10. CASE DropHandle(s)
  BY <1>3, <1>10 DEF DropHandle, taskVars
<1> QED
  BY <1>2, <1>4, <1>5, <1>6, <1>7, <1>8, <1>9, <1>10 DEF SenderStep

\* A step of the writer task preserves it: frames move from the channel over the
\* batch to the pipe, and no call is touched.
LEMMA WriterStepStream ==
  ASSUME IndInv, StreamInv, WriterStep
  PROVE  StreamInv'
<1> USE DEF StreamInv
<1>0. /\ wire \in Seq(Frames) /\ batch \in Seq(Frames) /\ channel \in Seq(Frames)
      /\ <<>> \in Seq(Frames)
  BY EmptySeq DEF IndInv, TypeOK
<1>1. /\ sender' = sender /\ sent' = sent /\ result' = result
      /\ accepted' = accepted
  BY DEF WriterStep, Receive, Shutdown, Collect, Write, WriteFails, Release,
         handleVars
<1>2. /\ \A s \in Senders, n \in 1..MaxSends : InStream(<<s, n>>)' => n <= sent'[s]
      /\ \A s \in Senders :
           sender'[s] \in {"waiting", "admitted", "sending", "undo"}
             => ~InStream(FrameOf(s))'
      /\ \A s \in Senders : sender'[s] = "undo" => result'[s] \in Errors
      /\ OutcomeIsTruthful'
  BY <1>1 DEF CallsAccounted, OutcomeIsTruthful, InStream, FrameOf
<1>3. rxOpen' <=> wstate' \notin {"ended", "failed"}
  BY DEF WriterStep, Receive, Shutdown, Collect, Write, WriteFails, Release,
         CallsAccounted
<1>4. CallsAccounted'
  BY <1>2, <1>3 DEF CallsAccounted
<1>5. InTransit'
  <2>1. CASE Receive
    <3>1. /\ wstate = "recv" /\ batch = <<>> /\ channel # <<>>
          /\ wstate' = "collect" /\ wire' = wire
          /\ batch' = <<Head(channel)>> /\ channel' = Tail(channel)
      BY <2>1 DEF Receive, IndInv, Shape
    <3>2. <<Head(channel)>> = Append(<<>>, Head(channel))
      OBVIOUS
    <3>3. Append(<<>>, Head(channel)) \o Tail(channel) = <<>> \o channel
      BY <1>0, <3>1, HandOver
    <3> QED
      BY <1>1, <3>1, <3>2, <3>3 DEF InTransit, Unwritten
  <2>2. CASE Shutdown
    BY <1>1, <2>2 DEF Shutdown, InTransit, Unwritten
  <2>3. CASE Collect
    <3>1. wstate = "collect" /\ wire' = wire /\ wstate' \in {"collect", "writing"}
      BY <2>3 DEF Collect
    <3>2. batch' \o channel' = batch \o channel
      <4>1. CASE /\ channel # <<>>
                 /\ batch' = Append(batch, Head(channel))
                 /\ channel' = Tail(channel)
        BY <1>0, <4>1, HandOver
      <4>2. CASE batch' = batch /\ channel' = channel
        BY <4>2
      <4> QED
        BY <2>3, <4>1, <4>2 DEF Collect
    <3> QED
      BY <1>1, <3>1, <3>2 DEF InTransit, Unwritten
  <2>4. CASE Write
    <3>1. /\ wstate = "writing" /\ wstate' = "release" /\ wire' = wire \o batch
          /\ batch' = batch /\ channel' = channel
      BY <2>4 DEF Write
    <3>2. wire \o (batch \o channel) = (wire \o batch) \o channel
      BY <1>0, ConcatAssociative
    <3>3. <<>> \o channel = channel
      BY <1>0, ConcatEmptySeq
    <3> QED
      BY <1>1, <3>1, <3>2, <3>3 DEF InTransit, Unwritten
  <2>5. CASE WriteFails
    BY <2>5 DEF WriteFails, InTransit
  <2>6. CASE Release
    BY <1>1, <2>6 DEF Release, InTransit, Unwritten
  <2> QED
    BY <2>1, <2>2, <2>3, <2>4, <2>5, <2>6 DEF WriterStep
<1> QED
  BY <1>2, <1>4, <1>5

\* Every step preserves the invariant of the mapping.
LEMMA NextStream == IndInv /\ StreamInv /\ [Next]_vars => StreamInv'
<1> SUFFICES ASSUME IndInv, StreamInv, [Next]_vars PROVE StreamInv'
  OBVIOUS
<1>1. CASE \E s \in Senders : SenderStep(s)
  BY <1>1, SenderStepStream
<1>2. CASE WriterStep
  BY <1>2, WriterStepStream
<1>3. CASE UNCHANGED vars
  BY <1>3 DEF vars, StreamInv, InTransit, Unwritten, CallsAccounted,
              OutcomeIsTruthful, InStream, FrameOf
<1> QED
  BY <1>1, <1>2, <1>3 DEF Next, Finished

-----------------------------------------------------------------------------
(* The theorems                                                            *)

\* It holds in every reachable state.
THEOREM StreamInvariance == Spec => [](IndInv /\ StreamInv)
<1> QED
  BY StreamInitInv, NextStream, Invariance, PTL DEF Spec

\* The result of a finished send() or try_send() is what happened: Ok if and only
\* if the frame is in the stream, whatever the other senders and the writer did
\* meanwhile.
THEOREM ResultsTruthful == Spec => []OutcomeIsTruthful
<1>1. IndInv /\ StreamInv => OutcomeIsTruthful
  BY DEF StreamInv
<1> QED
  BY <1>1, StreamInvariance, PTL

\* Every step of Writer is a step of FrameStream or leaves the stream alone.
LEMMA StepSimulation ==
  IndInv /\ StreamInv /\ [Next]_vars => [Stream!StreamNext]_(Stream!streamVars)
<1> SUFFICES ASSUME IndInv, StreamInv, [Next]_vars
             PROVE  [Stream!StreamNext]_(Stream!streamVars)
  OBVIOUS
<1>0. /\ wire \in Seq(Frames) /\ batch \in Seq(Frames) /\ channel \in Seq(Frames)
      /\ <<>> \in Seq(Frames)
  BY EmptySeq DEF IndInv, TypeOK
<1>1. ASSUME UNCHANGED <<accepted, wire, wstate>>
      PROVE  UNCHANGED Stream!streamVars
  BY <1>1 DEF Stream!streamVars
<1>2. ASSUME NEW s \in Senders, SenderStep(s)
      PROVE  [Stream!StreamNext]_(Stream!streamVars)
  <2>1. CASE Enqueue(s)
    <3>1. /\ sender[s] = "sending" /\ rxOpen
          /\ accepted' = Append(accepted, FrameOf(s))
          /\ wire' = wire /\ wstate' = wstate
      BY <2>1 DEF Enqueue, taskVars
    <3>2. FrameOf(s) \in Frames
      BY <3>1, FrameInProgress
    <3>3. \A i \in 1..Len(accepted) : accepted[i] # FrameOf(s)
      BY <3>1 DEF StreamInv, CallsAccounted, InStream
    <3>4. wstate \notin {"ended", "failed"}
      BY <3>1 DEF StreamInv, CallsAccounted
    <3>5. Stream!Accept(FrameOf(s))
      BY <3>1, <3>3, <3>4 DEF Stream!Accept
    <3> QED
      BY <3>2, <3>5 DEF Stream!StreamNext
  <2>2. CASE ~Enqueue(s)
    <3>1. UNCHANGED <<accepted, wire, wstate>>
      BY <1>2, <2>2 DEF SenderStep, Begin, Poll, Reserve, Refuse, Undo, DropFuture,
                        DropHandle, taskVars
    <3> QED
      BY <1>1, <3>1
  <2> QED
    BY <2>1, <2>2
<1>3. CASE Write
  <2>1. /\ wstate = "writing" /\ wstate' = "release" /\ wire' = wire \o batch
        /\ accepted' = accepted
    BY <1>3 DEF Write
  <2>2. accepted = wire \o (batch \o channel)
    BY <2>1 DEF StreamInv, InTransit, Unwritten
  <2>3. SubSeq(batch, 1, Len(batch)) = batch /\ Len(batch) \in 0..Len(batch)
    BY <1>0, SubSeqFull, LenProperties
  <2>4. /\ wire' = SubSeq(accepted, 1, Len(wire) + Len(batch))
        /\ Len(wire) + Len(batch) \in 0..Len(accepted)
        /\ Len(wire) <= Len(wire) + Len(batch)
    BY <1>0, <2>1, <2>2, <2>3, CutInside
  <2>5. Stream!Deliver
    BY <2>1, <2>4 DEF Stream!Deliver, Stream!CatchUp
  <2> QED
    BY <2>5 DEF Stream!StreamNext
<1>4. CASE WriteFails
  <2>1. /\ wstate = "writing" /\ wstate' = "failed" /\ accepted' = accepted
    BY <1>4 DEF WriteFails
  <2>2. PICK k \in 0..Len(batch) : wire' = wire \o SubSeq(batch, 1, k)
    BY <1>4 DEF WriteFails
  <2>3. accepted = wire \o (batch \o channel)
    BY <2>1 DEF StreamInv, InTransit, Unwritten
  <2>4. /\ wire' = SubSeq(accepted, 1, Len(wire) + k)
        /\ Len(wire) + k \in 0..Len(accepted)
        /\ Len(wire) <= Len(wire) + k
    BY <1>0, <2>2, <2>3, CutInside
  <2>5. Stream!Break
    BY <2>1, <2>4 DEF Stream!Break, Stream!CatchUp
  <2> QED
    BY <2>5 DEF Stream!StreamNext
<1>5. CASE Shutdown
  <2>1. /\ wstate = "recv" /\ channel = <<>> /\ wstate' = "ended"
        /\ accepted' = accepted /\ wire' = wire
    BY <1>5 DEF Shutdown
  <2>2. batch = <<>>
    BY <2>1 DEF IndInv, Shape
  <2>3. accepted = wire
    <3>1. accepted = wire \o (<<>> \o <<>>)
      BY <2>1, <2>2 DEF StreamInv, InTransit, Unwritten
    <3>2. wire \o (<<>> \o <<>>) = wire
      BY <1>0, ConcatEmptySeq
    <3> QED
      BY <3>1, <3>2
  <2>4. Stream!End
    BY <2>1, <2>3 DEF Stream!End
  <2> QED
    BY <2>4 DEF Stream!StreamNext
<1>6. CASE Receive \/ Collect \/ Release
  <2>1. /\ accepted' = accepted /\ wire' = wire
        /\ wstate \notin {"ended", "failed"} /\ wstate' \notin {"ended", "failed"}
    BY <1>6 DEF Receive, Collect, Release
  <2> QED
    BY <2>1 DEF Stream!streamVars
<1>7. CASE UNCHANGED vars
  BY <1>1, <1>7 DEF vars
<1> QED
  BY <1>2, <1>3, <1>4, <1>5, <1>6, <1>7 DEF Next, Finished, WriterStep

\* The calls, the channel and the writer task implement FrameStream for any
\* senders, capacities and batch sizes: accepted frames reach the pipe once, in
\* order and without gaps, an orderly end of writer_loop leaves none behind, and
\* nothing follows a failed write.
THEOREM StreamImplemented == Spec => ImplementsFrameStream
<1>1. Init => Stream!StreamInit
  BY DEF Init, Stream!StreamInit
<1>2. Spec => [](IndInv /\ StreamInv)
  BY StreamInvariance
<1> QED
  BY <1>1, <1>2, StepSimulation, PTL DEF Spec, ImplementsFrameStream, Stream!StreamSpec
=============================================================================
