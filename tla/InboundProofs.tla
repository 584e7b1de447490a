---------------------------- MODULE InboundProofs ----------------------------
(***************************************************************************)
(* Proofs about Inbound, for any streams of frames, any way to cut them    *)
(* into reads, any limits and any number of connections.                   *)
(*                                                                         *)
(* The heart is Aligned: FrameBuffer is always at the beginning of a frame *)
(* or of a payload of the peer's stream, and knows which.  It never        *)
(* decodes garbage, so a header it refuses is one that the peer sent.      *)
(***************************************************************************)
EXTENDS Inbound, SequenceTheorems, TLAPS

Frames == [at : Nat, body : Nat, kind : FrameKinds, len : Nat]

TypeInv ==
  /\ TypeOK
  /\ stream \in Seq(Headers) /\ Contiguous(stream)
  /\ frames \in Seq(Frames) /\ dispatched \in Seq(Frames)

\* A connection is being read.
Live == phase \in {"auth", "reading"}

\* How many frames of the stream have left the Vec of push(), and the buffer.
Passed == IF phase = "auth" THEN 0 ELSE Len(dispatched) + Skip
Extracted == Passed + Len(frames)

\* Where the k-th frame begins, or would.
At(k) == IF k <= Len(stream) THEN stream[k].at ELSE Total

\* What is in the Vec are the next frames of the stream, and the buffer begins
\* behind them: with the next frame, or with its payload if its header was read.
Aligned ==
  Live =>
    /\ Extracted <= Len(stream)
    /\ \A k \in 1..Len(frames) : frames[k] = SentFrame(Passed + k)
    /\ state = Waiting => start = At(Extracted + 1)
    /\ state # Waiting =>
         /\ Extracted < Len(stream)
         /\ state = stream[Extracted + 1]
         /\ start = stream[Extracted + 1].at + HeaderSize

\* Every header that got anywhere was validated.
Checked ==
  /\ Validate(state)
  /\ \A k \in 1..Len(frames) : Validate(frames[k])
  /\ \A k \in 1..Len(dispatched) : Validate(dispatched[k])

\* What happened to the connection so far.
History ==
  /\ phase = "auth" => withToken
  /\ phase \in {"accepting", "auth"} => dispatched = <<>>
  /\ phase \in {"reading", "closed"} =>
       /\ Len(dispatched) + Skip <= Len(stream)
       /\ \A k \in 1..Len(dispatched) : dispatched[k] = SentFrame(k + Skip)
       /\ withToken => stream[1].kind = "auth" /\ Validate(stream[1])

\* What each place of the loops knows.
Control ==
  /\ pc # "read" => Live
  /\ pc = "pushed" => phase = "auth"
  /\ pc = "dispatch" => phase = "reading"
  /\ Live /\ pc = "read" => frames = <<>>
  /\ Live /\ pc # "extract" =>
       Buffered < (IF state = Waiting THEN HeaderSize ELSE state.len)

IndInv == TypeInv /\ Aligned /\ Checked /\ History /\ Control

-----------------------------------------------------------------------------
(* The peer's stream                                                       *)

\* Frames lie one behind the other within the stream, and no two begin at the
\* same byte.
LEMMA StreamFacts ==
  ASSUME TypeInv
  PROVE  /\ Len(stream) \in Nat /\ Total \in Nat /\ HeaderSize \in Nat \ {0}
         /\ \A i \in 1..Len(stream) :
              /\ stream[i] \in Headers /\ stream[i].at \in Nat /\ stream[i].len \in Nat
              /\ End(stream[i]) = stream[i].at + HeaderSize + stream[i].len
              /\ At(i) = stream[i].at /\ At(i + 1) = End(stream[i])
              /\ End(stream[i]) <= Total
         /\ \A i, j \in 1..Len(stream) :
              /\ i < j => End(stream[i]) <= stream[j].at
              /\ stream[i].at = stream[j].at => i = j
         /\ At(Len(stream) + 1) = Total
<1> USE InboundAssumption DEF InboundAssumption
<1>1. /\ Len(stream) \in Nat /\ HeaderSize \in Nat \ {0}
      /\ stream # <<>> => Len(stream) \in 1..Len(stream)
  BY EmptySeq, LenProperties DEF TypeInv
<1>2. ASSUME NEW i \in 1..Len(stream)
      PROVE  /\ stream[i] \in Headers /\ stream[i].at \in Nat
             /\ stream[i].len \in Nat
             /\ End(stream[i]) = stream[i].at + HeaderSize + stream[i].len
             /\ End(stream[i]) \in Nat
  <2>1. stream[i] \in Headers
    BY ElementOfSeq DEF TypeInv
  <2> QED
    BY <1>1, <2>1 DEF Headers, End
<1>3. Total \in Nat
  BY <1>1, <1>2 DEF Total
<1>4. \A i, j \in 1..Len(stream) :
        /\ j = i + 1 => stream[j].at = End(stream[i])
        /\ i < j => End(stream[i]) <= stream[j].at
  BY <1>1, <1>2 DEF TypeInv, Contiguous
<1>5. \A i, j \in 1..Len(stream) : i < j => stream[i].at < stream[j].at
  <2> SUFFICES ASSUME NEW i \in 1..Len(stream), NEW j \in 1..Len(stream), i < j
               PROVE  stream[i].at < stream[j].at
    OBVIOUS
  <2>1. stream[j].at \in Nat /\ stream[i].at < End(stream[i])
    BY <1>1, <1>2
  <2> QED
    BY <1>2, <1>4, <2>1
<1>6. \A i, j \in 1..Len(stream) : stream[i].at = stream[j].at => i = j
  <2> SUFFICES ASSUME NEW i \in 1..Len(stream), NEW j \in 1..Len(stream), i # j
               PROVE  stream[i].at # stream[j].at
    OBVIOUS
  <2>1. i < j \/ j < i
    BY <1>1
  <2>2. stream[i].at \in Nat /\ stream[j].at \in Nat
    BY <1>2
  <2> QED
    BY <1>5, <2>1, <2>2
<1>7. ASSUME NEW i \in 1..Len(stream)
      PROVE  /\ At(i) = stream[i].at /\ At(i + 1) = End(stream[i])
             /\ End(stream[i]) <= Total
  <2>0. stream # <<>> /\ Total = End(stream[Len(stream)])
    BY <1>1, EmptySeq DEF Total
  <2>1. CASE i = Len(stream)
    BY <1>1, <1>2, <2>0, <2>1 DEF At
  <2>2. CASE i # Len(stream)
    <3>1. i + 1 \in 1..Len(stream) /\ i < Len(stream)
      BY <1>1, <2>2
    <3>2. At(i + 1) = End(stream[i])
      BY <1>1, <1>4, <3>1 DEF At
    <3>3. End(stream[i]) <= stream[Len(stream)].at
      BY <1>1, <1>4, <3>1
    <3>4. /\ stream[Len(stream)].at <= Total /\ stream[Len(stream)].at \in Nat
          /\ End(stream[i]) \in Nat
      BY <1>1, <1>2, <2>0
    <3> QED
      BY <1>1, <1>3, <3>2, <3>3, <3>4 DEF At
  <2> QED
    BY <2>1, <2>2
<1>8. At(Len(stream) + 1) = Total
  BY <1>1 DEF At
<1> QED
  BY <1>1, <1>2, <1>3, <1>4, <1>6, <1>7, <1>8

\* The numbers of the state.
LEMMA Numbers ==
  ASSUME TypeInv
  PROVE  /\ got \in Nat /\ start \in Nat /\ start <= got /\ got <= Total
         /\ Len(frames) \in Nat /\ Len(dispatched) \in Nat
         /\ Skip \in Nat /\ Passed \in Nat /\ Extracted \in Nat
         /\ state.len \in Nat
<1>1. got \in Nat /\ start \in Nat /\ start <= got /\ got <= Total
  BY StreamFacts DEF TypeInv, TypeOK
<1>2. Len(frames) \in Nat /\ Len(dispatched) \in Nat /\ Skip \in Nat
  BY LenProperties DEF TypeInv, Skip
<1>3. state.len \in Nat
  BY DEF TypeInv, TypeOK
<1> QED
  BY <1>1, <1>2, <1>3 DEF Passed, Extracted

\* A frame carries what was validated of its header.
LEMMA FrameValid ==
  ASSUME NEW h, NEW b
  PROVE  Validate(FrameFrom(h, b)) <=> Validate(h)
BY DEF Validate, FrameFrom

\* The header that is decoded is the next one of the stream.
LEMMA DecodesNext ==
  ASSUME IndInv, pc = "extract", state = Waiting, Buffered >= HeaderSize
  PROVE  /\ Extracted + 1 \in 1..Len(stream)
         /\ start = stream[Extracted + 1].at
         /\ Decoded(start) = {stream[Extracted + 1]}
<1>0. TypeInv /\ Aligned /\ Live
  BY DEF IndInv, Control
<1> USE <1>0, StreamFacts, Numbers
<1>1. Extracted <= Len(stream) /\ start = At(Extracted + 1)
  BY DEF Aligned
<1>2. Extracted # Len(stream)
  <2>1. got - start >= HeaderSize
    BY DEF Buffered
  <2>2. start # Total
    BY <2>1
  <2> QED
    BY <1>1, <2>2
<1>3. Extracted + 1 \in 1..Len(stream)
  BY <1>1, <1>2
<1>4. start = stream[Extracted + 1].at
  BY <1>1, <1>3
<1>5. {i \in 1..Len(stream) : stream[i].at = start} = {Extracted + 1}
  BY <1>3, <1>4
<1>6. Decoded(start) = {stream[Extracted + 1]}
  BY <1>5 DEF Decoded
<1> QED
  BY <1>3, <1>4, <1>6
-----------------------------------------------------------------------------
(* The inductive invariant                                                 *)

\* The first state.
LEMMA InitInd == Init => IndInv
<1> SUFFICES ASSUME Init PROVE IndInv
  OBVIOUS
<1> USE InboundAssumption DEF InboundAssumption
<1>1. /\ stream = <<>> /\ Total = 0 /\ got = 0 /\ start = 0
      /\ frames = <<>> /\ dispatched = <<>>
      /\ Len(<<>>) = 0
  BY EmptySeq DEF Init, Total
<1>2. TypeInv
  <2>1. state \in [at : -1..Total, kind : FrameKinds, len : Nat]
    BY <1>1 DEF Init, Waiting, FrameKinds
  <2>2. TypeOK
    BY <1>1, <2>1 DEF Init, TypeOK
  <2>3. stream \in Seq(Headers) /\ frames \in Seq(Frames) /\ dispatched \in Seq(Frames)
    BY <1>1, EmptySeq
  <2>4. Contiguous(stream)
    BY <1>1 DEF Contiguous
  <2> QED
    BY <2>2, <2>3, <2>4 DEF TypeInv
<1>3. Checked
  <2>1. config.size \in Nat
    BY DEF Init, Configurations
  <2>2. Validate(state)
    BY <2>1 DEF Init, Waiting, Validate, max_payload_size
  <2> QED
    BY <1>1, <2>2 DEF Checked
<1>4. Aligned /\ History /\ Control
  BY <1>1 DEF Init, Aligned, History, Control, Live
<1> QED
  BY <1>2, <1>3, <1>4 DEF IndInv

\* The connection ends, refused or closed, wherever it was.
LEMMA LeaveInd ==
  ASSUME IndInv, Live, Leave, pc' = "read", frames' \in {<<>>, frames},
         UNCHANGED <<config, connections, stream, got, start, state, dispatched>>
  PROVE  IndInv'
<1>1. /\ phase' \in {"accepting", "closed"}
      /\ phase' = "accepting" <=> phase = "auth"
      /\ phase' = "closed" <=> phase = "reading"
  BY DEF Leave, Live
<1>2. frames' \in Seq(Frames)
  BY EmptySeq DEF IndInv, TypeInv
<1>3. Total' = Total
  BY DEF Total, End
<1>4. TypeOK'
  BY <1>1, <1>3 DEF IndInv, TypeInv, TypeOK
<1>5. TypeInv'
  BY <1>2, <1>4 DEF IndInv, TypeInv, Contiguous, End
<1>6. Aligned' /\ Control'
  BY <1>1 DEF Aligned, Control, Live
<1>7. Checked'
  <2>1. Len(<<>>) = 0
    BY EmptySeq
  <2> QED
    BY <2>1 DEF IndInv, Checked, Validate, max_payload_size
<1>8. History'
  BY <1>1
  DEF IndInv, History, withToken, auth_token, Skip, SentFrame, FrameFrom, Validate,
      max_payload_size
<1> QED
  BY <1>5, <1>6, <1>7, <1>8 DEF IndInv

\* accept(): a connection begins with an empty buffer.
LEMMA AcceptInd ==
  ASSUME IndInv, NEW s \in Streams, Accept(s)
  PROVE  IndInv'
<1> USE InboundAssumption DEF InboundAssumption
<1>0. /\ phase = "accepting" /\ dispatched = <<>> /\ dispatched' = <<>>
      /\ phase' = IF withToken THEN "auth" ELSE "reading"
      /\ pc' = "read" /\ stream' = s /\ got' = 0 /\ start' = 0
      /\ state' = Waiting /\ frames' = <<>> /\ config' = config
      /\ Len(<<>>) = 0 /\ s \in Seq(Headers) /\ Len(s) \in Nat
  BY EmptySeq, LenProperties DEF Accept, IndInv, History
<1>1. \A i \in 1..Len(s) : s[i] \in Headers /\ s[i].at \in Nat /\ End(s[i]) \in Nat
  <2> SUFFICES ASSUME NEW i \in 1..Len(s)
               PROVE  s[i] \in Headers /\ s[i].at \in Nat /\ End(s[i]) \in Nat
    OBVIOUS
  <2>1. s[i] \in Headers
    BY <1>0, ElementOfSeq
  <2> QED
    BY <2>1 DEF Headers, End
<1>2. /\ s # <<>> => Len(s) \in 1..Len(s) /\ s[1].at = 0
      /\ s = <<>> <=> Len(s) = 0
  BY <1>0, EmptySeq DEF Contiguous
<1>3. Total' \in Nat /\ (s = <<>> => Total' = 0)
  BY <1>0, <1>1, <1>2 DEF Total, End
<1>4. TypeOK'
  <2>1. connections' \in 0..MaxConnections
    BY DEF Accept, IndInv, TypeInv, TypeOK
  <2>2. state' \in [at : -1..Total', kind : FrameKinds, len : Nat]
    BY <1>0, <1>3 DEF Waiting, FrameKinds
  <2> QED
    BY <1>0, <1>3, <2>1, <2>2 DEF IndInv, TypeInv, TypeOK
<1>5. TypeInv'
  <2>1. Contiguous(stream)'
    BY <1>0 DEF Contiguous, End
  <2>2. <<>> \in Seq(Frames)
    BY EmptySeq
  <2> QED
    BY <1>0, <1>4, <2>1, <2>2 DEF TypeInv
<1>6. withToken' = withToken /\ Skip' = Skip
  BY <1>0 DEF withToken, auth_token, Skip
<1>7. Passed' = 0 /\ Extracted' = 0
  BY <1>0, <1>6 DEF Passed, Extracted, Skip
<1>8. Aligned'
  <2>1. At(1)' = 0
    BY <1>0, <1>2, <1>3 DEF At
  <2>2. At(Extracted + 1)' = 0
    BY <1>7, <2>1 DEF At
  <2> QED
    BY <1>0, <1>7, <2>2 DEF Aligned
<1>9. Checked'
  <2>1. config.size \in Nat
    BY DEF IndInv, TypeInv, TypeOK, Configurations
  <2>2. Validate(state)'
    BY <1>0, <2>1 DEF Waiting, Validate, max_payload_size
  <2> QED
    BY <1>0, <2>2 DEF Checked
<1>10. History'
  BY <1>0, <1>6 DEF History, Skip
<1>11. Control'
  BY <1>0 DEF Control, Live, Buffered
<1> QED
  BY <1>5, <1>8, <1>9, <1>10, <1>11 DEF IndInv

\* A read brings the next bytes, cut where it may be.
LEMMA ReadInd ==
  ASSUME IndInv, NEW n \in 1..MaxRead, Read(n)
  PROVE  IndInv'
<1> USE InboundAssumption DEF InboundAssumption
<1>0. /\ Live /\ pc = "read" /\ pc' = "extract" /\ frames = <<>> /\ frames' = <<>>
      /\ got' = got + n /\ got + n <= Total /\ n \in Nat
      /\ UNCHANGED <<config, phase, connections, stream, start, state, dispatched>>
  BY DEF Read, Live, IndInv, Control
<1>1. TypeInv'
  <2>1. Total' = Total
    BY <1>0 DEF Total, End
  <2>2. got' \in 0..Total /\ start' \in 0..got'
    BY <1>0, Numbers, StreamFacts DEF IndInv
  <2>3. TypeOK'
    BY <1>0, <2>1, <2>2 DEF IndInv, TypeInv, TypeOK
  <2> QED
    BY <1>0, <2>3 DEF IndInv, TypeInv, Contiguous, End
<1>2. Aligned'
  BY <1>0
  DEF IndInv, Aligned, Live, Passed, Extracted, Skip, withToken, auth_token,
      SentFrame, FrameFrom, At, Total, End
<1>3. Checked'
  BY <1>0 DEF IndInv, Checked, Validate, max_payload_size
<1>4. History'
  BY <1>0
  DEF IndInv, History, withToken, auth_token, Skip, SentFrame, FrameFrom, Validate,
      max_payload_size
<1>5. Control'
  BY <1>0 DEF Control, Live
<1> QED
  BY <1>1, <1>2, <1>3, <1>4, <1>5 DEF IndInv

\* The next frame of the stream.
LEMMA NextFrame ==
  ASSUME TypeInv, Extracted + 1 \in 1..Len(stream)
  PROVE  /\ stream[Extracted + 1] \in Headers
         /\ stream[Extracted + 1].at \in Nat /\ stream[Extracted + 1].len \in Nat
         /\ End(stream[Extracted + 1]) =
              stream[Extracted + 1].at + HeaderSize + stream[Extracted + 1].len
         /\ End(stream[Extracted + 1]) = At((Extracted + 1) + 1)
         /\ End(stream[Extracted + 1]) <= Total
         /\ HeaderSize \in Nat \ {0} /\ Total \in Nat /\ Len(stream) \in Nat
         /\ SentFrame(Extracted + 1) \in Frames
<1>1. /\ stream[Extracted + 1] \in Headers
      /\ stream[Extracted + 1].at \in Nat /\ stream[Extracted + 1].len \in Nat
      /\ End(stream[Extracted + 1]) =
           stream[Extracted + 1].at + HeaderSize + stream[Extracted + 1].len
      /\ End(stream[Extracted + 1]) = At((Extracted + 1) + 1)
      /\ End(stream[Extracted + 1]) <= Total
      /\ HeaderSize \in Nat \ {0} /\ Total \in Nat /\ Len(stream) \in Nat
  BY StreamFacts
<1>2. stream[Extracted + 1].at + HeaderSize \in Nat
  BY <1>1
<1>3. SentFrame(Extracted + 1) \in Frames
  BY <1>1, <1>2 DEF SentFrame, FrameFrom, Frames, Headers
<1> QED
  BY <1>1, <1>3

\* try_extract_one returns a frame: the next one of the stream, whole.
LEMMA OneMoreFrame ==
  ASSUME IndInv, pc = "extract", Extracted + 1 \in 1..Len(stream),
         frames' = Append(frames, SentFrame(Extracted + 1)),
         start' = End(stream[Extracted + 1]), start' <= got,
         state' = Waiting, Validate(stream[Extracted + 1]),
         UNCHANGED <<config, phase, pc, connections, stream, got, dispatched>>
  PROVE  IndInv'
<1>0. TypeInv /\ Live /\ pc' = "extract"
  BY DEF IndInv, Control
<1> DEFINE next == SentFrame(Extracted + 1)
<1>n. /\ got \in Nat /\ start \in Nat /\ start <= got /\ got <= Total
      /\ Len(frames) \in Nat /\ Passed \in Nat /\ Extracted \in Nat
  BY <1>0, Numbers
<1>1. /\ next \in Frames /\ End(stream[Extracted + 1]) = At((Extracted + 1) + 1)
      /\ End(stream[Extracted + 1]) \in Nat /\ Total \in Nat /\ Len(stream) \in Nat
  BY <1>0, NextFrame
<1>2. /\ frames' \in Seq(Frames) /\ Len(frames') = Len(frames) + 1
      /\ frames'[Len(frames) + 1] = next
      /\ \A k \in 1..Len(frames) : frames'[k] = frames[k]
  BY <1>0, <1>1, AppendProperties DEF TypeInv
<1>3. \A k \in 1..Len(frames') : k \in 1..Len(frames) \/ k = Len(frames) + 1
  BY <1>n, <1>2
<1>4. Passed' = Passed /\ Extracted' = Extracted + 1
  <2>1. Passed' = Passed
    BY DEF Passed, Skip, withToken, auth_token
  <2>2. Extracted' = Passed + (Len(frames) + 1)
    BY <1>2, <2>1 DEF Extracted
  <2> QED
    BY <1>n, <2>1, <2>2 DEF Extracted
<1>5. TypeInv'
  <2>1. Total' = Total
    BY DEF Total, End
  <2>2. start' \in 0..got' /\ got' \in 0..Total
    BY <1>n, <1>1
  <2>3. state' \in [at : -1..Total, kind : FrameKinds, len : Nat]
    BY <1>1 DEF Waiting, FrameKinds
  <2>4. TypeOK'
    BY <1>0, <2>1, <2>2, <2>3 DEF TypeInv, TypeOK
  <2> QED
    BY <1>0, <1>2, <2>4 DEF TypeInv, Contiguous, End
<1>6. Aligned'
  <2>1. \A k \in 1..Len(frames') : frames'[k] = SentFrame(Passed + k)
    <3> SUFFICES ASSUME NEW k \in 1..Len(frames')
                 PROVE  frames'[k] = SentFrame(Passed + k)
      OBVIOUS
    <3>1. CASE k \in 1..Len(frames)
      BY <1>0, <1>2, <3>1 DEF IndInv, Aligned
    <3>2. CASE k = Len(frames) + 1
      <4>1. Passed + k = Extracted + 1
        BY <1>n, <3>2 DEF Extracted
      <4> QED
        BY <1>2, <3>2, <4>1
    <3> QED
      BY <1>3, <3>1, <3>2
  <2>2. start' = At((Extracted + 1) + 1)
    BY <1>1
  <2>3. At(Extracted + 1)' = At((Extracted + 1) + 1)
    BY <1>4 DEF At, Total, End
  <2>4. \A k \in 1..Len(frames') : frames'[k] = SentFrame(Passed + k)'
    BY <1>4, <2>1 DEF SentFrame, FrameFrom
  <2>5. Extracted' <= Len(stream')
    BY <1>n, <1>1, <1>4
  <2> QED
    BY <2>2, <2>3, <2>4, <2>5 DEF Aligned
<1>7. Checked'
  <2>1. config.size \in Nat /\ AbsoluteMax \in Nat
    BY <1>0, InboundAssumption DEF InboundAssumption, TypeInv, TypeOK, Configurations
  <2>2. Validate(state)'
    BY <2>1 DEF Waiting, Validate, max_payload_size
  <2>3. Validate(next)
    BY FrameValid DEF SentFrame
  <2>4. \A k \in 1..Len(frames') : Validate(frames'[k])
    <3> SUFFICES ASSUME NEW k \in 1..Len(frames') PROVE Validate(frames'[k])
      OBVIOUS
    <3>1. CASE k \in 1..Len(frames)
      <4>1. Validate(frames[k]) /\ frames'[k] = frames[k]
        BY <1>2, <3>1 DEF IndInv, Checked
      <4> QED
        BY <4>1
    <3>2. CASE k = Len(frames) + 1
      BY <1>2, <2>3, <3>2
    <3> QED
      BY <1>3, <3>1, <3>2
  <2>5. \A k \in 1..Len(dispatched) : Validate(dispatched[k])
    BY DEF IndInv, Checked
  <2> HIDE DEF next
  <2> QED
    BY <2>2, <2>4, <2>5 DEF Checked, Validate, max_payload_size
<1>8. History'
  BY DEF IndInv, History, withToken, auth_token, Skip, SentFrame, FrameFrom,
         Validate, max_payload_size
<1>9. Control'
  BY <1>0 DEF Control, Live
<1> QED
  BY <1>5, <1>6, <1>7, <1>8, <1>9 DEF IndInv

\* try_extract_one in state WaitingForHeader.
LEMMA HeaderInd ==
  ASSUME IndInv, ExtractHeader
  PROVE  IndInv'
<1>0. TypeInv /\ Live /\ pc = "extract" /\ state = Waiting /\ Buffered >= HeaderSize
  BY DEF IndInv, Control, ExtractHeader
<1>n. /\ got \in Nat /\ start \in Nat /\ start <= got /\ got <= Total
      /\ Len(frames) \in Nat /\ Passed \in Nat /\ Extracted \in Nat
  BY <1>0, Numbers
<1> DEFINE h == stream[Extracted + 1]
<1>1. /\ Extracted + 1 \in 1..Len(stream) /\ start = h.at
      /\ Decoded(start) = {h}
  BY <1>0, DecodesNext
<1>h. /\ h \in Headers /\ h.at \in Nat /\ h.len \in Nat
      /\ End(h) = h.at + HeaderSize + h.len /\ End(h) <= Total
      /\ HeaderSize \in Nat \ {0} /\ Total \in Nat /\ Len(stream) \in Nat
  BY <1>0, <1>1, NextFrame
<1>2. \/ /\ Leave /\ frames' = <<>> /\ pc' = "read"
         /\ UNCHANGED <<start, state>>
      \/ /\ Validate(h)
         /\ start' = start + HeaderSize
         /\ IF h.len = 0
            THEN frames' = Append(frames, FrameFrom(h, start')) /\ state' = state
            ELSE state' = h /\ frames' = frames
         /\ UNCHANGED <<phase, pc>>
  BY <1>1 DEF ExtractHeader
<1>3. UNCHANGED <<config, connections, stream, got, dispatched>>
  BY DEF ExtractHeader
<1>4. CASE Leave /\ frames' = <<>> /\ pc' = "read" /\ UNCHANGED <<start, state>>
  BY <1>0, <1>3, <1>4, LeaveInd
<1>5. ASSUME Validate(h), start' = start + HeaderSize, UNCHANGED <<phase, pc>>,
             h.len = 0, frames' = Append(frames, FrameFrom(h, start')),
             state' = state
      PROVE  IndInv'
  <2>1. start' = End(h) /\ start' <= got
    BY <1>0, <1>n, <1>h, <1>1, <1>5 DEF Buffered
  <2>2. FrameFrom(h, start') = SentFrame(Extracted + 1)
    BY <1>1, <1>5 DEF SentFrame
  <2> QED
    BY <1>0, <1>1, <1>3, <1>5, <2>1, <2>2, OneMoreFrame
<1>6. ASSUME Validate(h), start' = start + HeaderSize, UNCHANGED <<phase, pc>>,
             h.len # 0, state' = h, frames' = frames
      PROVE  IndInv'
  <2>0. Passed' = Passed /\ Extracted' = Extracted
    BY <1>3, <1>6 DEF Passed, Extracted, Skip, withToken, auth_token
  <2>1. TypeInv'
    <3>1. Total' = Total
      BY <1>3 DEF Total, End
    <3>2. start' \in 0..got' /\ got' \in 0..Total
      BY <1>0, <1>n, <1>h, <1>3, <1>6 DEF Buffered
    <3>3. state' \in [at : -1..Total, kind : FrameKinds, len : Nat]
      <4>1. h.at \in -1..Total /\ h \in Headers
        BY <1>h
      <4> QED
        BY <1>6, <4>1 DEF Headers
    <3>4. TypeOK'
      BY <1>0, <1>3, <1>6, <3>1, <3>2, <3>3 DEF TypeInv, TypeOK
    <3> QED
      BY <1>0, <1>3, <1>6, <3>4 DEF TypeInv, Contiguous, End
  <2>2. Aligned'
    <3>1. state' # Waiting
      BY <1>6 DEF Waiting
    <3>2. \A k \in 1..Len(frames') : frames'[k] = SentFrame(Passed + k)'
      BY <1>0, <1>3, <1>6, <2>0 DEF IndInv, Aligned, SentFrame, FrameFrom
    <3>3. /\ Extracted' <= Len(stream')
          /\ Extracted' < Len(stream') /\ state' = stream'[Extracted' + 1]
          /\ start' = stream'[Extracted' + 1].at + HeaderSize
      BY <1>n, <1>h, <1>1, <1>3, <1>6, <2>0
    <3> QED
      BY <3>1, <3>2, <3>3 DEF Aligned
  <2>3. Checked'
    BY <1>3, <1>6 DEF IndInv, Checked, Validate, max_payload_size
  <2>4. History'
    BY <1>3, <1>6
    DEF IndInv, History, withToken, auth_token, Skip, SentFrame, FrameFrom,
        Validate, max_payload_size
  <2>5. Control'
    BY <1>0, <1>6 DEF Control, Live
  <2> QED
    BY <2>1, <2>2, <2>3, <2>4, <2>5 DEF IndInv
<1> QED
  BY <1>2, <1>4, <1>5, <1>6

\* try_extract_one in state WaitingForPayload.
LEMMA PayloadInd ==
  ASSUME IndInv, ExtractPayload
  PROVE  IndInv'
<1>0. TypeInv /\ Live /\ pc = "extract" /\ state # Waiting /\ Buffered >= state.len
  BY DEF IndInv, Control, ExtractPayload
<1>n. /\ got \in Nat /\ start \in Nat /\ start <= got /\ Extracted \in Nat
      /\ Len(stream) \in Nat
  BY <1>0, Numbers, LenProperties DEF TypeInv
<1>1. /\ Extracted + 1 \in 1..Len(stream)
      /\ state = stream[Extracted + 1]
      /\ start = stream[Extracted + 1].at + HeaderSize
  BY <1>0, <1>n DEF IndInv, Aligned
<1>2. /\ frames' = Append(frames, FrameFrom(state, start))
      /\ start' = start + state.len /\ state' = Waiting
      /\ UNCHANGED <<config, phase, pc, connections, stream, got, dispatched>>
  BY DEF ExtractPayload
<1>3. FrameFrom(state, start) = SentFrame(Extracted + 1)
  BY <1>1 DEF SentFrame
<1>4. start' = End(stream[Extracted + 1]) /\ start' <= got
  <2>1. /\ stream[Extracted + 1].at \in Nat /\ stream[Extracted + 1].len \in Nat
        /\ End(stream[Extracted + 1]) =
             stream[Extracted + 1].at + HeaderSize + stream[Extracted + 1].len
        /\ HeaderSize \in Nat
    BY <1>0, <1>1, NextFrame
  <2>2. start' = End(stream[Extracted + 1])
    BY <1>1, <1>2, <2>1
  <2>3. start' <= got
    BY <1>0, <1>n, <1>1, <1>2, <2>1 DEF Buffered
  <2> QED
    BY <2>2, <2>3
<1>5. Validate(stream[Extracted + 1])
  BY <1>1 DEF IndInv, Checked
<1> QED
  BY <1>0, <1>1, <1>2, <1>3, <1>4, <1>5, OneMoreFrame

\* try_extract_one finds too little: push() returns.
LEMMA PushInd ==
  ASSUME IndInv, PushReturns
  PROVE  IndInv'
<1>0. /\ Live /\ pc = "extract"
      /\ pc' = IF phase = "auth" THEN "pushed" ELSE "dispatch"
      /\ Buffered < (IF state = Waiting THEN HeaderSize ELSE state.len)
      /\ UNCHANGED <<config, phase, connections, stream, got, start, state, frames,
                     dispatched>>
  BY DEF PushReturns, IndInv, Control
<1>1. TypeInv'
  <2>1. Total' = Total
    BY <1>0 DEF Total, End
  <2>2. TypeOK'
    BY <1>0, <2>1 DEF IndInv, TypeInv, TypeOK
  <2> QED
    BY <1>0, <2>2 DEF IndInv, TypeInv, Contiguous, End
<1>2. Aligned'
  BY <1>0
  DEF IndInv, Aligned, Live, Passed, Extracted, Skip, withToken, auth_token,
      SentFrame, FrameFrom, At, Total, End
<1>3. Checked'
  BY <1>0 DEF IndInv, Checked, Validate, max_payload_size
<1>4. History'
  BY <1>0
  DEF IndInv, History, withToken, auth_token, Skip, SentFrame, FrameFrom, Validate,
      max_payload_size
<1>5. Control'
  BY <1>0 DEF Control, Live, Buffered
<1> QED
  BY <1>1, <1>2, <1>3, <1>4, <1>5 DEF IndInv

\* The first frame leaves the Vec.
LEMMA FirstLeaves ==
  ASSUME IndInv, Live, frames # <<>>, frames' = Tail(frames),
         Passed' = Passed + 1, Live',
         UNCHANGED <<config, connections, stream, got, start, state>>
  PROVE  /\ Aligned'
         /\ frames' \in Seq(Frames)
         /\ \A k \in 1..Len(frames') : Validate(frames'[k])
         /\ Head(frames) = SentFrame(Passed + 1) /\ Head(frames) \in Frames
         /\ Validate(Head(frames)) /\ Passed + 1 <= Len(stream)
<1>0. /\ TypeInv /\ Len(frames) \in Nat /\ Passed \in Nat /\ Len(stream) \in Nat
      /\ Extracted = Passed + Len(frames)
  BY Numbers, LenProperties DEF IndInv, TypeInv, Extracted
<1>1. /\ Len(frames') = Len(frames) - 1 /\ Len(frames) > 0
      /\ frames' \in Seq(Frames) /\ Head(frames) \in Frames
      /\ Head(frames) = frames[1]
      /\ \A k \in 1..Len(frames') : frames'[k] = frames[k + 1]
  BY <1>0, HeadTailProperties, EmptySeq DEF TypeInv
<1>2. Extracted' = Extracted
  BY <1>0, <1>1 DEF Extracted
<1>3. \A k \in 1..Len(frames) : frames[k] = SentFrame(Passed + k) /\ Validate(frames[k])
  BY DEF IndInv, Aligned, Checked
<1>4. \A k \in 1..Len(frames') : k + 1 \in 1..Len(frames)
  BY <1>0, <1>1
<1>5. \A k \in 1..Len(frames') : Validate(frames'[k])
  <2> SUFFICES ASSUME NEW k \in 1..Len(frames') PROVE Validate(frames'[k])
    OBVIOUS
  <2>1. Validate(frames[k + 1]) /\ frames'[k] = frames[k + 1]
    BY <1>1, <1>3, <1>4
  <2> QED
    BY <2>1
<1>6. Head(frames) = SentFrame(Passed + 1) /\ Validate(Head(frames))
  BY <1>0, <1>1, <1>3
<1>7. \A k \in 1..Len(frames') : frames'[k] = SentFrame(Passed + k)'
  <2> SUFFICES ASSUME NEW k \in 1..Len(frames')
               PROVE  frames'[k] = SentFrame(Passed + k)'
    OBVIOUS
  <2>1. frames'[k] = SentFrame(Passed + (k + 1)) /\ Passed + (k + 1) = (Passed + 1) + k
    BY <1>0, <1>1, <1>3, <1>4
  <2> QED
    BY <2>1 DEF SentFrame, FrameFrom
<1>8. Aligned'
  <2>1. At(Extracted + 1)' = At(Extracted + 1)
    BY <1>2 DEF At, Total, End
  <2>2. /\ Extracted <= Len(stream)
        /\ state = Waiting => start = At(Extracted + 1)
        /\ state # Waiting =>
             /\ Extracted < Len(stream)
             /\ state = stream[Extracted + 1]
             /\ start = stream[Extracted + 1].at + HeaderSize
    BY DEF IndInv, Aligned
  <2> QED
    BY <1>2, <1>7, <2>1, <2>2 DEF Aligned
<1>9. Passed + 1 <= Len(stream)
  <2>1. Extracted <= Len(stream)
    BY DEF IndInv, Aligned
  <2> QED
    BY <1>0, <1>1, <2>1
<1> QED
  BY <1>1, <1>5, <1>6, <1>8, <1>9

\* The handshake looks at the first frame of a push.
LEMMA HandshakeInd ==
  ASSUME IndInv, Handshake
  PROVE  IndInv'
<1>0. /\ Live /\ phase = "auth" /\ pc = "pushed" /\ TypeInv /\ withToken
      /\ dispatched = <<>> /\ Len(dispatched) = 0
      /\ UNCHANGED <<config, connections, stream, got, start, state, dispatched>>
  BY EmptySeq DEF Handshake, IndInv, History, Live
<1>t. Total' = Total
  BY <1>0 DEF Total, End
<1>1. CASE frames = <<>> /\ pc' = "read" /\ UNCHANGED <<phase, frames>>
  <2>1. TypeInv'
    <3>1. TypeOK'
      BY <1>0, <1>t, <1>1 DEF TypeInv, TypeOK
    <3> QED
      BY <1>0, <1>1, <3>1 DEF TypeInv, Contiguous, End
  <2>2. Aligned'
    BY <1>0, <1>1
    DEF IndInv, Aligned, Live, Passed, Extracted, Skip, withToken, auth_token,
        SentFrame, FrameFrom, At, Total, End
  <2>3. Checked'
    BY <1>0, <1>1 DEF IndInv, Checked, Validate, max_payload_size
  <2>4. History'
    BY <1>0, <1>1 DEF IndInv, History, withToken, auth_token
  <2>5. Control'
    BY <1>0, <1>1 DEF IndInv, Control, Live, Buffered
  <2> QED
    BY <2>1, <2>2, <2>3, <2>4, <2>5 DEF IndInv
<1>2. ASSUME frames # <<>>, Head(frames).kind = "auth", phase' = "reading",
             frames' = Tail(frames), pc' = "dispatch"
      PROVE  IndInv'
  <2>0. Skip = 1 /\ Skip' = 1 /\ Passed = 0 /\ Passed' = Passed + 1 /\ Live'
    BY <1>0, <1>2 DEF Skip, withToken, auth_token, Passed, Live
  <2>1. /\ Aligned' /\ frames' \in Seq(Frames)
        /\ \A k \in 1..Len(frames') : Validate(frames'[k])
        /\ Head(frames) = SentFrame(Passed + 1) /\ Validate(Head(frames))
        /\ Passed + 1 <= Len(stream)
    BY <1>0, <1>2, <2>0, FirstLeaves
  <2>2. Head(frames) = SentFrame(1)
    BY <2>0, <2>1
  <2>3. TypeInv'
    <3>1. TypeOK'
      BY <1>0, <1>t, <1>2 DEF TypeInv, TypeOK
    <3> QED
      BY <1>0, <2>1, <3>1 DEF TypeInv, Contiguous, End
  <2>4. Checked'
    <3>1. Validate(state)
      BY DEF IndInv, Checked
    <3> QED
      BY <1>0, <2>1, <3>1 DEF Checked, Validate, max_payload_size
  <2>5. stream[1].kind = "auth" /\ Validate(stream[1])
    <3>1. Head(frames) = FrameFrom(stream[1], stream[1].at + HeaderSize)
      BY <2>2 DEF SentFrame
    <3>2. Validate(stream[1])
      BY <2>1, <3>1, FrameValid
    <3>3. Head(frames).kind = stream[1].kind
      BY <3>1 DEF FrameFrom
    <3> QED
      BY <1>2, <3>2, <3>3
  <2>6. History'
    BY <1>0, <1>2, <2>0, <2>1, <2>5
    DEF History, withToken, auth_token, Validate, max_payload_size
  <2>7. Control'
    BY <1>0, <1>2 DEF IndInv, Control, Live, Buffered
  <2> QED
    BY <2>1, <2>3, <2>4, <2>6, <2>7 DEF IndInv
<1>3. CASE Leave /\ pc' = "read" /\ frames' = frames
  BY <1>0, <1>3, LeaveInd
<1> QED
  BY <1>1, <1>2, <1>3 DEF Handshake

\* read_loop hands a frame to dispatch_frame, or goes back to the socket.
LEMMA DispatchInd ==
  ASSUME IndInv, DispatchNext
  PROVE  IndInv'
<1>0. /\ Live /\ phase = "reading" /\ phase' = "reading" /\ pc = "dispatch"
      /\ TypeInv /\ Live'
      /\ UNCHANGED <<config, connections, stream, got, start, state>>
  BY DEF DispatchNext, IndInv, Live
<1>t. Total' = Total /\ Skip' = Skip /\ withToken' = withToken
  BY <1>0 DEF Total, End, Skip, withToken, auth_token
<1>n. Len(dispatched) \in Nat /\ Skip \in Nat /\ Passed = Len(dispatched) + Skip
  BY <1>0, Numbers DEF Passed
<1>1. ASSUME frames # <<>>, dispatched' = Append(dispatched, Head(frames)),
             frames' = Tail(frames), pc' = pc
      PROVE  IndInv'
  <2>0. Head(frames) \in Frames /\ dispatched \in Seq(Frames)
    BY <1>0, <1>1, HeadTailProperties DEF TypeInv
  <2>1. /\ dispatched' \in Seq(Frames) /\ Len(dispatched') = Len(dispatched) + 1
        /\ dispatched'[Len(dispatched) + 1] = Head(frames)
        /\ \A k \in 1..Len(dispatched) : dispatched'[k] = dispatched[k]
        /\ \A k \in 1..Len(dispatched') :
             k \in 1..Len(dispatched) \/ k = Len(dispatched) + 1
    BY <1>n, <1>1, <2>0, AppendProperties
  <2>2. Passed' = Passed + 1
    BY <1>0, <1>t, <1>n, <2>1 DEF Passed
  <2>3. /\ Aligned' /\ frames' \in Seq(Frames)
        /\ \A k \in 1..Len(frames') : Validate(frames'[k])
        /\ Head(frames) = SentFrame(Passed + 1) /\ Validate(Head(frames))
        /\ Passed + 1 <= Len(stream)
    BY <1>0, <1>1, <2>2, FirstLeaves
  <2>4. TypeInv'
    <3>1. TypeOK'
      BY <1>0, <1>t, <1>1 DEF TypeInv, TypeOK
    <3> QED
      BY <1>0, <2>1, <2>3, <3>1 DEF TypeInv, Contiguous, End
  <2>5. Checked'
    <3>1. Validate(state)
      BY DEF IndInv, Checked
    <3>2. \A k \in 1..Len(dispatched') : Validate(dispatched'[k])
      <4> SUFFICES ASSUME NEW k \in 1..Len(dispatched')
                   PROVE  Validate(dispatched'[k])
        OBVIOUS
      <4>1. CASE k \in 1..Len(dispatched)
        <5>1. Validate(dispatched[k]) /\ dispatched'[k] = dispatched[k]
          BY <2>1, <4>1 DEF IndInv, Checked
        <5> QED
          BY <5>1
      <4>2. CASE k = Len(dispatched) + 1
        <5>1. dispatched'[k] = Head(frames)
          BY <2>1, <4>2
        <5> QED
          BY <2>3, <5>1
      <4> QED
        BY <2>1, <4>1, <4>2
    <3> QED
      BY <1>0, <2>3, <3>1, <3>2 DEF Checked, Validate, max_payload_size
  <2>6. History'
    <3>1. /\ withToken => stream[1].kind = "auth" /\ Validate(stream[1])
          /\ \A k \in 1..Len(dispatched) : dispatched[k] = SentFrame(k + Skip)
      BY <1>0 DEF IndInv, History
    <3>2. \A k \in 1..Len(dispatched') : dispatched'[k] = SentFrame(k + Skip)
      <4> SUFFICES ASSUME NEW k \in 1..Len(dispatched')
                   PROVE  dispatched'[k] = SentFrame(k + Skip)
        OBVIOUS
      <4>1. CASE k \in 1..Len(dispatched)
        BY <2>1, <3>1, <4>1
      <4>2. CASE k = Len(dispatched) + 1
        <5>1. k + Skip = Passed + 1
          BY <1>n, <4>2
        <5> QED
          BY <2>1, <2>3, <4>2, <5>1
      <4> QED
        BY <2>1, <4>1, <4>2
    <3>3. Len(dispatched') + Skip' <= Len(stream')
      BY <1>0, <1>t, <1>n, <2>1, <2>3
    <3>4. \A k \in 1..Len(dispatched') : dispatched'[k] = SentFrame(k + Skip)'
      BY <1>0, <1>t, <3>2 DEF SentFrame, FrameFrom
    <3>5. withToken' => stream'[1].kind = "auth" /\ Validate(stream[1])'
      BY <1>0, <1>t, <3>1 DEF Validate, max_payload_size
    <3> QED
      BY <1>0, <3>3, <3>4, <3>5 DEF History
  <2>7. Control'
    BY <1>0, <1>1 DEF IndInv, Control, Live, Buffered
  <2> QED
    BY <2>3, <2>4, <2>5, <2>6, <2>7 DEF IndInv
<1>2. CASE frames = <<>> /\ pc' = "read" /\ UNCHANGED <<frames, dispatched>>
  <2>1. TypeInv'
    <3>1. TypeOK'
      BY <1>0, <1>t, <1>2 DEF TypeInv, TypeOK
    <3> QED
      BY <1>0, <1>2, <3>1 DEF TypeInv, Contiguous, End
  <2>2. Aligned'
    BY <1>0, <1>t, <1>2
    DEF IndInv, Aligned, Passed, Extracted, SentFrame, FrameFrom, At, End
  <2>3. Checked'
    BY <1>0, <1>2 DEF IndInv, Checked, Validate, max_payload_size
  <2>4. History'
    BY <1>0, <1>t, <1>2
    DEF IndInv, History, SentFrame, FrameFrom, Validate, max_payload_size
  <2>5. Control'
    BY <1>0, <1>2 DEF IndInv, Control, Live, Buffered
  <2> QED
    BY <2>1, <2>2, <2>3, <2>4, <2>5 DEF IndInv
<1> QED
  BY <1>1, <1>2 DEF DispatchNext

\* Every step preserves the inductive invariant.
LEMMA NextInd == IndInv /\ [Next]_vars => IndInv'
<1> SUFFICES ASSUME IndInv, [Next]_vars PROVE IndInv'
  OBVIOUS
<1>1. CASE ReadEnds
  <2>1. Live /\ Leave /\ pc' = "read" /\ frames' = frames
    BY <1>1 DEF ReadEnds, Live
  <2> QED
    BY <1>1, <2>1, LeaveInd DEF ReadEnds
<1>2. CASE UNCHANGED vars
  <2>1. Total' = Total /\ UNCHANGED <<config, stream>>
    BY <1>2 DEF vars, Total, End
  <2>2. TypeInv'
    BY <1>2, <2>1 DEF vars, IndInv, TypeInv, TypeOK, Contiguous, End
  <2>3. Aligned'
    BY <1>2
    DEF vars, IndInv, Aligned, Live, Passed, Extracted, Skip, withToken, auth_token,
        SentFrame, FrameFrom, At, Total, End
  <2>4. Checked'
    BY <1>2 DEF vars, IndInv, Checked, Validate, max_payload_size
  <2>5. History'
    BY <1>2
    DEF vars, IndInv, History, withToken, auth_token, Skip, SentFrame, FrameFrom,
        Validate, max_payload_size
  <2>6. Control'
    BY <1>2 DEF vars, IndInv, Control, Live, Buffered
  <2> QED
    BY <2>2, <2>3, <2>4, <2>5, <2>6 DEF IndInv
<1> QED
  BY <1>1, <1>2, AcceptInd, ReadInd, HeaderInd, PayloadInd, PushInd, HandshakeInd,
     DispatchInd DEF Next, Finished

-----------------------------------------------------------------------------
(* The theorems                                                            *)

\* The inductive invariant holds in every reachable state.
THEOREM Invariance == Spec => []IndInv
<1> QED
  BY InitInd, NextInd, PTL DEF Spec

\* Every variable keeps its type; FrameBuffer never consumes bytes that it has
\* not received.
THEOREM InboundTypes == Spec => []TypeOK
<1>1. IndInv => TypeOK
  BY DEF IndInv, TypeInv
<1> QED
  BY <1>1, Invariance, PTL

\* FrameBuffer::push and read_loop hand over the peer's frames, in order, none
\* skipped and none cut, for every stream and every way to cut it into reads.
THEOREM FramesInOrder == Spec => []DispatchedInOrder
<1>1. IndInv => DispatchedInOrder
  <2> SUFFICES ASSUME IndInv PROVE DispatchedInOrder
    OBVIOUS
  <2>1. CASE phase \in {"accepting", "auth"}
    <3>1. dispatched = <<>> /\ Len(dispatched) = 0
      BY <2>1, EmptySeq DEF IndInv, History
    <3> QED
      BY <3>1 DEF DispatchedInOrder
  <2>2. CASE phase \in {"reading", "closed"}
    BY <2>2 DEF IndInv, History, DispatchedInOrder
  <2> QED
    BY <2>1, <2>2 DEF IndInv, TypeInv, TypeOK
<1> QED
  BY <1>1, Invariance, PTL

\* When read_loop goes back to the socket, the frames received whole were all
\* dispatched, those that came in one read with the AUTH frame too.
THEOREM NoFrameLeftBehind == Spec => []NothingLeftBehind
<1>1. IndInv => NothingLeftBehind
  <2> SUFFICES ASSUME IndInv, phase = "reading", pc = "read",
                      NEW i \in 1..Len(stream), End(stream[i]) <= got
               PROVE  Len(dispatched) + Skip >= i
    BY DEF NothingLeftBehind
  <2>1. /\ TypeInv /\ Live /\ frames = <<>> /\ Len(frames) = 0
        /\ Buffered < (IF state = Waiting THEN HeaderSize ELSE state.len)
    BY EmptySeq DEF IndInv, Control, Live
  <2>2. /\ got \in Nat /\ start \in Nat /\ Len(dispatched) \in Nat /\ Skip \in Nat
        /\ Extracted = Len(dispatched) + Skip /\ Extracted \in Nat
    BY <2>1, Numbers DEF Extracted, Passed
  <2> SUFFICES ASSUME i > Extracted PROVE FALSE
    BY <2>2
  <2>3. Len(stream) \in Nat
    BY <2>1, LenProperties DEF TypeInv
  <2>4. Extracted + 1 \in 1..Len(stream) /\ (i = Extracted + 1 \/ Extracted + 1 < i)
    BY <2>2, <2>3
  <2>5. HeaderSize \in Nat
    BY <2>1, StreamFacts
  \* The first frame that is missing, and frame i.
  <2>6. PICK a \in Nat, l \in Nat :
          /\ stream[Extracted + 1].at = a /\ stream[Extracted + 1].len = l
          /\ End(stream[Extracted + 1]) = a + HeaderSize + l
          /\ At(Extracted + 1) = a
    BY <2>1, <2>4, StreamFacts
  <2>7. PICK b \in Nat, m \in Nat :
          /\ End(stream[i]) = b + HeaderSize + m
          /\ Extracted + 1 < i => End(stream[Extracted + 1]) <= b
    <3>1. /\ stream[i].at \in Nat /\ stream[i].len \in Nat
          /\ End(stream[i]) = stream[i].at + HeaderSize + stream[i].len
          /\ Extracted + 1 < i => End(stream[Extracted + 1]) <= stream[i].at
      BY <2>1, <2>4, StreamFacts
    <3> QED
      BY <3>1, Zenon
  <2>8. a + HeaderSize + l <= got
    <3>1. CASE i = Extracted + 1
      BY <2>6, <3>1
    <3>2. CASE Extracted + 1 < i
      <4>1. a + HeaderSize + l <= b /\ b + HeaderSize + m <= got
        BY <2>6, <2>7, <3>2
      <4> QED
        BY <2>2, <2>5, <4>1
    <3> QED
      BY <2>4, <3>1, <3>2
  <2>9. CASE state = Waiting
    <3>1. start = a
      BY <2>1, <2>6, <2>9 DEF IndInv, Aligned
    <3>2. got - start < HeaderSize
      BY <2>1, <2>9 DEF Buffered
    <3> QED
      BY <2>2, <2>5, <2>8, <3>1, <3>2
  <2>10. CASE state # Waiting
    <3>1. start = a + HeaderSize /\ state.len = l
      BY <2>1, <2>6, <2>10 DEF IndInv, Aligned
    <3>2. got - start < l
      BY <2>1, <2>10, <3>1 DEF Buffered
    <3> QED
      BY <2>2, <2>5, <2>8, <3>1, <3>2
  <2> QED
    BY <2>9, <2>10
<1> QED
  BY <1>1, Invariance, PTL

\* run_auth_handshake: with a token in force no peer is adopted, and nothing is
\* dispatched, unless its stream begins with a valid AUTH frame.
THEOREM OnlyAuthenticatedServed == Spec => []OnlyAuthenticated
<1>1. IndInv => OnlyAuthenticated
  <2> SUFFICES ASSUME IndInv,
                      \/ config.auth_token = "token"
                      \/ config.auth_token = "unset" /\ config.PROCWIRE_TOKEN = "token",
                      phase \in {"reading", "closed"} \/ dispatched # <<>>
               PROVE  stream # <<>> /\ stream[1].kind = "auth" /\ Validate(stream[1])
    BY DEF OnlyAuthenticated
  <2>1. withToken /\ Skip = 1
    BY DEF withToken, auth_token, Skip
  <2>2. phase \in {"reading", "closed"}
    BY DEF IndInv, History, TypeInv, TypeOK
  <2>3. stream[1].kind = "auth" /\ Validate(stream[1])
    BY <2>1, <2>2 DEF IndInv, History
  <2>4. Len(dispatched) + 1 <= Len(stream) /\ Len(dispatched) \in Nat
    BY <2>1, <2>2, Numbers DEF IndInv, History
  <2>5. stream # <<>>
    BY <2>4, EmptySeq
  <2> QED
    BY <2>3, <2>5
<1> QED
  BY <1>1, Invariance, PTL

\* Header::validate comes before the payload is awaited: no payload over the
\* configured or the absolute limit is waited for or dispatched.
THEOREM NoOversizedPayload == Spec => []PayloadsWithinLimit
<1>1. IndInv => PayloadsWithinLimit
  <2> SUFFICES ASSUME IndInv PROVE PayloadsWithinLimit
    OBVIOUS
  <2>1. config.size \in Nat /\ AbsoluteMax \in Nat
    BY InboundAssumption
    DEF InboundAssumption, IndInv, TypeInv, TypeOK, Configurations
  <2>2. state.len \in Nat /\ Validate(state)
    BY Numbers DEF IndInv, Checked
  <2>3. ASSUME NEW k \in 1..Len(dispatched)
        PROVE  dispatched[k].len \in Nat /\ Validate(dispatched[k])
    <3>1. dispatched[k] \in Frames
      BY ElementOfSeq DEF IndInv, TypeInv
    <3> QED
      BY <3>1 DEF Frames, IndInv, Checked
  <2>4. ASSUME NEW h, h.len \in Nat, Validate(h)
        PROVE  h.len <= config.size /\ h.len <= AbsoluteMax
    BY <2>1, <2>4 DEF Validate, max_payload_size
  <2> QED
    BY <2>2, <2>3, <2>4 DEF PayloadsWithinLimit
<1> QED
  BY <1>1, Invariance, PTL
=============================================================================
