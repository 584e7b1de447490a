------------------------------- MODULE Inbound -------------------------------
(***************************************************************************)
(* From bytes to dispatched frames: the accept loop of Client::start,      *)
(* run_auth_handshake, FrameBuffer (src/protocol/frame_buffer.rs) with the *)
(* header checks of src/protocol/wire_format.rs, and read_loop.            *)
(*                                                                         *)
(* The peer's bytes are given by the frames it sends; a byte is known by   *)
(* its offset.  FrameBuffer's buffer always holds the received bytes that  *)
(* are not consumed yet, so it is the interval from `start` to `got`.      *)
(* Headers are decoded wherever the code decodes them: at an offset where  *)
(* no frame of the peer begins the result is garbage, any header at all.   *)
(***************************************************************************)
EXTENDS Integers, Sequences

CONSTANTS
  HeaderSize,      \* HEADER_SIZE
  AbsoluteMax,     \* ABSOLUTE_MAX_PAYLOAD_SIZE
  Configs,         \* what the application and the environment configure
  MaxRead,         \* bound of the model: bytes per read
  Streams,         \* bound of the model: what a peer may send, frame by frame
  MaxConnections   \* bound of the model: connections accepted

\* "auth" is an AUTH frame with the token, "badAuth" one without, "malformed"
\* has method id 0 or a reserved flag bit, "call" is everything else.
FrameKinds == {"auth", "badAuth", "malformed", "call"}
Headers == [at : Nat, kind : FrameKinds, len : Nat]

\* Where a frame ends: its header at offset `at`, then `len` bytes of payload.
End(h) == h.at + HeaderSize + h.len

\* The first frame begins at 0, each next one where the one before it ends, and
\* so all that follow a frame begin at or behind its end.
Contiguous(s) ==
  /\ s # <<>> => s[1].at = 0
  /\ \A i, j \in 1..Len(s) :
       /\ j = i + 1 => s[j].at = End(s[i])
       /\ j > i => s[j].at >= End(s[i])

\* The argument of ClientBuilder::auth_token, if it was called, the variable
\* PROCWIRE_TOKEN, if there is one, and the argument of max_payload_size.
Settings == {"unset", "empty", "token"}
Configurations == [auth_token : Settings, PROCWIRE_TOKEN : Settings, size : Nat]

ASSUME InboundAssumption ==
  /\ HeaderSize \in Nat \ {0}
  /\ AbsoluteMax \in Nat
  /\ Configs \subseteq Configurations
  /\ MaxRead \in Nat \ {0} /\ MaxConnections \in Nat
  /\ Streams \subseteq Seq(Headers)
  /\ \A s \in Streams : Contiguous(s)

VARIABLES
  config,      \* one of Configs
  phase,       \* "accepting", "auth", "reading" or "closed"
  pc,          \* within the last two: "read", "extract", "pushed" or "dispatch"
  connections, \* connections accepted so far
  stream,      \* the frames the peer of this connection sends
  got,         \* bytes received
  start,       \* bytes consumed from the buffer
  state,       \* FrameBuffer::state: Waiting, or the header whose payload is due
  frames,      \* the Vec push() is filling, later the frames to dispatch
  dispatched   \* history: frames handed to dispatch_frame

vars == <<config, phase, pc, connections, stream, got, start, state, frames,
          dispatched>>

Waiting == [at |-> -1, kind |-> "call", len |-> 0]

\* How many bytes the peer sends.
Total == IF stream = <<>> THEN 0 ELSE End(stream[Len(stream)])

\* Header::decode of the HeaderSize bytes at offset o.
Decoded(o) ==
  LET here == {i \in 1..Len(stream) : stream[i].at = o}
  IN  IF here # {} THEN {stream[i] : i \in here}
      ELSE [at : {o}, kind : FrameKinds, len : 0..Total]

\* ClientBuilder::start: an explicit token wins over the environment's, also if
\* it is empty, and an empty one means no authentication.
auth_token ==
  IF config.auth_token # "unset" THEN config.auth_token ELSE config.PROCWIRE_TOKEN
withToken == auth_token \notin {"unset", "empty"}

\* ClientBuilder::max_payload_size
max_payload_size ==
  IF config.size <= AbsoluteMax THEN config.size ELSE AbsoluteMax

\* Mutant of Validate: the configured limit is not looked at.
ValidateAbsolute(h) == h.kind # "malformed" /\ h.len <= AbsoluteMax

\* Header::validate
Validate(h) ==
  /\ h.kind # "malformed"
  /\ h.len <= max_payload_size
  /\ h.len <= AbsoluteMax

\* A frame taken out of the buffer: its header and where its parts began.
FrameFrom(h, body) == [at |-> h.at, body |-> body, kind |-> h.kind, len |-> h.len]

Init ==
  /\ config \in Configs
  /\ phase = "accepting"
  /\ pc = "read"
  /\ connections = 0
  /\ stream = <<>>
  /\ got = 0
  /\ start = 0
  /\ state = Waiting
  /\ frames = <<>>
  /\ dispatched = <<>>

-----------------------------------------------------------------------------
(* Client::start                                                           *)

\* listener.accept(); without a token the connection is adopted at once.
Accept(s) ==
  /\ phase = "accepting"
  /\ connections < MaxConnections
  /\ connections' = connections + 1
  /\ phase' = IF withToken THEN "auth" ELSE "reading"
  /\ pc' = "read"
  /\ stream' = s
  /\ got' = 0
  /\ start' = 0
  /\ state' = Waiting
  /\ frames' = <<>>
  /\ UNCHANGED <<config, dispatched>>

\* AuthOutcome::Rejected before adoption, the end of read_loop after it.
Leave == phase' = IF phase = "auth" THEN "accepting" ELSE "closed"

-----------------------------------------------------------------------------
(* The read of run_auth_handshake and of read_loop                         *)

Read(n) ==
  /\ phase \in {"auth", "reading"}
  /\ pc = "read"
  /\ got + n <= Total
  /\ got' = got + n
  /\ frames' = <<>>
  /\ pc' = "extract"
  /\ UNCHANGED <<config, phase, connections, stream, start, state, dispatched>>

\* Ok(0), possibly in the middle of a frame, or a read error.
ReadEnds ==
  /\ phase \in {"auth", "reading"}
  /\ pc = "read"
  /\ Leave
  /\ UNCHANGED <<config, pc, connections, stream, got, start, state, frames,
                 dispatched>>

-----------------------------------------------------------------------------
(* FrameBuffer::push: the loop over try_extract_one                        *)

Buffered == got - start

\* WaitingForHeader with enough bytes: the header is checked before anything
\* is consumed.  A header that does not pass makes push() return Err, and the
\* frames extracted by this push are dropped with it.
ExtractHeader ==
  /\ pc = "extract"
  /\ state = Waiting
  /\ Buffered >= HeaderSize
  /\ \E h \in Decoded(start) :
       \/ /\ ~Validate(h)
          /\ Leave
          /\ frames' = <<>>
          /\ pc' = "read"
          /\ UNCHANGED <<start, state>>
       \/ /\ Validate(h)
          /\ start' = start + HeaderSize
          /\ IF h.len = 0
             THEN /\ frames' = Append(frames, FrameFrom(h, start'))
                  /\ UNCHANGED state
             ELSE /\ state' = h
                  /\ UNCHANGED frames
          /\ UNCHANGED <<phase, pc>>
  /\ UNCHANGED <<config, connections, stream, got, dispatched>>

\* Mutant of ExtractPayload: the payload is taken with its last byte missing.
ExtractShortPayload ==
  /\ pc = "extract"
  /\ state # Waiting
  /\ Buffered + 1 >= state.len
  /\ frames' = Append(frames, FrameFrom(state, start))
  /\ start' = start + state.len
  /\ state' = Waiting
  /\ UNCHANGED <<config, phase, pc, connections, stream, got, dispatched>>

\* WaitingForPayload with enough bytes.
ExtractPayload ==
  /\ pc = "extract"
  /\ state # Waiting
  /\ Buffered >= state.len
  /\ frames' = Append(frames, FrameFrom(state, start))
  /\ start' = start + state.len
  /\ state' = Waiting
  /\ UNCHANGED <<config, phase, pc, connections, stream, got, dispatched>>

\* Mutant of PushReturns: push() stops after the first frame.
PushReturnsEarly ==
  /\ pc = "extract"
  /\ \/ frames # <<>>
     \/ Buffered < (IF state = Waiting THEN HeaderSize ELSE state.len)
  /\ pc' = IF phase = "auth" THEN "pushed" ELSE "dispatch"
  /\ UNCHANGED <<config, phase, connections, stream, got, start, state, frames,
                 dispatched>>

\* try_extract_one returns None: push() returns the frames it has.
PushReturns ==
  /\ pc = "extract"
  /\ Buffered < (IF state = Waiting THEN HeaderSize ELSE state.len)
  /\ pc' = IF phase = "auth" THEN "pushed" ELSE "dispatch"
  /\ UNCHANGED <<config, phase, connections, stream, got, start, state, frames,
                 dispatched>>

-----------------------------------------------------------------------------
(* run_auth_handshake after a push                                         *)

\* Mutant of Handshake: the method id is compared, the token is not.
HandshakeById ==
  /\ phase = "auth"
  /\ pc = "pushed"
  /\ \/ /\ frames = <<>>
        /\ pc' = "read"
        /\ UNCHANGED <<phase, frames>>
     \/ /\ frames # <<>>
        /\ Head(frames).kind \in {"auth", "badAuth"}
        /\ phase' = "reading"
        /\ frames' = Tail(frames)
        /\ pc' = "dispatch"
     \/ /\ frames # <<>>
        /\ Head(frames).kind = "call"
        /\ Leave
        /\ pc' = "read"
        /\ UNCHANGED frames
  /\ UNCHANGED <<config, connections, stream, got, start, state, dispatched>>

\* Mutant of Handshake: frames pipelined behind the AUTH frame are dropped.
HandshakeDrops ==
  /\ phase = "auth"
  /\ pc = "pushed"
  /\ pc' = "read"
  /\ phase' = IF frames = <<>> THEN phase
              ELSE IF Head(frames).kind = "auth" THEN "reading" ELSE "accepting"
  /\ UNCHANGED <<config, connections, stream, got, start, state, frames,
                 dispatched>>

\* The first frame decides.  On success the buffer, with what it holds beyond
\* the AUTH frame, and the frames behind that one go to read_loop.
Handshake ==
  /\ phase = "auth"
  /\ pc = "pushed"
  /\ \/ /\ frames = <<>>
        /\ pc' = "read"
        /\ UNCHANGED <<phase, frames>>
     \/ /\ frames # <<>>
        /\ Head(frames).kind = "auth"
        /\ phase' = "reading"
        /\ frames' = Tail(frames)
        /\ pc' = "dispatch"
     \/ /\ frames # <<>>
        /\ Head(frames).kind # "auth"
        /\ Leave
        /\ pc' = "read"
        /\ UNCHANGED frames
  /\ UNCHANGED <<config, connections, stream, got, start, state, dispatched>>

-----------------------------------------------------------------------------
(* read_loop: the initial frames, then the frames of each push, one by one *)

DispatchNext ==
  /\ phase = "reading"
  /\ pc = "dispatch"
  /\ \/ /\ frames # <<>>
        /\ dispatched' = Append(dispatched, Head(frames))
        /\ frames' = Tail(frames)
        /\ UNCHANGED pc
     \/ /\ frames = <<>>
        /\ pc' = "read"
        /\ UNCHANGED <<frames, dispatched>>
  /\ UNCHANGED <<config, phase, connections, stream, got, start, state>>

\* Nothing can happen any more.
Finished ==
  /\ \/ phase = "closed"
     \/ phase = "accepting" /\ connections = MaxConnections
  /\ UNCHANGED vars

Next ==
  \/ \E s \in Streams : Accept(s)
  \/ \E n \in 1..MaxRead : Read(n)
  \/ ReadEnds
  \/ ExtractHeader
  \/ ExtractPayload
  \/ PushReturns
  \/ Handshake
  \/ DispatchNext
  \/ Finished

Spec == Init /\ [][Next]_vars

\* The task is polled, and what the peer has sent arrives.  The peer need not
\* connect, and need not close.
FairSpec ==
  /\ Spec
  /\ WF_vars(ExtractHeader \/ ExtractPayload \/ PushReturns \/ Handshake
             \/ DispatchNext \/ \E n \in 1..MaxRead : Read(n))

-----------------------------------------------------------------------------
(* Properties                                                              *)

\* Every variable has its type, and no more is consumed than was received.
TypeOK ==
  /\ config \in Configs
  /\ phase \in {"accepting", "auth", "reading", "closed"}
  /\ pc \in {"read", "extract", "pushed", "dispatch"}
  /\ connections \in 0..MaxConnections
  /\ stream \in Streams \cup {<<>>}
  /\ got \in 0..Total
  /\ start \in 0..got
  /\ state \in [at : -1..Total, kind : FrameKinds, len : Nat]

\* The i-th frame as the peer sent it.
SentFrame(i) == FrameFrom(stream[i], stream[i].at + HeaderSize)

\* The AUTH frame is not dispatched.
Skip == IF withToken THEN 1 ELSE 0

\* However the bytes were cut into reads, what is dispatched are the peer's
\* frames, in order, from the first (behind AUTH) on, header and payload where
\* the peer put them.
DispatchedInOrder ==
  /\ Len(dispatched) + Skip <= Len(stream) \/ dispatched = <<>>
  /\ \A k \in 1..Len(dispatched) : dispatched[k] = SentFrame(k + Skip)

\* When read_loop goes back to the socket, every frame received whole has been
\* dispatched: none is left in the buffer, in the Vec of push(), or behind in
\* the handshake.
NothingLeftBehind ==
  phase = "reading" /\ pc = "read" =>
    \A i \in 1..Len(stream) :
      End(stream[i]) <= got => Len(dispatched) + Skip >= i

\* If the application set a token, or left the matter to a parent that set one in
\* the environment, nothing is dispatched and no connection adopted unless its
\* first frame was an AUTH frame with the token.
OnlyAuthenticated ==
  /\ \/ config.auth_token = "token"
     \/ config.auth_token = "unset" /\ config.PROCWIRE_TOKEN = "token"
  /\ phase \in {"reading", "closed"} \/ dispatched # <<>>
  => stream # <<>> /\ stream[1].kind = "auth" /\ Validate(stream[1])

\* The client never waits for, or dispatches, a payload over either limit: an
\* oversized length ends the connection before the payload is buffered.
PayloadsWithinLimit ==
  \A n \in {state.len} \cup {dispatched[k].len : k \in 1..Len(dispatched)} :
    n <= config.size /\ n <= AbsoluteMax

\* A peer that was adopted and sends well-formed frames gets all of them
\* dispatched, unless the connection ends first.
AllDispatched ==
  (phase = "reading") ~> (phase = "closed" \/ Len(dispatched) + Skip = Len(stream))
=============================================================================
