-------------------------------- MODULE Wire --------------------------------
(***************************************************************************)
(* The bytes of a frame (src/protocol/wire_format.rs, src/protocol/        *)
(* frame.rs) and the frames the child builds (src/handler/context.rs,      *)
(* src/client.rs).  All of it is pure: operators on header records and     *)
(* sequences of bytes.                                                     *)
(*                                                                         *)
(* A header is eleven bytes: u16 method_id, u8 flags, u32 request_id and   *)
(* u32 payload_length, big endian.  Radix is the number of values of a     *)
(* byte of the three integers, 256 in the program; smaller instances make  *)
(* the limits of u16 and u32 reachable.                                    *)
(***************************************************************************)
EXTENDS Integers, Sequences

CONSTANT Radix

ASSUME WireAssumption == Radix \in Nat /\ Radix >= 2

HEADER_SIZE == 11

U16 == Radix * Radix
U32 == U16 * U16

ABSOLUTE_MAX_PAYLOAD_SIZE == U32 \div 2 - 1
ABORT_METHOD_ID           == U16 - 1
AUTH_METHOD_ID            == U16 - 2
RESERVED_METHOD_ID        == 0

-----------------------------------------------------------------------------
(* mod flags                                                               *)

DIRECTION_TO_PARENT == 1
IS_RESPONSE         == 2
IS_ERROR            == 4
IS_STREAM           == 8
STREAM_END          == 16
IS_ACK              == 32

\* flags & flag # 0, for a flag that is one bit
has_flag(flags, flag) == (flags \div flag) % 2 = 1

\* RESERVED_MASK, bits 6 and 7
ReservedBitsSet(flags) == flags >= 64

\* The combinations are of disjoint bits, so | is +.
RESPONSE              == DIRECTION_TO_PARENT + IS_RESPONSE
ERROR_RESPONSE        == RESPONSE + IS_ERROR
STREAM_ERROR_RESPONSE == RESPONSE + IS_ERROR + IS_STREAM
STREAM_CHUNK          == RESPONSE + IS_STREAM
STREAM_END_RESPONSE   == RESPONSE + IS_STREAM + STREAM_END
ACK_RESPONSE          == RESPONSE + IS_ACK

-----------------------------------------------------------------------------
(* Header                                                                  *)

Header(method_id, flags, request_id, payload_length) ==
  [method_id |-> method_id, flags |-> flags, request_id |-> request_id,
   payload_length |-> payload_length]

\* u16::to_be_bytes and u32::to_be_bytes
Bytes16(n) == <<n \div Radix, n % Radix>>
Bytes32(n) == Bytes16(n \div U16) \o Bytes16(n % U16)

\* u16::from_be_bytes and u32::from_be_bytes
From16(a, b)       == a * Radix + b
From32(a, b, c, d) == From16(a, b) * U16 + From16(c, d)

\* Mutant of encode: the request id is written in little endian order.
encodeSwapped(h) ==
  Bytes16(h.method_id) \o <<h.flags>>
    \o Bytes16(h.request_id % U16) \o Bytes16(h.request_id \div U16)
    \o Bytes32(h.payload_length)

encode(h) ==
  Bytes16(h.method_id) \o <<h.flags>> \o Bytes32(h.request_id)
    \o Bytes32(h.payload_length)

\* Defined for a buffer of at least HEADER_SIZE bytes; a shorter one is None.
Decodable(buf) == Len(buf) >= HEADER_SIZE

decode(buf) ==
  Header(From16(buf[1], buf[2]), buf[3],
         From32(buf[4], buf[5], buf[6], buf[7]),
         From32(buf[8], buf[9], buf[10], buf[11]))

\* Header::validate returns Ok.
Valid(h, max_payload_size) ==
  /\ h.method_id # RESERVED_METHOD_ID
  /\ h.payload_length <= max_payload_size
  /\ h.payload_length <= ABSOLUTE_MAX_PAYLOAD_SIZE
  /\ ~ReservedBitsSet(h.flags)

\* The predicates of Header, by name.
HeaderTraits(h) ==
  [abort      |-> h.method_id = ABORT_METHOD_ID,
   auth       |-> h.method_id = AUTH_METHOD_ID,
   response   |-> has_flag(h.flags, IS_RESPONSE),
   error      |-> has_flag(h.flags, IS_ERROR),
   stream     |-> has_flag(h.flags, IS_STREAM),
   stream_end |-> has_flag(h.flags, STREAM_END),
   ack        |-> has_flag(h.flags, IS_ACK),
   to_parent  |-> has_flag(h.flags, DIRECTION_TO_PARENT),
   event      |-> h.request_id = 0]

\* The predicates of Frame are those of its header but for is_event, which a
\* response to request 0 does not satisfy.
FrameTraits(h) ==
  [HeaderTraits(h) EXCEPT
     !.event = h.request_id = 0 /\ ~has_flag(h.flags, IS_RESPONSE)]

-----------------------------------------------------------------------------
(* Frames                                                                  *)

build_frame(h, payload) == encode(h) \o payload

\* OutboundFrame::new and OutboundFrame::empty
OutboundFrame(h, payload) == [header |-> encode(h), payload |-> payload]
size(f)                   == HEADER_SIZE + Len(f.payload)

\* payload.len() as u32
LenAsU32(payload) == Len(payload) % U32

\* RequestContext::send_frame and send_frame_empty
send_frame(method_id, flags, request_id, payload) ==
  OutboundFrame(Header(method_id, flags, request_id, LenAsU32(payload)), payload)
send_frame_empty(method_id, flags, request_id) ==
  OutboundFrame(Header(method_id, flags, request_id, 0), <<>>)

\* Mutant of error_flags: errors are plain responses whatever the method.
error_flagsPlain(response_type) == ERROR_RESPONSE

\* RequestContext::error_flags
error_flags(response_type) ==
  IF response_type = "Stream" THEN STREAM_ERROR_RESPONSE ELSE ERROR_RESPONSE

\* The flags of each answering call on a method of the given response type.
Answers == {"respond", "ack", "chunk", "end", "error"}
FlagsOf(answer, response_type) ==
  CASE answer = "respond" -> RESPONSE
    [] answer = "ack"     -> ACK_RESPONSE
    [] answer = "chunk"   -> STREAM_CHUNK
    [] answer = "end"     -> STREAM_END_RESPONSE
    [] answer = "error"   -> error_flags(response_type)

\* RequestContext's answering calls: ack and end carry no payload.
answer_frame(answer, method_id, response_type, request_id, payload) ==
  LET flags == FlagsOf(answer, response_type)
  IN  IF answer \in {"ack", "end"}
      THEN send_frame_empty(method_id, flags, request_id)
      ELSE send_frame(method_id, flags, request_id, payload)

\* Client::emit and Client::emit_raw
emit_frame(event_id, payload) ==
  OutboundFrame(Header(event_id, DIRECTION_TO_PARENT, 0, LenAsU32(payload)),
                payload)
=============================================================================
