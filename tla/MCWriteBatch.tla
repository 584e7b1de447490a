---------------------------- MODULE MCWriteBatch ----------------------------
(* Instances of WriteBatch for TLC: batches of up to two frames whose        *)
(* payloads are empty, short, or one byte too long for a u32 of radix 2.     *)
EXTENDS WriteBatch

Payload(n) == [i \in 1..n |-> i % 2]

Call(answer, method_id, request_id, length) ==
  [answer |-> answer, method_id |-> method_id, response_type |-> "Stream",
   request_id |-> request_id, payload |-> Payload(length)]

MCCalls ==
  {Call("chunk", 1, 11, n) : n \in {0, 1, 3, U32}}
    \cup {Call("end", 1, 6, 0), Call("error", 1, 0, U32 - 1),
          Call("emit", 2, 0, 2)}

MCBatches == UNION {[1..n -> MCCalls] : n \in 0..2}
=============================================================================
