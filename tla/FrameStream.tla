---------------------------- MODULE FrameStream ----------------------------
(***************************************************************************)
(* What the outbound path promises its users, with no counter, channel,    *)
(* batch or task in sight: frames are accepted once each, they reach the   *)
(* pipe in the order of acceptance and without gaps, an orderly end comes  *)
(* only after all of them were delivered, and after a broken pipe nothing  *)
(* is accepted or delivered any more.                                      *)
(***************************************************************************)
EXTENDS Integers, Sequences

CONSTANT Frames

VARIABLES
  accepted,   \* frames a call reported as sent, in order
  delivered,  \* frames on the pipe, in order
  status      \* "open", "ended" or "broken"

streamVars == <<accepted, delivered, status>>

StreamInit ==
  /\ accepted = <<>>
  /\ delivered = <<>>
  /\ status = "open"

Accept(f) ==
  /\ status = "open"
  /\ \A i \in 1..Len(accepted) : accepted[i] # f
  /\ accepted' = Append(accepted, f)
  /\ UNCHANGED <<delivered, status>>

\* The pipe catches up with the first n accepted frames.
CatchUp(n) ==
  /\ Len(delivered) <= n
  /\ delivered' = SubSeq(accepted, 1, n)

Deliver ==
  /\ status = "open"
  /\ \E n \in 0..Len(accepted) : CatchUp(n)
  /\ UNCHANGED <<accepted, status>>

Break ==
  /\ status = "open"
  /\ \E n \in 0..Len(accepted) : CatchUp(n)
  /\ status' = "broken"
  /\ UNCHANGED accepted

End ==
  /\ status = "open"
  /\ delivered = accepted
  /\ status' = "ended"
  /\ UNCHANGED <<accepted, delivered>>

StreamNext == (\E f \in Frames : Accept(f)) \/ Deliver \/ Break \/ End

StreamSpec == StreamInit /\ [][StreamNext]_streamVars
=============================================================================
