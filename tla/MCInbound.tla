----------------------------- MODULE MCInbound -----------------------------
(* Instances of Inbound for TLC: streams of three frames with the kinds and  *)
(* payload lengths that tell the branches apart.                             *)
EXTENDS Inbound

MCHeaders == [at : {0}, kind : FrameKinds, len : 0..(AbsoluteMax + 1)]

\* Three frames, one behind the other.
Placed(a, b, c) ==
  LET second == [b EXCEPT !.at = End(a)]
  IN  <<a, second, [c EXCEPT !.at = End(second)]>>

\* The first frame is of any kind, the second also of any length up to one over
\* the absolute limit, the third is there to be found misplaced.
MCStreams == {Placed(a, b, c) : a \in {h \in MCHeaders : h.len = 1},
                                b \in MCHeaders,
                                c \in {h \in MCHeaders :
                                         h.len <= 1 /\ h.kind \in {"call", "malformed"}}}

\* No token, the parent's token, the parent's token overridden by an empty one,
\* and a token of the application's own with a limit that is clamped.
MCConfigs ==
  LET Config(a, p, n) == [auth_token |-> a, PROCWIRE_TOKEN |-> p, size |-> n]
  IN  {Config("unset", "unset", 2), Config("unset", "token", 2),
       Config("empty", "token", 2), Config("token", "empty", AbsoluteMax + 1)}
=============================================================================
