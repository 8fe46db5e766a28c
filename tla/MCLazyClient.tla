---------------------------- MODULE MCLazyClient ----------------------------
(* An instance of LazyClient for TLC; the README explains the bounds. *)
EXTENDS LazyClient

CONSTANTS a, b, iss1

Key(k) == [kid |-> k, kind |-> "p256"]
Old == {Key(a)}
New == {Key(b)}

MCDocuments == {Old, New}
MCRotation == [d \in MCDocuments |-> MCDocuments \ {d}]

MCTokens ==
    {[parses |-> TRUE, alg |-> "ES256", kid |-> a, signed |-> TRUE,
      exp |-> Missing, iat |-> Missing, iss |-> iss1]}
=============================================================================
