---------------------------- MODULE MCPyVerifier ----------------------------
(* An instance of PyVerifier for TLC; the README explains the bounds. *)
EXTENDS PyVerifier

CONSTANTS a, b, iss1

Key(k, kind) == [kid |-> k, kind |-> kind]
\* Before a rotation, after it, and after one that left an entry broken.
Old    == {Key(a, "p256")}
New    == {Key(b, "p256"), Key(a, "other")}
Broken == {Key(b, "p256"), Key(a, "broken")}

MCDocuments == {Old, New, Broken}
MCRotation ==
    [d \in MCDocuments |-> CASE d = Old    -> {New, Broken}
                             [] d = New    -> {Broken}
                             [] d = Broken -> {New}]

Good(k) == [parses |-> TRUE, alg |-> "ES256", kid |-> k, signed |-> TRUE,
            exp |-> Missing, iat |-> Missing, iss |-> iss1]
MCTokens ==
    { Good(a), [Good(b) EXCEPT !.exp = 5, !.iat = 5],
      [Good(a) EXCEPT !.alg = "none", !.signed = FALSE] }
=============================================================================
