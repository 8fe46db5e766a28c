-------------------------------- MODULE Jwt --------------------------------
(***************************************************************************)
(* The tokens presented to a verifier, and the verdict the documentation   *)
(* asks for.  What each SDK's code decides is in that SDK's module.        *)
(***************************************************************************)
EXTENDS JwksEndpoint

CONSTANTS
    Tokens,      \* the tokens callers present
    ExpectedIss, \* the issuer the verifier was configured with, or NoIss
    Skew         \* leeway on exp and iat (clockSkew, CLOCK_SKEW_S, _CLOCK_SKEW)

Missing == -1              \* a numeric claim that the payload does not carry
NoKid   == "no kid"        \* a header without a kid
NoIss   == "no issuer"     \* no expected issuer; or a payload without iss

\* A token: whether it splits and its header parses; alg; kid; whether its
\* signature is 64 bytes and verifies under the key that kid names; claims.
TokenShape(t) ==
    /\ t.parses \in BOOLEAN
    /\ t.alg \in {"ES256", "none"}
    /\ t.kid \in Kids \cup {NoKid}
    /\ t.signed \in BOOLEAN
    /\ t.exp \in Nat \cup {Missing}
    /\ t.iat \in Nat \cup {Missing}

ASSUME TokenAssumption ==
    /\ Skew \in Nat
    /\ NoKid \notin Kids
    /\ \A t \in Tokens : TokenShape(t)

\* docs/concepts/jwt-verification.md, "How the SDKs verify it": the verdict
\* on t when the clock reads w, the choice of the key apart.
Acceptable(t, w) ==
    /\ t.parses /\ t.alg = "ES256" /\ t.kid # NoKid
    /\ t.signed
    /\ t.exp \in {Missing, 0} \/ w <= t.exp + Skew
    /\ t.iat \in {Missing, 0} \/ t.iat <= w + Skew
    /\ ExpectedIss = NoIss \/ t.iss = ExpectedIss
=============================================================================
