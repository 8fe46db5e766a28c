-------------------------- MODULE VerifierPromise --------------------------
(***************************************************************************)
(* What a JWKS-backed token verifier promises its callers, whatever cache  *)
(* it keeps and however it fetches.  GoVerifier, NodeVerifier and          *)
(* PyVerifier each implement this module.                                  *)
(***************************************************************************)
EXTENDS Jwt

CONSTANTS
    Callers,     \* goroutines, threads or pending promises that verify tokens
    Staleness,   \* how long after a key leaves the document it may be trusted
    AbsentLag,   \* how old, when a call begins, the evidence "unknown" may be
    NoToken      \* the caller has no call under way

Outcomes == {"none", "accepted", "refused", "absent", "failed"}

VARIABLES
    tok,         \* the token of the caller's call, or NoToken
    asked,       \* when that call began (Start when there is none)
    out          \* how the caller's last call ended

callVars == <<tok, asked, out>>
promiseVars == <<endpointVars, callVars>>

CallsTypeOK ==
    /\ tok \in [Callers -> Tokens \cup {NoToken}]
    /\ asked \in [Callers -> Nat]
    /\ out \in [Callers -> Outcomes]
    /\ \A c \in Callers : asked[c] <= now

CallsInit ==
    /\ tok = [c \in Callers |-> NoToken]
    /\ asked = [c \in Callers |-> Start]
    /\ out = [c \in Callers |-> "none"]

Ask(c, t) ==
    /\ tok[c] = NoToken
    /\ tok' = [tok EXCEPT ![c] = t]
    /\ asked' = [asked EXCEPT ![c] = now]
    /\ out' = [out EXCEPT ![c] = "none"]

Answer(c, o) ==
    /\ tok[c] # NoToken
    /\ tok' = [tok EXCEPT ![c] = NoToken]
    /\ asked' = [asked EXCEPT ![c] = Start]
    /\ out' = [out EXCEPT ![c] = o]

\* Claims are returned only for a token that is acceptable by the host's
\* clock and whose key the server has published recently.
MayAccept(t) ==
    /\ Acceptable(t, Wall)
    /\ now < LastIn(t.kid) + Staleness

\* A good token is never refused on its merits.  (An exp of 0 is outside the
\* documentation: Go and Node read it as absent, Python as a time long past.)
MayRefuse(t) == ~Acceptable(t, Wall) \/ t.exp = 0

\* "Not present in JWKS" is said only of a key that was indeed missing from
\* the document at some time since the call began, or AbsentLag before.
MayBeAbsent(c) == asked[c] <= LastOut(tok[c].kid) + AbsentLag

Allowed(c, o) ==
    \/ o = "accepted" /\ MayAccept(tok[c])
    \/ o = "refused" /\ MayRefuse(tok[c])
    \/ o = "absent" /\ tok[c].kid # NoKid /\ MayBeAbsent(c)
    \/ o = "failed"          \* a fetch may always fail

PromiseInit == EndpointInit /\ CallsInit

PromiseNext ==
    \/ \E c \in Callers :
        \/ \E t \in Tokens : Ask(c, t) /\ UNCHANGED endpointVars
        \/ \E o \in Outcomes :
            Answer(c, o) /\ Allowed(c, o) /\ UNCHANGED endpointVars
    \/ (\E doc \in Documents : Advance(doc)) /\ UNCHANGED callVars
    \/ SetClockBack /\ UNCHANGED callVars

PromiseSpec == PromiseInit /\ [][PromiseNext]_promiseVars
=============================================================================
