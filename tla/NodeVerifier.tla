---------------------------- MODULE NodeVerifier ----------------------------
(***************************************************************************)
(* sdk-node/src/verify.ts: one Verifier on the event loop.  Concurrent     *)
(* misses wait on one promise, this.inflight; a call that joins it takes   *)
(* what that fetch brings, however long ago the fetch was sent.            *)
(*                                                                         *)
(* A refresh is named by the caller whose miss started it.  Code between   *)
(* two awaits is one step; continuations are microtasks, which run before  *)
(* the next network event and before the clock advances.                   *)
(***************************************************************************)
EXTENDS Jwt

CONSTANTS
    Callers,      \* pending calls of verify
    NoToken, NoReply, Nobody,
    TTL,          \* JWKS_CACHE_TTL_MS
    FetchTimeout  \* how long the platform lets a fetch last: the code sets none

ASSUME NodeAssumption ==
    /\ TTL \in Nat \ {0}
    /\ FetchTimeout \in Nat
    /\ NoToken \notin Tokens /\ NoReply \notin Documents /\ Nobody \notin Callers

VARIABLES
    keys,         \* the kids in this.cache
    fetchedAt,    \* this.fetchedAt, a wall-clock reading
    inflight,     \* whose refresh this.inflight is, or Nobody
    refresh,      \* the state of the refresh each caller started
    start,        \* when it was sent (Start when there is none)
    reply,        \* the document on its way to it, or NoReply
    pc,           \* where each call of verify is
    on,           \* the refresh it awaits, or Nobody
    tok,          \* its argument
    asked,        \* when it began
    out           \* how the caller's last call ended

cacheVars   == <<keys, fetchedAt>>
refreshVars == <<inflight, refresh, start, reply>>
callVars    == <<pc, on, tok, asked, out>>
vars        == <<endpointVars, cacheVars, refreshVars, callVars>>

RefreshStates == {"none", "sent", "replied", "resolved", "rejected"}
\* verify: the key is in hand; ready, thrown: the awaited refresh resolved or
\* rejected; refuse: the header was rejected.
Microtasks == {"verify", "ready", "thrown", "refuse"}
PCs == {"idle", "await"} \cup Microtasks
Outcomes == {"none", "accepted", "refused", "absent", "failed"}

TypeOK ==
    /\ EndpointTypeOK
    /\ keys \subseteq Kids
    /\ fetchedAt \in Int
    /\ inflight \in Callers \cup {Nobody}
    /\ refresh \in [Callers -> RefreshStates]
    /\ start \in [Callers -> Nat]
    /\ reply \in [Callers -> Documents \cup {NoReply}]
    /\ pc \in [Callers -> PCs]
    /\ on \in [Callers -> Callers \cup {Nobody}]
    /\ tok \in [Callers -> Tokens \cup {NoToken}]
    /\ asked \in [Callers -> Nat]
    /\ out \in [Callers -> Outcomes]

Init ==
    /\ EndpointInit
    /\ keys = {}
    /\ fetchedAt = 0
    /\ inflight = Nobody
    /\ refresh = [c \in Callers |-> "none"]
    /\ start = [c \in Callers |-> Start]
    /\ reply = [c \in Callers |-> NoReply]
    /\ pc = [c \in Callers |-> "idle"]
    /\ on = [c \in Callers |-> Nobody]
    /\ tok = [c \in Callers |-> NoToken]
    /\ asked = [c \in Callers |-> Start]
    /\ out = [c \in Callers |-> "none"]

-----------------------------------------------------------------------------
\* The checks before the key is looked up.
HeaderOK(x) == x.parses /\ x.alg = "ES256" /\ x.kid # NoKid

\* The checks after it: an exp or iat that is absent or 0 is falsy.
ClaimsOK(x, w) ==
    /\ ~(x.exp \notin {Missing, 0} /\ w > x.exp + Skew)
    /\ ~(x.iat \notin {Missing, 0} /\ x.iat > w + Skew)
    /\ ~(ExpectedIss # NoIss /\ x.iss # ExpectedIss)

Verdict(x) == IF x.signed /\ ClaimsOK(x, Wall) THEN "accepted" ELSE "refused"

\* Mutant: the age of the cache is not looked at.
HitAtAnyAge(k) == k \in keys

\* The condition under which keyForKid answers from the cache.
Hit(k) == k \in keys /\ Wall - fetchedAt < TTL

\* A P-256 entry that does not decode fails the whole document, and so does
\* a document without a usable key.
Decodes(doc) == Usable(doc) # {} /\ \A e \in doc : e.kind # "broken"

Pending(c) == refresh[c] \in {"sent", "replied"}
Settled(c) == refresh[c] \in {"resolved", "rejected"}

\* The loop takes a network event or a timer only once no microtask is left.
MicrotasksDone == \A c \in Callers : pc[c] \notin Microtasks /\ ~Settled(c)

-----------------------------------------------------------------------------
\* verify is called and runs up to its first await, in state p.
Enter(c, x, p) ==
    /\ pc[c] = "idle"
    /\ pc' = [pc EXCEPT ![c] = p]
    /\ tok' = [tok EXCEPT ![c] = x]
    /\ asked' = [asked EXCEPT ![c] = now]
    /\ out' = [out EXCEPT ![c] = "none"]
    /\ UNCHANGED <<endpointVars, cacheVars>>

CallBadHeader(c, x) ==
    /\ ~HeaderOK(x)
    /\ Enter(c, x, "refuse")
    /\ UNCHANGED <<refreshVars, on>>

CallHit(c, x) ==
    /\ HeaderOK(x) /\ Hit(x.kid)
    /\ Enter(c, x, "verify")
    /\ UNCHANGED <<refreshVars, on>>

\* A miss while a refresh is under way awaits that refresh.
CallJoin(c, x) ==
    /\ HeaderOK(x) /\ ~Hit(x.kid)
    /\ inflight # Nobody
    /\ on' = [on EXCEPT ![c] = inflight]
    /\ Enter(c, x, "await")
    /\ UNCHANGED refreshVars

\* Mutant: a miss always starts a refresh.
FetchEveryMiss(c, x) ==
    /\ HeaderOK(x) /\ ~Hit(x.kid)
    /\ inflight' = c
    /\ refresh' = [refresh EXCEPT ![c] = "sent"]
    /\ start' = [start EXCEPT ![c] = now]
    /\ on' = [on EXCEPT ![c] = c]
    /\ Enter(c, x, "await")
    /\ UNCHANGED reply

\* A miss otherwise starts one.
CallFetch(c, x) ==
    /\ HeaderOK(x) /\ ~Hit(x.kid)
    /\ inflight = Nobody
    /\ inflight' = c
    /\ refresh' = [refresh EXCEPT ![c] = "sent"]
    /\ start' = [start EXCEPT ![c] = now]
    /\ on' = [on EXCEPT ![c] = c]
    /\ Enter(c, x, "await")
    /\ UNCHANGED reply

Call(c, x) ==
    CallBadHeader(c, x) \/ CallHit(c, x) \/ CallJoin(c, x) \/ CallFetch(c, x)

-----------------------------------------------------------------------------
\* The server answers with the document it publishes at this moment.
Serve(c) ==
    /\ refresh[c] = "sent"
    /\ refresh' = [refresh EXCEPT ![c] = "replied"]
    /\ reply' = [reply EXCEPT ![c] = published]
    /\ UNCHANGED <<endpointVars, cacheVars, inflight, start, callVars>>

\* refresh ends, in state r.
EndRefresh(c, r) ==
    /\ MicrotasksDone
    /\ refresh' = [refresh EXCEPT ![c] = r]
    /\ start' = [start EXCEPT ![c] = Start]
    /\ reply' = [reply EXCEPT ![c] = NoReply]
    /\ UNCHANGED <<endpointVars, inflight, callVars>>

\* Mutants: the new keys are added to the old ones; the raw entries are kept.
StoreMerges(c) ==
    /\ refresh[c] = "replied" /\ Decodes(reply[c])
    /\ keys' = keys \cup Usable(reply[c])
    /\ fetchedAt' = Wall
    /\ EndRefresh(c, "resolved")

StoreRaw(c) ==
    /\ refresh[c] = "replied" /\ Decodes(reply[c])
    /\ keys' = reply[c]
    /\ fetchedAt' = Wall
    /\ EndRefresh(c, "resolved")

\* The document is decoded and becomes the cache.
Store(c) ==
    /\ refresh[c] = "replied" /\ Decodes(reply[c])
    /\ keys' = Usable(reply[c])
    /\ fetchedAt' = Wall
    /\ EndRefresh(c, "resolved")

Discard(c) ==
    /\ refresh[c] = "replied" /\ ~Decodes(reply[c])
    /\ EndRefresh(c, "rejected")
    /\ UNCHANGED cacheVars

\* A transport error, or a status that is not ok.
FetchFails(c) ==
    /\ Pending(c)
    /\ EndRefresh(c, "rejected")
    /\ UNCHANGED cacheVars

\* Mutants: then instead of finally; only the call that started the refresh
\* is resumed.
ClearOnSuccess(c) ==
    /\ Settled(c)
    /\ inflight' = IF refresh[c] = "resolved" THEN Nobody ELSE inflight
    /\ refresh' = [refresh EXCEPT ![c] = "none"]
    /\ pc' = [d \in Callers |->
                IF pc[d] = "await" /\ on[d] = c
                THEN IF refresh[c] = "resolved" THEN "ready" ELSE "thrown"
                ELSE pc[d]]
    /\ on' = [d \in Callers |-> IF on[d] = c THEN Nobody ELSE on[d]]
    /\ UNCHANGED <<endpointVars, cacheVars, start, reply, tok, asked, out>>

ResumeStarterOnly(c) ==
    /\ Settled(c)
    /\ inflight' = Nobody
    /\ refresh' = [refresh EXCEPT ![c] = "none"]
    /\ pc' = [pc EXCEPT ![c] = IF refresh[c] = "resolved" THEN "ready" ELSE "thrown"]
    /\ on' = [on EXCEPT ![c] = Nobody]
    /\ UNCHANGED <<endpointVars, cacheVars, start, reply, tok, asked, out>>

\* The callback of finally; the promise that callers await settles.
Finally(c) ==
    /\ Settled(c)
    /\ inflight' = Nobody
    /\ refresh' = [refresh EXCEPT ![c] = "none"]
    /\ pc' = [d \in Callers |->
                IF pc[d] = "await" /\ on[d] = c
                THEN IF refresh[c] = "resolved" THEN "ready" ELSE "thrown"
                ELSE pc[d]]
    /\ on' = [d \in Callers |-> IF on[d] = c THEN Nobody ELSE on[d]]
    /\ UNCHANGED <<endpointVars, cacheVars, start, reply, tok, asked, out>>

-----------------------------------------------------------------------------
\* The call resumes in state p and ends with outcome o.
Return(c, p, o) ==
    /\ pc[c] = p
    /\ pc' = [pc EXCEPT ![c] = "idle"]
    /\ tok' = [tok EXCEPT ![c] = NoToken]
    /\ asked' = [asked EXCEPT ![c] = Start]
    /\ out' = [out EXCEPT ![c] = o]
    /\ UNCHANGED <<endpointVars, cacheVars, refreshVars, on>>

Verify(c) == Return(c, "verify", Verdict(tok[c]))

\* After await this.inflight the kid is looked up; the age is not.
Lookup(c) ==
    Return(c, "ready", IF tok[c].kid \in keys THEN Verdict(tok[c]) ELSE "absent")

Throw(c)  == Return(c, "thrown", "failed")
Refuse(c) == Return(c, "refuse", "refused")

Resume(c) ==
    /\ pc[c] \in Microtasks
    /\ Verify(c) \/ Lookup(c) \/ Throw(c) \/ Refuse(c)

\* Time passes, but no fetch outlives FetchTimeout.
Tick ==
    /\ MicrotasksDone
    /\ \A c \in Callers : Pending(c) => now < start[c] + FetchTimeout
    /\ \E doc \in Documents : Advance(doc)
    /\ UNCHANGED <<cacheVars, refreshVars, callVars>>

ClockBack == SetClockBack /\ UNCHANGED <<cacheVars, refreshVars, callVars>>

Next ==
    \/ \E c \in Callers :
        \/ \E x \in Tokens : Call(c, x)
        \/ Serve(c) \/ Store(c) \/ Discard(c) \/ FetchFails(c)
        \/ Finally(c) \/ Resume(c)
    \/ Tick
    \/ ClockBack

\* The event loop runs every microtask and every network event that is due.
\* That a request is ever answered or fails is not assumed.
Spec ==
    /\ Init /\ [][Next]_vars
    /\ \A c \in Callers :
        WF_vars(Store(c) \/ Discard(c)) /\ WF_vars(Finally(c)) /\ WF_vars(Resume(c))

-----------------------------------------------------------------------------
\* this.inflight is the refresh that is under way, from the request until
\* the callback of finally: there is never a second one, and the reference
\* never outlives the refresh.
SingleFlight == \A c \in Callers : refresh[c] # "none" <=> inflight = c

\* A call awaits a refresh that is under way: nobody waits on a promise that
\* has been forgotten.
NobodyWaitsForNothing ==
    \A c \in Callers : pc[c] = "await" => on[c] = inflight /\ inflight # Nobody

\* What is in the cache was published: every cached key was in the server's
\* document, and every key that is missing from a filled cache was missing
\* from it, at some time no earlier than FetchTimeout before fetchedAt.
CacheVouched ==
    keys # {} =>
        \A k \in Kids :
            IF k \in keys THEN fetchedAt <= LastIn(k) + FetchTimeout
                          ELSE fetchedAt <= LastOut(k) + FetchTimeout

\* "Coalesce concurrent misses onto a single fetch": while a refresh is
\* pending the cache does not hold the kid it was started for, unless the
\* entry was stale (by a clock that may since have been set back).
NoRedundantFetch ==
    \A c \in Callers : Pending(c) /\ tok[c].kid \in keys =>
        fetchedAt + TTL <= Wall + MaxBack

\* The promise to callers, with the bounds of this implementation.
Promise == INSTANCE VerifierPromise WITH
    Staleness <- TTL + FetchTimeout + MaxBack, AbsentLag <- FetchTimeout

\* Claims are returned only for an acceptable token whose key the server
\* published recently; a good token is not refused; a key is called absent
\* only if it was absent during the call or FetchTimeout before it.
ImplementsPromise == Promise!PromiseSpec

\* If no fetch hangs for ever, every call of verify settles: none is left
\* behind by the promise it awaits.
CallsSettleIfFetchesEnd ==
    (\A c \in Callers : []<>~Pending(c)) =>
        \A c \in Callers : pc[c] # "idle" ~> pc[c] = "idle"

\* docs/concepts/jwt-verification.md: "as long as they honour kid and refetch
\* the JWKS on unknown kids, rotation is transparent".  A call is not told
\* that a key is absent when the server has published it all along the call.
RotationIsTransparent ==
    [][\A c \in Callers :
          pc[c] = "ready" /\ out'[c] = "absent" => asked[c] <= LastOut(tok[c].kid)]_vars
=============================================================================
