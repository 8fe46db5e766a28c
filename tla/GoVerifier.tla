----------------------------- MODULE GoVerifier -----------------------------
(***************************************************************************)
(* sdk-go/verify.go: one Verifier shared by goroutines.  The mutex covers  *)
(* the two critical sections of keyForKID and is released during the HTTP  *)
(* fetch, so that several goroutines may fetch at a time and their answers *)
(* may be stored in any order.                                             *)
(***************************************************************************)
EXTENDS Jwt

CONSTANTS
    Goroutines,
    NoToken, NoReply,
    TTL,          \* jwksCacheTTL
    FetchTimeout  \* http.Client.Timeout, which covers reading the body

ASSUME GoAssumption ==
    /\ TTL \in Nat \ {0}
    /\ FetchTimeout \in Nat
    /\ NoToken \notin Tokens /\ NoReply \notin Documents

VARIABLES
    keys,         \* the kids in Verifier.keys
    fetchedAt,    \* Verifier.fetchedAt, a monotonic reading
    pc,           \* where each goroutine is in Verify
    tok,          \* its argument
    asked,        \* when its call began
    start,        \* when its fetch was sent (Start when it has none)
    reply,        \* the document on its way to it, or NoReply
    out           \* how its last call ended

cacheVars == <<keys, fetchedAt>>
callVars  == <<pc, tok, asked, start, reply, out>>
vars      == <<endpointVars, cacheVars, callVars>>


PCs == {"idle", "lookup", "fetch", "reply"}
Outcomes == {"none", "accepted", "refused", "absent", "failed"}

Fetching(g) == pc[g] \in {"fetch", "reply"}

TypeOK ==
    /\ EndpointTypeOK
    /\ keys \subseteq Kids
    /\ fetchedAt \in Nat /\ fetchedAt <= now
    /\ pc \in [Goroutines -> PCs]
    /\ tok \in [Goroutines -> Tokens \cup {NoToken}]
    /\ asked \in [Goroutines -> Nat]
    /\ start \in [Goroutines -> Nat]
    /\ reply \in [Goroutines -> Documents \cup {NoReply}]
    /\ out \in [Goroutines -> Outcomes]

Init ==
    /\ EndpointInit
    /\ keys = {}
    /\ fetchedAt = 0
    /\ pc = [g \in Goroutines |-> "idle"]
    /\ tok = [g \in Goroutines |-> NoToken]
    /\ asked = [g \in Goroutines |-> Start]
    /\ start = [g \in Goroutines |-> Start]
    /\ reply = [g \in Goroutines |-> NoReply]
    /\ out = [g \in Goroutines |-> "none"]

-----------------------------------------------------------------------------
\* The checks before the key is looked up.
HeaderOK(t) == t.parses /\ t.alg = "ES256" /\ t.kid # NoKid

\* encoding/json leaves an absent number 0.
Number(x) == IF x = Missing THEN 0 ELSE x

\* The checks after it; time.Now().Unix() is read after any fetch.
ClaimsOK(t, w) ==
    /\ ~(Number(t.exp) # 0 /\ w > Number(t.exp) + Skew)
    /\ ~(Number(t.iat) # 0 /\ Number(t.iat) > w + Skew)
    /\ ~(ExpectedIss # NoIss /\ t.iss # ExpectedIss)

Verdict(t) == IF t.signed /\ ClaimsOK(t, Wall) THEN "accepted" ELSE "refused"

\* Mutant: the age of the cache is not looked at.
HitAtAnyAge(k) == k \in keys

\* The condition under which keyForKID answers from the cache.
Hit(k) == k \in keys /\ now - fetchedAt < TTL

\* A P-256 entry that does not decode fails the whole document, and so does
\* a document without a usable key.
Decodes(doc) == Usable(doc) # {} /\ \A e \in doc : e.kind # "broken"

Return(g, o) ==
    /\ pc' = [pc EXCEPT ![g] = "idle"]
    /\ tok' = [tok EXCEPT ![g] = NoToken]
    /\ asked' = [asked EXCEPT ![g] = Start]
    /\ start' = [start EXCEPT ![g] = Start]
    /\ reply' = [reply EXCEPT ![g] = NoReply]
    /\ out' = [out EXCEPT ![g] = o]

-----------------------------------------------------------------------------
\* A caller enters Verify.
Call(g, t) ==
    /\ pc[g] = "idle"
    /\ pc' = [pc EXCEPT ![g] = "lookup"]
    /\ tok' = [tok EXCEPT ![g] = t]
    /\ asked' = [asked EXCEPT ![g] = now]
    /\ out' = [out EXCEPT ![g] = "none"]
    /\ UNCHANGED <<endpointVars, cacheVars, start, reply>>

\* The header is rejected; no key is looked up.
BadHeader(g) ==
    /\ pc[g] = "lookup"
    /\ ~HeaderOK(tok[g])
    /\ Return(g, "refused")
    /\ UNCHANGED <<endpointVars, cacheVars>>

\* First critical section, the key is cached and fresh.
CacheHit(g) ==
    /\ pc[g] = "lookup"
    /\ HeaderOK(tok[g]) /\ Hit(tok[g].kid)
    /\ Return(g, Verdict(tok[g]))
    /\ UNCHANGED <<endpointVars, cacheVars>>

\* First critical section, it is not: the request is sent outside the lock.
CacheMiss(g) ==
    /\ pc[g] = "lookup"
    /\ HeaderOK(tok[g]) /\ ~Hit(tok[g].kid)
    /\ pc' = [pc EXCEPT ![g] = "fetch"]
    /\ start' = [start EXCEPT ![g] = now]
    /\ UNCHANGED <<endpointVars, cacheVars, tok, asked, reply, out>>

\* The server answers with the document it publishes at this moment.
Serve(g) ==
    /\ pc[g] = "fetch"
    /\ pc' = [pc EXCEPT ![g] = "reply"]
    /\ reply' = [reply EXCEPT ![g] = published]
    /\ UNCHANGED <<endpointVars, cacheVars, tok, asked, start, out>>

\* Mutants: the new keys are added to the old ones; the cache remembers when
\* it expires instead of when it was filled.
StoreMerges(g) ==
    /\ pc[g] = "reply"
    /\ Decodes(reply[g])
    /\ keys' = keys \cup Usable(reply[g])
    /\ fetchedAt' = now
    /\ Return(g, IF tok[g].kid \in keys' THEN Verdict(tok[g]) ELSE "absent")
    /\ UNCHANGED endpointVars

StoreExpiry(g) ==
    /\ pc[g] = "reply"
    /\ Decodes(reply[g])
    /\ keys' = Usable(reply[g])
    /\ fetchedAt' = now + TTL
    /\ Return(g, IF tok[g].kid \in keys' THEN Verdict(tok[g]) ELSE "absent")
    /\ UNCHANGED endpointVars

\* The document is decoded and stored, and the kid looked up in it, in the
\* second critical section.
Store(g) ==
    /\ pc[g] = "reply"
    /\ Decodes(reply[g])
    /\ keys' = Usable(reply[g])
    /\ fetchedAt' = now
    /\ Return(g, IF tok[g].kid \in keys' THEN Verdict(tok[g]) ELSE "absent")
    /\ UNCHANGED endpointVars

\* The document does not decode; the cache is left as it is.
Discard(g) ==
    /\ pc[g] = "reply"
    /\ ~Decodes(reply[g])
    /\ Return(g, "failed")
    /\ UNCHANGED <<endpointVars, cacheVars>>

\* Mutant: an HTTP client without a timeout.
FetchFailsAfterReply(g) ==
    /\ pc[g] = "reply"
    /\ Return(g, "failed")
    /\ UNCHANGED <<endpointVars, cacheVars>>

\* A transport error, a status other than 200, a cancelled ctx, a timeout.
FetchFails(g) ==
    /\ Fetching(g)
    /\ Return(g, "failed")
    /\ UNCHANGED <<endpointVars, cacheVars>>

\* Time passes, but no fetch outlives FetchTimeout.
Tick ==
    /\ \A g \in Goroutines : Fetching(g) => now < start[g] + FetchTimeout
    /\ \E doc \in Documents : Advance(doc)
    /\ UNCHANGED <<cacheVars, callVars>>

ClockBack == SetClockBack /\ UNCHANGED <<cacheVars, callVars>>

Finish(g) == Store(g) \/ Discard(g) \/ FetchFails(g)
Step(g) == BadHeader(g) \/ CacheHit(g) \/ CacheMiss(g) \/ Finish(g)

Next ==
    \/ \E g \in Goroutines :
        \/ \E t \in Tokens : Call(g, t)
        \/ Step(g)
        \/ Serve(g)
    \/ Tick
    \/ ClockBack

\* The runtime schedules every goroutine, and http.Client.Timeout ends every
\* fetch.  Nothing is assumed of the server or of the clock.
Spec == Init /\ [][Next]_vars /\ \A g \in Goroutines : WF_vars(Step(g))

-----------------------------------------------------------------------------
\* What is in the cache was published: every cached key was in the server's
\* document, and every key that is missing from a filled cache was missing
\* from it, at some time no earlier than FetchTimeout before fetchedAt.  Two
\* overlapping fetches that are stored in the wrong order must not break it.
CacheVouched ==
    keys # {} =>
        \A k \in Kids :
            IF k \in keys THEN fetchedAt <= LastIn(k) + FetchTimeout
                          ELSE fetchedAt <= LastOut(k) + FetchTimeout

\* The promise to callers, with the bounds of this implementation.
Promise == INSTANCE VerifierPromise WITH
    Callers <- Goroutines, Staleness <- TTL + FetchTimeout, AbsentLag <- 0

\* Claims are returned only for an acceptable token whose key the server
\* published less than TTL + FetchTimeout ago; a good token is not refused;
\* a key is called absent only if it was absent during this very call.
ImplementsPromise == Promise!PromiseSpec

\* Every call of Verify returns, whatever the server does.
EveryCallReturns == \A g \in Goroutines : pc[g] # "idle" ~> pc[g] = "idle"

\* sdk-go/README.md: "JWKS fetches are serialised inside Verifier".
FetchesSerialised ==
    \A g, h \in Goroutines : Fetching(g) /\ Fetching(h) => g = h
=============================================================================
