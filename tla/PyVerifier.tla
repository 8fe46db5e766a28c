----------------------------- MODULE PyVerifier -----------------------------
(***************************************************************************)
(* sdk-python/ztxbas/verify.py: one Verifier shared by threads.  The lock  *)
(* is held across the JWKS request, so that a burst of calls waits for one *)
(* fetch; ages are measured with time.time(), which can be set back.       *)
(***************************************************************************)
EXTENDS Jwt

CONSTANTS
    Threads,
    NoToken, NoReply, Nobody,
    TTL,          \* _JWKS_CACHE_TTL
    FetchTimeout  \* assumed: how long one _http_get takes, see Tick

ASSUME PyAssumption ==
    /\ TTL \in Nat \ {0}
    /\ FetchTimeout \in Nat
    /\ MaxBack <= Start      \* time.time() is never negative
    /\ NoToken \notin Tokens /\ NoReply \notin Documents /\ Nobody \notin Threads

VARIABLES
    keys,         \* the kids in self._keys
    fetchedAt,    \* self._fetched_at, a wall-clock reading
    lock,         \* the holder of self._lock, or Nobody
    pc,           \* where each thread is in verify
    tok,          \* its argument
    asked,        \* when its call began
    start,        \* when its fetch was sent (Start when it has none)
    reply,        \* the document on its way to it, or NoReply
    out           \* how its last call ended

cacheVars == <<keys, fetchedAt>>
callVars  == <<pc, tok, asked, start, reply, out>>
vars      == <<endpointVars, cacheVars, lock, callVars>>

PCs == {"idle", "lookup", "fetch", "reply"}
Outcomes == {"none", "accepted", "refused", "absent", "failed"}

Fetching(t) == pc[t] \in {"fetch", "reply"}

TypeOK ==
    /\ EndpointTypeOK
    /\ keys \subseteq Kids
    /\ fetchedAt \in Int
    /\ lock \in Threads \cup {Nobody}
    /\ pc \in [Threads -> PCs]
    /\ tok \in [Threads -> Tokens \cup {NoToken}]
    /\ asked \in [Threads -> Nat]
    /\ start \in [Threads -> Nat]
    /\ reply \in [Threads -> Documents \cup {NoReply}]
    /\ out \in [Threads -> Outcomes]

Init ==
    /\ EndpointInit
    /\ keys = {}
    /\ fetchedAt = 0
    /\ lock = Nobody
    /\ pc = [t \in Threads |-> "idle"]
    /\ tok = [t \in Threads |-> NoToken]
    /\ asked = [t \in Threads |-> Start]
    /\ start = [t \in Threads |-> Start]
    /\ reply = [t \in Threads |-> NoReply]
    /\ out = [t \in Threads |-> "none"]

-----------------------------------------------------------------------------
\* The checks before the key is looked up.
HeaderOK(x) == x.parses /\ x.alg = "ES256" /\ x.kid # NoKid

\* The checks after it.  An exp of 0 counts here: only None is absent.
ClaimsOK(x, w) ==
    /\ ~(x.exp # Missing /\ w > x.exp + Skew)
    /\ ~(x.iat # Missing /\ x.iat > w + Skew)
    /\ ~(ExpectedIss # NoIss /\ x.iss # ExpectedIss)

Verdict(x) == IF x.signed /\ ClaimsOK(x, Wall) THEN "accepted" ELSE "refused"

\* Mutant: the age of the cache is not looked at.
HitAtAnyAge(k) == k \in keys

\* The condition under which _key_for_kid answers from the cache.
Hit(k) == k \in keys /\ Wall - fetchedAt < TTL

\* _refresh_locked raises for a P-256 entry that does not decode and for a
\* document without a usable key.
Decodes(doc) == Usable(doc) # {} /\ \A e \in doc : e.kind # "broken"

Return(t, o) ==
    /\ pc' = [pc EXCEPT ![t] = "idle"]
    /\ tok' = [tok EXCEPT ![t] = NoToken]
    /\ asked' = [asked EXCEPT ![t] = Start]
    /\ start' = [start EXCEPT ![t] = Start]
    /\ reply' = [reply EXCEPT ![t] = NoReply]
    /\ out' = [out EXCEPT ![t] = o]

-----------------------------------------------------------------------------
\* A caller enters verify.
Call(t, x) ==
    /\ pc[t] = "idle"
    /\ pc' = [pc EXCEPT ![t] = "lookup"]
    /\ tok' = [tok EXCEPT ![t] = x]
    /\ asked' = [asked EXCEPT ![t] = now]
    /\ out' = [out EXCEPT ![t] = "none"]
    /\ UNCHANGED <<endpointVars, cacheVars, lock, start, reply>>

\* The header is rejected; the lock is not taken.
BadHeader(t) ==
    /\ pc[t] = "lookup"
    /\ ~HeaderOK(tok[t])
    /\ Return(t, "refused")
    /\ UNCHANGED <<endpointVars, cacheVars, lock>>

\* The lock is taken, the key is cached and fresh, the lock is released.
CacheHit(t) ==
    /\ pc[t] = "lookup" /\ lock = Nobody
    /\ HeaderOK(tok[t]) /\ Hit(tok[t].kid)
    /\ Return(t, Verdict(tok[t]))
    /\ UNCHANGED <<endpointVars, cacheVars, lock>>

\* Mutant: the cache is looked at before the lock is taken.
MissWithoutLock(t) ==
    /\ pc[t] = "lookup"
    /\ HeaderOK(tok[t]) /\ ~Hit(tok[t].kid)
    /\ lock' = t
    /\ pc' = [pc EXCEPT ![t] = "fetch"]
    /\ start' = [start EXCEPT ![t] = now]
    /\ UNCHANGED <<endpointVars, cacheVars, tok, asked, reply, out>>

\* The lock is taken and kept, and the request sent.
CacheMiss(t) ==
    /\ pc[t] = "lookup" /\ lock = Nobody
    /\ HeaderOK(tok[t]) /\ ~Hit(tok[t].kid)
    /\ lock' = t
    /\ pc' = [pc EXCEPT ![t] = "fetch"]
    /\ start' = [start EXCEPT ![t] = now]
    /\ UNCHANGED <<endpointVars, cacheVars, tok, asked, reply, out>>

\* The server answers with the document it publishes at this moment.
Serve(t) ==
    /\ pc[t] = "fetch"
    /\ pc' = [pc EXCEPT ![t] = "reply"]
    /\ reply' = [reply EXCEPT ![t] = published]
    /\ UNCHANGED <<endpointVars, cacheVars, lock, tok, asked, start, out>>

\* Mutants: the new keys are added to the old ones; the raw entries are kept.
StoreMerges(t) ==
    /\ pc[t] = "reply"
    /\ Decodes(reply[t])
    /\ keys' = keys \cup Usable(reply[t])
    /\ fetchedAt' = Wall
    /\ lock' = Nobody
    /\ Return(t, IF tok[t].kid \in keys' THEN Verdict(tok[t]) ELSE "absent")
    /\ UNCHANGED endpointVars

StoreRaw(t) ==
    /\ pc[t] = "reply"
    /\ Decodes(reply[t])
    /\ keys' = reply[t]
    /\ fetchedAt' = Wall
    /\ lock' = Nobody
    /\ Return(t, IF tok[t].kid \in Usable(keys') THEN Verdict(tok[t]) ELSE "absent")
    /\ UNCHANGED endpointVars

\* The document is decoded and stored, the kid looked up, the lock released.
Store(t) ==
    /\ pc[t] = "reply"
    /\ Decodes(reply[t])
    /\ keys' = Usable(reply[t])
    /\ fetchedAt' = Wall
    /\ lock' = Nobody
    /\ Return(t, IF tok[t].kid \in keys' THEN Verdict(tok[t]) ELSE "absent")
    /\ UNCHANGED endpointVars

\* Mutant: the lock is released by hand, and not on this path.
FailKeepsLock(t) ==
    /\ Fetching(t)
    /\ Return(t, "failed")
    /\ UNCHANGED <<endpointVars, cacheVars, lock>>

\* The document does not decode: the exception leaves the with block.
Discard(t) ==
    /\ pc[t] = "reply"
    /\ ~Decodes(reply[t])
    /\ lock' = Nobody
    /\ Return(t, "failed")
    /\ UNCHANGED <<endpointVars, cacheVars>>

\* A transport error, a status other than 200, a timeout: likewise.
FetchFails(t) ==
    /\ Fetching(t)
    /\ lock' = Nobody
    /\ Return(t, "failed")
    /\ UNCHANGED <<endpointVars, cacheVars>>

\* Time passes.  That no fetch outlives FetchTimeout is an assumption: urlopen
\* has a timeout on every read of the socket and none on the whole answer.
Tick ==
    /\ \A t \in Threads : Fetching(t) => now < start[t] + FetchTimeout
    /\ \E doc \in Documents : Advance(doc)
    /\ UNCHANGED <<cacheVars, lock, callVars>>

ClockBack == SetClockBack /\ UNCHANGED <<cacheVars, lock, callVars>>

Finish(t) == Store(t) \/ Discard(t) \/ FetchFails(t)

Next ==
    \/ \E t \in Threads :
        \/ \E x \in Tokens : Call(t, x)
        \/ BadHeader(t) \/ CacheHit(t) \/ CacheMiss(t)
        \/ Serve(t) \/ Finish(t)
    \/ Tick
    \/ ClockBack

\* Every thread is scheduled.  That a fetch ever ends is not assumed, since its
\* answer may be trickled; nor is anything of who gets the lock next, since
\* threading.Lock is not fair.
Spec ==
    /\ Init /\ [][Next]_vars
    /\ \A t \in Threads : WF_vars(BadHeader(t) \/ CacheHit(t) \/ CacheMiss(t))

-----------------------------------------------------------------------------
\* The lock is held exactly by the thread whose request is in flight.
LockGuardsFetch == \A t \in Threads : Fetching(t) <=> lock = t

\* What is in the cache was published: every cached key was in the server's
\* document, and every key that is missing from a filled cache was missing
\* from it, at some time no earlier than FetchTimeout before fetchedAt.
CacheVouched ==
    keys # {} =>
        \A k \in Kids :
            IF k \in keys THEN fetchedAt <= LastIn(k) + FetchTimeout
                          ELSE fetchedAt <= LastOut(k) + FetchTimeout

\* verify.py: "a burst of verifies against a cold cache produces at most one
\* HTTP call".  While a thread fetches, the cache does not hold its kid
\* unless the entry was stale (by a clock that may since have been set back):
\* no thread refetches what another thread's fetch has just brought.
NoRedundantFetch ==
    \A t \in Threads : Fetching(t) /\ tok[t].kid \in keys =>
        fetchedAt + TTL <= Wall + MaxBack

\* The promise to callers, with the bounds of this implementation: a wall
\* clock that is set back by MaxBack keeps an entry alive for as much longer.
Promise == INSTANCE VerifierPromise WITH
    Callers <- Threads, Staleness <- TTL + FetchTimeout + MaxBack, AbsentLag <- 0

\* Claims are returned only for an acceptable token whose key the server
\* published recently; a good token is not refused; a key is called absent
\* only if it was absent during this very call, the wait for the lock
\* included.
ImplementsPromise == Promise!PromiseSpec

\* If no fetch hangs for ever, and no thread is passed over for ever by those
\* that take the lock, then every call of verify returns: wherever
\* _refresh_locked raises, the lock is there for those who wait for it.
CallsReturnIfFetchesEnd ==
    /\ \A t \in Threads : []<>~Fetching(t)
    /\ \A t \in Threads : SF_vars(CacheHit(t) \/ CacheMiss(t))
    => \A t \in Threads : pc[t] # "idle" ~> pc[t] = "idle"
=============================================================================
