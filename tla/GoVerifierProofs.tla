-------------------------- MODULE GoVerifierProofs --------------------------
(***************************************************************************)
(* GoVerifier, for any number of goroutines, any documents and rotations,  *)
(* any tokens and any TTL and FetchTimeout: its types, the provenance of   *)
(* its cache, and that it implements VerifierPromise.  The second half is  *)
(* about LazyClient, whose goroutines make the same calls on one of        *)
(* several such verifiers; what is said of Calls serves both.              *)
(***************************************************************************)
EXTENDS GoVerifier, JwksEndpointProofs, Sequences

\* A goroutine has a token exactly while its call is under way, a call began
\* in the past, and only a token with a good header gets as far as a fetch.
CallShape ==
    \A g \in Goroutines :
        /\ pc[g] = "idle" <=> tok[g] = NoToken
        /\ pc[g] = "idle" => asked[g] = Start
        /\ Fetching(g) => HeaderOK(tok[g])
        /\ asked[g] <= now /\ Start <= now

\* A fetch is sent during the call and does not outlive FetchTimeout; the
\* reply on its way was read from the server after the fetch was sent.
FetchWindow ==
    \A g \in Goroutines :
        /\ Fetching(g) => /\ asked[g] <= start[g]
                          /\ start[g] <= now
                          /\ now <= start[g] + FetchTimeout
        /\ pc[g] = "reply" => /\ reply[g] \in Documents
                              /\ Vouched(Usable(reply[g]), start[g])

CacheWindow == keys # {} => Vouched(keys, fetchedAt - FetchTimeout)

IInv == TypeOK /\ CallShape /\ FetchWindow /\ CacheWindow

-----------------------------------------------------------------------------
\* The checks after the key has been found end a call one way or the other.
LEMMA VerdictIsOutcome == \A t : Verdict(t) \in {"accepted", "refused"}
  BY DEF Verdict

\* The invariant holds at first.
LEMMA InitIInv == Init => IInv
  <1>. SUFFICES ASSUME Init PROVE IInv
    OBVIOUS
  <1>1. EndpointTypeOK
    BY EndpointInitTypes DEF Init
  <1>2. TypeOK
    BY <1>1, EndpointAssumption DEF Init, TypeOK, PCs, Outcomes, EndpointTypeOK
  <1>3. now = Start
    BY DEF Init, EndpointInit
  <1>. QED
    BY <1>2, <1>3, EndpointAssumption
    DEF Init, IInv, CallShape, FetchWindow, CacheWindow, Fetching

\* What is known of the calls under way, whatever cache they read.
Calls ==
    /\ EndpointTypeOK
    /\ pc \in [Goroutines -> PCs]
    /\ tok \in [Goroutines -> Tokens \cup {NoToken}]
    /\ asked \in [Goroutines -> Nat] /\ start \in [Goroutines -> Nat]
    /\ reply \in [Goroutines -> Documents \cup {NoReply}]
    /\ CallShape /\ FetchWindow

\* What Call, CacheMiss and Serve do to the call of g, whatever the cache.
Asks(g, t) ==
    /\ pc[g] = "idle"
    /\ pc' = [pc EXCEPT ![g] = "lookup"]
    /\ tok' = [tok EXCEPT ![g] = t]
    /\ asked' = [asked EXCEPT ![g] = now]
    /\ UNCHANGED <<start, reply>>

Sends(g) ==
    /\ pc[g] = "lookup" /\ HeaderOK(tok[g])
    /\ pc' = [pc EXCEPT ![g] = "fetch"]
    /\ start' = [start EXCEPT ![g] = now]
    /\ UNCHANGED <<tok, asked, reply>>

Receives(g) ==
    /\ pc[g] = "fetch"
    /\ pc' = [pc EXCEPT ![g] = "reply"]
    /\ reply' = [reply EXCEPT ![g] = published]
    /\ UNCHANGED <<tok, asked, start>>

\* Every such step, and the end of a call with any outcome, keeps what is
\* known of the calls: a call that ends leaves nothing behind, and every other
\* goroutine is as it was.
LEMMA CallStep ==
    ASSUME Calls, NEW g \in Goroutines, UNCHANGED endpointVars,
           \/ \E t \in Tokens : Asks(g, t)
           \/ Sends(g) \/ Receives(g)
           \/ \E o : Return(g, o)
    PROVE  Calls'
  <1>0. /\ EndpointTypeOK' /\ now' = now /\ now \in Nat /\ Start \in Nat
        /\ published \in Documents
    BY EndpointAssumption DEF Calls, endpointVars, EndpointTypeOK
  <1>1. CASE \E t \in Tokens : Asks(g, t)
    <2>1. CallShape'
      BY <1>0, <1>1, GoAssumption DEF Asks, Calls, CallShape, Fetching
    <2>2. FetchWindow'
      BY <1>1 DEF Asks, Calls, FetchWindow, Fetching, Vouched, LastIn, LastOut,
                  endpointVars
    <2>. QED
      BY <1>0, <1>1, <2>1, <2>2 DEF Asks, Calls, PCs
  <1>2. CASE Sends(g)
    <2>1. CallShape'
      BY <1>0, <1>2 DEF Sends, Calls, CallShape, Fetching
    <2>2. FetchWindow'
      BY <1>0, <1>2, GoAssumption
      DEF Sends, Calls, CallShape, FetchWindow, Fetching, Vouched, LastIn,
          LastOut, endpointVars
    <2>. QED
      BY <1>0, <1>2, <2>1, <2>2 DEF Sends, Calls, PCs
  <1>3. CASE Receives(g)
    <2>1. CallShape'
      BY <1>0, <1>3 DEF Receives, Calls, CallShape, Fetching
    <2>2. Vouched(Usable(published), start[g])
      <3>1. start[g] \in Int /\ now \in Int /\ start[g] <= now
        BY <1>0, <1>3 DEF Receives, Calls, FetchWindow, Fetching
      <3>. QED
        BY <3>1, PublishedVouched, VouchedEarlier DEF Calls
    <2>3. FetchWindow'
      BY <1>0, <1>3, <2>2
      DEF Receives, Calls, FetchWindow, Fetching, Vouched, LastIn, LastOut,
          endpointVars
    <2>. QED
      BY <1>0, <1>3, <2>1, <2>3 DEF Receives, Calls, PCs
  <1>4. ASSUME NEW o, Return(g, o)
        PROVE  Calls'
    <2>1. CallShape'
      BY <1>0, <1>4 DEF Return, Calls, CallShape, Fetching
    <2>2. FetchWindow'
      BY <1>4 DEF Return, Calls, FetchWindow, Fetching, Vouched, LastIn, LastOut,
                  endpointVars
    <2>. QED
      BY <1>0, <1>4, <2>1, <2>2 DEF Return, Calls, PCs
  <1>. QED
    BY <1>1, <1>2, <1>3, <1>4

\* While time passes, calls and replies keep their windows.
LEMMA TimePasses ==
    ASSUME Calls, EndpointStep, UNCHANGED callVars,
           \A g \in Goroutines : Fetching(g) => now' <= start[g] + FetchTimeout
    PROVE  Calls'
  <1>1. EndpointTypeOK' /\ now <= now' /\ now \in Nat /\ now' \in Nat
    BY HistoryGrows DEF Calls, EndpointTypeOK
  <1>2. CallShape'
    BY <1>1, EndpointAssumption DEF Calls, CallShape, callVars, Fetching
  <1>3. FetchWindow'
    <2>. SUFFICES ASSUME NEW g \in Goroutines
                  PROVE  /\ Fetching(g) => /\ asked[g] <= start[g]
                                           /\ start[g] <= now'
                                           /\ now' <= start[g] + FetchTimeout
                         /\ pc[g] = "reply" =>
                                /\ reply[g] \in Documents
                                /\ \A k \in Kids :
                                      IF k \in Usable(reply[g])
                                      THEN start[g] <= LastIn(k)'
                                      ELSE start[g] <= LastOut(k)'
      BY DEF FetchWindow, callVars, Fetching, Vouched
    <2>1. asked[g] \in Nat /\ start[g] \in Nat
      BY DEF Calls
    <2>2. ASSUME pc[g] = "reply"
          PROVE  \A k \in Kids : IF k \in Usable(reply[g]) THEN start[g] <= LastIn(k)'
                                                           ELSE start[g] <= LastOut(k)'
      BY <2>1, <2>2, VouchedKept DEF Calls, FetchWindow
    <2>. QED
      BY <1>1, <2>1, <2>2 DEF Calls, FetchWindow
  <1>. QED
    BY <1>1, <1>2, <1>3 DEF Calls, callVars

\* The document that is stored: its keys were read off the server at most
\* FetchTimeout ago.
LEMMA ReplyVouched ==
    ASSUME Calls, NEW g \in Goroutines, pc[g] = "reply"
    PROVE  /\ Usable(reply[g]) \subseteq Kids
           /\ Vouched(Usable(reply[g]), now - FetchTimeout)
  <1>1. /\ reply[g] \in Documents /\ Vouched(Usable(reply[g]), start[g])
        /\ start[g] \in Int /\ now \in Nat /\ now <= start[g] + FetchTimeout
    BY DEF Calls, FetchWindow, Fetching, EndpointTypeOK
  <1>2. now - FetchTimeout \in Int /\ now - FetchTimeout <= start[g]
    BY <1>1, GoAssumption
  <1>. QED
    BY <1>1, <1>2, UsableKids, VouchedEarlier DEF Calls

\* Every step of the verifier is one that the endpoint may take.
LEMMA StepsOfEndpoint == [Next]_vars => EndpointStep
  BY DEF Next, Step, Finish, Call, BadHeader, CacheHit, CacheMiss, Serve, Store,
         Discard, FetchFails, Tick, ClockBack, vars, EndpointStep, endpointVars

\* A cache that is left alone stays vouched for, whatever the server does.
LEMMA CacheKept ==
    ASSUME IInv, EndpointStep, UNCHANGED cacheVars
    PROVE  /\ EndpointTypeOK' /\ CacheWindow'
           /\ keys' \subseteq Kids /\ fetchedAt' \in Nat /\ fetchedAt' <= now'
  <1>1. EndpointTypeOK' /\ now <= now' /\ now \in Nat /\ now' \in Nat
    BY HistoryGrows DEF IInv, TypeOK, EndpointTypeOK
  <1>2. fetchedAt - FetchTimeout \in Int
    BY GoAssumption DEF IInv, TypeOK
  <1>3. ASSUME keys # {}
        PROVE  \A k \in Kids : IF k \in keys THEN fetchedAt - FetchTimeout <= LastIn(k)'
                                             ELSE fetchedAt - FetchTimeout <= LastOut(k)'
    BY <1>2, <1>3, VouchedKept DEF IInv, TypeOK, CacheWindow
  <1>4. CacheWindow'
    BY <1>3 DEF CacheWindow, Vouched, cacheVars
  <1>. QED
    BY <1>1, <1>4 DEF IInv, TypeOK, cacheVars

\* The invariant is inductive: every step keeps it.
LEMMA StepIInv == IInv /\ [Next]_vars => IInv'
  <1>. SUFFICES ASSUME IInv, [Next]_vars PROVE IInv'
    OBVIOUS
  <1>0. EndpointStep /\ Calls
    BY StepsOfEndpoint DEF IInv, TypeOK, Calls
  <1>1. ASSUME NEW g \in Goroutines,
               \/ \E t \in Tokens : Call(g, t)
               \/ BadHeader(g) \/ CacheHit(g) \/ CacheMiss(g) \/ Serve(g)
               \/ Discard(g) \/ FetchFails(g)
        PROVE  IInv'
    <2>1. UNCHANGED cacheVars /\ UNCHANGED endpointVars
      BY <1>1 DEF Call, BadHeader, CacheHit, CacheMiss, Serve, Discard,
                  FetchFails, cacheVars
    <2>2. \/ \E t \in Tokens : Asks(g, t)
          \/ Sends(g) \/ Receives(g)
          \/ \E o : Return(g, o)
      BY <1>1 DEF Call, BadHeader, CacheHit, CacheMiss, Serve, Discard,
                  FetchFails, Asks, Sends, Receives
    <2>3. out' \in [Goroutines -> Outcomes]
      BY <1>1 DEF Call, BadHeader, CacheHit, CacheMiss, Serve, Discard,
                  FetchFails, Return, Verdict, IInv, TypeOK, Outcomes
    <2>4. Calls'
      BY <1>0, <2>1, <2>2, CallStep
    <2>. QED
      BY <1>0, <2>1, <2>3, <2>4, CacheKept DEF IInv, TypeOK, Calls
  <1>2. ASSUME NEW g \in Goroutines, Store(g)
        PROVE  IInv'
    <2>1. UNCHANGED endpointVars /\ \E o : Return(g, o)
      BY <1>2 DEF Store
    <2>2. Calls' /\ EndpointTypeOK'
      BY <1>0, <2>1, CallStep DEF Calls
    <2>3. keys' \subseteq Kids /\ fetchedAt' = now /\ fetchedAt' \in Nat
      BY <1>0, <1>2, ReplyVouched DEF Store, Calls, EndpointTypeOK
    <2>4. CacheWindow'
      BY <1>0, <1>2, <2>1, ReplyVouched
      DEF Store, CacheWindow, Vouched, LastIn, LastOut, endpointVars
    <2>5. out' \in [Goroutines -> Outcomes]
      BY <1>2 DEF Store, Return, Verdict, IInv, TypeOK, Outcomes
    <2>. QED
      BY <2>1, <2>2, <2>3, <2>4, <2>5 DEF IInv, TypeOK, Calls, endpointVars
  <1>3. CASE Tick
    <2>1. \A g \in Goroutines : Fetching(g) => now' <= start[g] + FetchTimeout
      BY <1>3, GoAssumption DEF Tick, Advance, IInv, TypeOK, EndpointTypeOK
    <2>2. Calls'
      BY <1>0, <1>3, <2>1, TimePasses DEF Tick
    <2>. QED
      BY <1>0, <1>3, <2>2, CacheKept DEF Tick, IInv, TypeOK, callVars, Calls
  <1>4. CASE ClockBack \/ UNCHANGED vars
    <2>1. UNCHANGED callVars /\ UNCHANGED cacheVars /\ now' = now
      BY <1>4 DEF ClockBack, SetClockBack, vars, endpointVars
    <2>2. Calls'
      BY <1>0, <2>1, TimePasses DEF IInv, FetchWindow
    <2>. QED
      BY <1>0, <2>1, <2>2, CacheKept DEF IInv, TypeOK, callVars, Calls
  <1>. QED
    BY <1>1, <1>2, <1>3, <1>4 DEF Next, Step, Finish

\* However the goroutines of sdk-go/verify.go overlap, the invariant holds.
THEOREM Invariance == Spec => []IInv
  BY InitIInv, StepIInv, PTL DEF Spec

\* The types of the verifier's state: what every other proof rests on.
THEOREM TypeCorrect == Spec => []TypeOK
  <1>1. IInv => TypeOK
    BY DEF IInv
  <1>. QED
    BY <1>1, Invariance, PTL

\* sdk-go/verify.go keyForKID: however many fetches overlap and in whatever
\* order their answers are stored, the cache holds what the server published
\* at most FetchTimeout before fetchedAt.
THEOREM CacheProvenance == Spec => []CacheVouched
  <1>1. IInv => CacheVouched
    <2>. SUFFICES ASSUME IInv, keys # {}, NEW k \in Kids
                  PROVE  IF k \in keys THEN fetchedAt <= LastIn(k) + FetchTimeout
                                       ELSE fetchedAt <= LastOut(k) + FetchTimeout
      BY DEF CacheVouched
    <2>1. LastIn(k) \in Int /\ LastOut(k) \in Int
      BY Sightings DEF IInv, TypeOK
    <2>. QED
      BY <2>1, GoAssumption DEF IInv, TypeOK, CacheWindow, Vouched
  <1>. QED
    BY <1>1, Invariance, PTL
-----------------------------------------------------------------------------
\* sdk-go/verify.go Verify, for every token and every reading w of the clock:
\* after a good header, the code's checks are the documented ones.
THEOREM VerdictIsDocumented ==
    ASSUME NEW t \in Tokens, NEW w \in Int, HeaderOK(t)
    PROVE  t.signed /\ ClaimsOK(t, w) <=> Acceptable(t, w)
  <1>1. TokenShape(t) /\ Skew \in Nat
    BY TokenAssumption
  <1>. QED
    BY <1>1 DEF TokenShape, HeaderOK, ClaimsOK, Number, Acceptable, Missing

\* The same definitions, seen through the instance of VerifierPromise.
LEMMA SameView ==
    /\ \A t, w : Promise!Acceptable(t, w) <=> Acceptable(t, w)
    /\ \A k : Promise!LastIn(k) = LastIn(k) /\ Promise!LastOut(k) = LastOut(k)
    /\ Promise!Wall = Wall
  BY DEF Promise!Acceptable, Acceptable, Promise!Missing, Missing, Promise!NoKid,
         NoKid, Promise!NoIss, NoIss, Promise!LastIn, LastIn, Promise!LastOut,
         LastOut, Promise!Usable, Usable, Promise!Wall, Wall

\* The refinement, at first: nothing has been asked of the promise.
LEMMA InitImplements == Init => Promise!PromiseInit
  BY DEF Init, EndpointInit, Promise!PromiseInit, Promise!EndpointInit,
         Promise!CallsInit

\* A token with a bad header is not acceptable.
LEMMA RefusalAllowed ==
    ASSUME NEW g \in Goroutines, ~HeaderOK(tok[g])
    PROVE  Promise!Allowed(g, "refused")
  BY SameView DEF HeaderOK, Acceptable, Promise!Allowed, Promise!MayRefuse

\* The verdict on a token whose key was sighted recently is one the promise
\* allows.
LEMMA VerdictAllowed ==
    ASSUME EndpointTypeOK, NEW g \in Goroutines, tok[g] \in Tokens,
           HeaderOK(tok[g]), now < LastIn(tok[g].kid) + TTL + FetchTimeout
    PROVE  Promise!Allowed(g, Verdict(tok[g]))
  <1>1. Wall \in Int
    BY EndpointAssumption DEF Wall, EndpointTypeOK
  <1>2. tok[g].signed /\ ClaimsOK(tok[g], Wall) <=> Acceptable(tok[g], Wall)
    BY <1>1, VerdictIsDocumented
  <1>3. tok[g].kid \in Kids
    BY TokenAssumption DEF TokenShape, HeaderOK
  <1>4. now < LastIn(tok[g].kid) + (TTL + FetchTimeout)
    BY <1>3, Sightings, GoAssumption DEF EndpointTypeOK
  <1>5. CASE Acceptable(tok[g], Wall)
    BY <1>2, <1>4, <1>5, SameView
    DEF Verdict, Promise!Allowed, Promise!MayAccept
  <1>6. CASE ~Acceptable(tok[g], Wall)
    BY <1>2, <1>6, SameView DEF Verdict, Promise!Allowed, Promise!MayRefuse
  <1>. QED
    BY <1>5, <1>6

\* So is the verdict out of a cache that is vouched for and fresh.
LEMMA HitAllowed ==
    ASSUME Calls, NEW g \in Goroutines, pc[g] # "idle", HeaderOK(tok[g]),
           NEW ks, NEW t \in Nat, Vouched(ks, t - FetchTimeout),
           tok[g].kid \in ks, now - t < TTL
    PROVE  Promise!Allowed(g, Verdict(tok[g]))
  <1>1. tok[g] \in Tokens /\ tok[g].kid \in Kids
    BY TokenAssumption DEF Calls, CallShape, TokenShape, HeaderOK
  <1>2. t - FetchTimeout <= LastIn(tok[g].kid)
    BY <1>1 DEF Vouched
  <1>3. now < LastIn(tok[g].kid) + TTL + FetchTimeout
    BY <1>1, <1>2, Sightings, GoAssumption DEF Calls, EndpointTypeOK
  <1>. QED
    BY <1>1, <1>3, VerdictAllowed DEF Calls

\* And so is what is said of a token after a fetch.
LEMMA ReplyAllowed ==
    ASSUME Calls, NEW g \in Goroutines, pc[g] = "reply"
    PROVE  Promise!Allowed(g, IF tok[g].kid \in Usable(reply[g])
                              THEN Verdict(tok[g]) ELSE "absent")
  <1>1. /\ tok[g] \in Tokens /\ HeaderOK(tok[g])
        /\ Vouched(Usable(reply[g]), start[g])
        /\ start[g] \in Int /\ asked[g] \in Int /\ now \in Int
        /\ asked[g] <= start[g] /\ now <= start[g] + FetchTimeout
    BY DEF Calls, CallShape, FetchWindow, Fetching, EndpointTypeOK
  <1>2. tok[g].kid \in Kids /\ tok[g].kid # NoKid
    BY <1>1, TokenAssumption DEF TokenShape, HeaderOK
  <1>3. LastIn(tok[g].kid) \in Int /\ LastOut(tok[g].kid) \in Int
    BY <1>2, Sightings DEF Calls
  <1>4. CASE tok[g].kid \in Usable(reply[g])
    <2>1. now < LastIn(tok[g].kid) + TTL + FetchTimeout
      BY <1>1, <1>2, <1>3, <1>4, GoAssumption DEF Vouched
    <2>. QED
      BY <1>1, <1>4, <2>1, VerdictAllowed DEF Calls
  <1>5. CASE tok[g].kid \notin Usable(reply[g])
    <2>1. asked[g] <= LastOut(tok[g].kid)
      BY <1>1, <1>2, <1>3, <1>5 DEF Vouched
    <2>2. Promise!MayBeAbsent(g)
      BY <1>3, <2>1, SameView DEF Promise!MayBeAbsent
    <2>3. tok[g].kid # Promise!NoKid
      BY <1>2 DEF Promise!NoKid, NoKid
    <2>. QED
      BY <1>5, <2>2, <2>3 DEF Promise!Allowed
  <1>. QED
    BY <1>4, <1>5

\* A call that ends with an allowed outcome is a step of the promise.
LEMMA ReturnImplements ==
    ASSUME IInv, NEW g \in Goroutines, NEW o \in Outcomes, pc[g] # "idle",
           Return(g, o), Promise!Allowed(g, o), UNCHANGED endpointVars
    PROVE  Promise!PromiseNext
  <1>1. tok[g] # NoToken
    BY DEF IInv, CallShape
  <1>2. Promise!Answer(g, o)
    BY <1>1 DEF Return, Promise!Answer
  <1>3. o \in Promise!Outcomes /\ UNCHANGED Promise!endpointVars
    BY DEF Outcomes, Promise!Outcomes, endpointVars, Promise!endpointVars
  <1>. QED
    BY <1>2, <1>3 DEF Promise!PromiseNext

\* The refinement of a step: every step is one that the promise allows, or
\* leaves all that the promise speaks of as it is.
LEMMA StepImplements ==
    IInv /\ [Next]_vars => [Promise!PromiseNext]_(Promise!promiseVars)
  <1>. SUFFICES ASSUME IInv, [Next]_vars
                PROVE  Promise!PromiseNext \/ UNCHANGED Promise!promiseVars
    OBVIOUS
  <1>. USE DEF Promise!promiseVars, Promise!endpointVars, Promise!callVars
  <1>0. Calls
    BY DEF IInv, TypeOK, Calls
  <1>1. ASSUME NEW g \in Goroutines, NEW t \in Tokens, Call(g, t)
        PROVE  Promise!PromiseNext
    <2>1. Promise!Ask(g, t)
      BY <1>1 DEF Call, Promise!Ask, IInv, CallShape
    <2>. QED
      BY <1>1, <2>1 DEF Call, endpointVars, Promise!PromiseNext
  <1>2. ASSUME NEW g \in Goroutines, BadHeader(g)
        PROVE  Promise!PromiseNext
    BY <1>2, RefusalAllowed, ReturnImplements DEF BadHeader, Outcomes
  <1>3. ASSUME NEW g \in Goroutines, CacheHit(g)
        PROVE  Promise!PromiseNext
    <2>1. Vouched(keys, fetchedAt - FetchTimeout) /\ fetchedAt \in Nat
      BY <1>3 DEF CacheHit, Hit, IInv, CacheWindow, TypeOK
    <2>2. Promise!Allowed(g, Verdict(tok[g]))
      BY <1>0, <1>3, <2>1, HitAllowed DEF CacheHit, Hit
    <2>. QED
      BY <1>3, <2>2, ReturnImplements, VerdictIsOutcome DEF CacheHit, Outcomes
  <1>4. ASSUME NEW g \in Goroutines, Store(g)
        PROVE  Promise!PromiseNext
    <2>1. PICK o : o = IF tok[g].kid \in Usable(reply[g]) THEN Verdict(tok[g])
                                                          ELSE "absent"
      OBVIOUS
    <2>2. Promise!Allowed(g, o) /\ o \in Outcomes
      BY <1>0, <1>4, <2>1, ReplyAllowed, VerdictIsOutcome DEF Store, Outcomes
    <2>. QED
      BY <1>4, <2>1, <2>2, ReturnImplements DEF Store
  <1>5. ASSUME NEW g \in Goroutines, Discard(g) \/ FetchFails(g)
        PROVE  Promise!PromiseNext
    <2>1. Promise!Allowed(g, "failed")
      BY DEF Promise!Allowed
    <2>. QED
      BY <1>5, <2>1, ReturnImplements DEF Discard, FetchFails, Fetching, Outcomes
  <1>6. ASSUME NEW g \in Goroutines, CacheMiss(g) \/ Serve(g)
        PROVE  UNCHANGED Promise!promiseVars
    BY <1>6 DEF CacheMiss, Serve, endpointVars
  <1>7. CASE Tick
    <2>1. PICK doc \in Documents : Advance(doc)
      BY <1>7 DEF Tick
    <2>2. Promise!Advance(doc)
      BY <2>1 DEF Advance, Promise!Advance, Usable, Promise!Usable
    <2>. QED
      BY <1>7, <2>2 DEF Tick, callVars, Promise!PromiseNext
  <1>8. CASE ClockBack
    BY <1>8 DEF ClockBack, SetClockBack, callVars, Promise!SetClockBack,
                Promise!PromiseNext
  <1>9. CASE UNCHANGED vars
    BY <1>9 DEF vars, endpointVars, callVars
  <1>. QED
    BY <1>1, <1>2, <1>3, <1>4, <1>5, <1>6, <1>7, <1>8, <1>9
    DEF Next, Step, Finish

\* The Go verifier keeps the promise: claims only for an acceptable token
\* whose key the server published less than TTL + FetchTimeout before; no
\* good token refused; a key called absent only if it was absent during the
\* call, so that a rotation is transparent to its callers.
THEOREM Implements == Spec => ImplementsPromise
  BY InitImplements, StepImplements, Invariance, PTL
  DEF Spec, ImplementsPromise, Promise!PromiseSpec
-----------------------------------------------------------------------------
(***************************************************************************)
(* LazyClient: the goroutines of one client race to build its Verifier and *)
(* each call uses one of those that have been built.  The calls are those  *)
(* of GoVerifier; what is new is the field c.verifier and a cache for each *)
(* Verifier, whose provenance has to be known of all of them at once.      *)
(***************************************************************************)
CONSTANT Nobody
VARIABLES stores, seen, whole, at, uses, builds, cache

Lazy == INSTANCE LazyClient

\* A goroutine that has stored a Verifier has seen a store, and so does not
\* find the field nil again; it is in VerifyJWT or in Verify, not in both.
SlotShape ==
    \A g \in Goroutines :
        /\ builds[g] <= 1
        /\ builds[g] = 1 => seen[g] > 0
        /\ at[g] = "build" => builds[g] = 0
        /\ at[g] = "load" => seen[g] > 0
        /\ at[g] # "out" => pc[g] = "idle"

\* CacheWindow, of every Verifier.
CachesWindow ==
    \A v \in Goroutines :
        cache[v].keys # {} => Vouched(cache[v].keys, cache[v].fetchedAt - FetchTimeout)

LazyInv == Lazy!TypeOK /\ Calls /\ SlotShape /\ CachesWindow

\* No cache is written; that of v is filled with the reply to g.
CachesKept ==
    \A v \in Goroutines : /\ cache'[v].keys = cache[v].keys
                          /\ cache'[v].fetchedAt = cache[v].fetchedAt

Fills(v, g) ==
    /\ pc[g] = "reply"
    /\ cache'[v].keys = Usable(reply[g]) /\ cache'[v].fetchedAt = now
    /\ \A u \in Goroutines \ {v} : cache'[u] = cache[u]

\* The definitions of the endpoint, seen through LazyClient.
LEMMA SameInLazy ==
    /\ \A doc : Lazy!Usable(doc) = Usable(doc)
    /\ Lazy!EndpointTypeOK <=> EndpointTypeOK
    /\ Lazy!EndpointInit <=> EndpointInit
    /\ Lazy!endpointVars = endpointVars
  BY DEF Lazy!Usable, Usable, Lazy!EndpointTypeOK, EndpointTypeOK, Lazy!EndpointInit,
         EndpointInit, Lazy!endpointVars, endpointVars

\* The definitions of GoVerifier that do not read the cache, seen through its
\* instance for Verifier v.
LEMMA SameInVerifier ==
    ASSUME NEW v
    PROVE  /\ \A doc : Lazy!V(v)!Usable(doc) = Usable(doc)
           /\ \A doc : Lazy!V(v)!Decodes(doc) <=> Decodes(doc)
           /\ \A t : Lazy!V(v)!HeaderOK(t) <=> HeaderOK(t)
           /\ \A t : Lazy!V(v)!Verdict(t) = Verdict(t)
           /\ Lazy!V(v)!endpointVars = endpointVars
           /\ Lazy!V(v)!callVars = callVars
  BY DEF Lazy!V!Usable, Usable, Lazy!V!Decodes, Decodes, Lazy!V!HeaderOK, HeaderOK,
         Lazy!V!NoKid, NoKid, Lazy!V!Verdict, Verdict, Lazy!V!ClaimsOK, ClaimsOK,
         Lazy!V!Number, Number, Lazy!V!Missing, Missing, Lazy!V!NoIss, NoIss,
         Lazy!V!Wall, Wall, Lazy!V!endpointVars, endpointVars, Lazy!V!callVars,
         callVars

\* A call ends in the same way on every Verifier.
LEMMA SameReturn ==
    ASSUME NEW v, NEW g, NEW o
    PROVE  Lazy!V(v)!Return(g, o) <=> Return(g, o)
  BY DEF Lazy!V!Return, Return

\* What a call on the way keeps of the slot: it has a Verifier.
LEMMA UsesVerifier ==
    ASSUME LazyInv, NEW g \in Goroutines, pc[g] # "idle"
    PROVE  /\ uses[g] \in Goroutines
           /\ cache[uses[g]].keys \subseteq Kids
           /\ cache[uses[g]].fetchedAt \in Nat
  <1>1. uses[g] \in Goroutines
    BY DEF LazyInv, Lazy!TypeOK
  <1>2. cache[uses[g]] \in [keys : SUBSET Kids, fetchedAt : 0..now]
    BY <1>1 DEF LazyInv, Lazy!TypeOK
  <1>3. now \in Nat
    BY DEF LazyInv, Calls, EndpointTypeOK
  <1>. QED
    BY <1>1, <1>2, <1>3

\* A step of Verify, on whichever Verifier: a fetch is sent, or the call ends
\* as the promise allows, and only then may that Verifier's cache, and no
\* other, be filled.
LEMMA VerifyStep ==
    ASSUME LazyInv, NEW g \in Goroutines, Lazy!Verify(g)
    PROVE  /\ pc[g] # "idle"
           /\ UNCHANGED endpointVars /\ UNCHANGED <<stores, seen, at, builds>>
           /\ \/ CachesKept /\ Sends(g) /\ UNCHANGED out
              \/ \E o \in Outcomes : /\ Return(g, o) /\ Promise!Allowed(g, o)
                                     /\ CachesKept \/ Fills(uses[g], g)
  <1>0. PICK v \in {uses[g]} :
            \E c : cache' = [cache EXCEPT ![v] = c] /\ Lazy!V(v)!Step(g)
    BY DEF Lazy!Verify
  <1>1. /\ pc[g] # "idle" /\ UNCHANGED <<stores, seen, at, builds>>
        /\ v = uses[g] /\ v \in Goroutines /\ cache[v].fetchedAt \in Nat
        /\ \A u \in Goroutines \ {v} : cache'[u] = cache[u]
    BY <1>0, UsesVerifier DEF Lazy!Verify, LazyInv, Lazy!TypeOK
  <1>2. /\ Calls /\ Lazy!V(v)!endpointVars = endpointVars
        /\ \A t : Lazy!V(v)!HeaderOK(t) <=> HeaderOK(t)
        /\ \A t : Lazy!V(v)!Verdict(t) = Verdict(t)
    BY SameInVerifier DEF LazyInv
  <1>3. ASSUME UNCHANGED Lazy!V(v)!cacheVars
        PROVE  CachesKept
    BY <1>1, <1>3 DEF Lazy!V!cacheVars, CachesKept
  <1>4. CASE Lazy!V(v)!BadHeader(g)
    <2>1. ~HeaderOK(tok[g]) /\ Return(g, "refused")
      BY <1>2, <1>4, SameReturn DEF Lazy!V!BadHeader
    <2>2. UNCHANGED endpointVars /\ CachesKept
      BY <1>2, <1>3, <1>4 DEF Lazy!V!BadHeader, Lazy!V!endpointVars, endpointVars
    <2>. QED
      BY <1>1, <2>1, <2>2, RefusalAllowed DEF Outcomes
  <1>5. CASE Lazy!V(v)!CacheHit(g)
    <2>1. /\ HeaderOK(tok[g]) /\ Return(g, Verdict(tok[g]))
          /\ tok[g].kid \in cache[v].keys /\ now - cache[v].fetchedAt < TTL
      BY <1>2, <1>5, SameReturn DEF Lazy!V!CacheHit, Lazy!V!Hit
    <2>2. UNCHANGED endpointVars /\ CachesKept
      BY <1>2, <1>3, <1>5 DEF Lazy!V!CacheHit, Lazy!V!endpointVars, endpointVars
    <2>3. Vouched(cache[v].keys, cache[v].fetchedAt - FetchTimeout)
      BY <1>1, <2>1 DEF LazyInv, CachesWindow
    <2>4. Promise!Allowed(g, Verdict(tok[g]))
      BY <1>1, <1>2, <2>1, <2>3, HitAllowed
    <2>. QED
      BY <1>1, <2>1, <2>2, <2>4, VerdictIsOutcome DEF Outcomes
  <1>6. CASE Lazy!V(v)!CacheMiss(g)
    <2>1. UNCHANGED endpointVars /\ CachesKept
      BY <1>2, <1>3, <1>6 DEF Lazy!V!CacheMiss, Lazy!V!endpointVars, endpointVars
    <2>. QED
      BY <1>1, <1>2, <1>6, <2>1 DEF Lazy!V!CacheMiss, Sends
  <1>7. CASE Lazy!V(v)!Store(g)
    <2>1. pc[g] = "reply" /\ UNCHANGED endpointVars
      BY <1>2, <1>7 DEF Lazy!V!Store, Lazy!V!endpointVars, endpointVars
    <2>2. cache'[v].keys = Usable(reply[g]) /\ cache'[v].fetchedAt = now
      BY <1>7, SameInVerifier DEF Lazy!V!Store
    <2>3. PICK o : o = IF tok[g].kid \in Usable(reply[g]) THEN Verdict(tok[g])
                                                          ELSE "absent"
      OBVIOUS
    <2>4. Return(g, o)
      BY <1>2, <1>7, <2>2, <2>3, SameReturn DEF Lazy!V!Store
    <2>5. Promise!Allowed(g, o) /\ o \in Outcomes
      BY <1>2, <2>1, <2>3, ReplyAllowed, VerdictIsOutcome DEF Outcomes
    <2>. QED
      BY <1>1, <2>1, <2>2, <2>4, <2>5 DEF Fills
  <1>8. CASE Lazy!V(v)!Discard(g) \/ Lazy!V(v)!FetchFails(g)
    <2>1. Return(g, "failed")
      BY <1>8, SameReturn DEF Lazy!V!Discard, Lazy!V!FetchFails
    <2>2. UNCHANGED endpointVars /\ CachesKept
      BY <1>2, <1>3, <1>8
      DEF Lazy!V!Discard, Lazy!V!FetchFails, Lazy!V!endpointVars, endpointVars
    <2>3. Promise!Allowed(g, "failed")
      BY DEF Promise!Allowed
    <2>. QED
      BY <1>1, <2>1, <2>2, <2>3 DEF Outcomes
  <1>. QED
    BY <1>0, <1>4, <1>5, <1>6, <1>7, <1>8 DEF Lazy!V!Step, Lazy!V!Finish

\* A call is entered on a Verifier that has been stored.
LEMMA EnterStep ==
    ASSUME NEW g \in Goroutines, NEW t \in Tokens, Lazy!Enter(g, t)
    PROVE  /\ Asks(g, t) /\ out' = [out EXCEPT ![g] = "none"]
           /\ UNCHANGED endpointVars
           /\ at' = [at EXCEPT ![g] = "out"]
           /\ UNCHANGED <<stores, whole, builds, cache>>
           /\ \E j \in Lazy!Readable(g) : /\ seen' = [seen EXCEPT ![g] = j]
                                          /\ uses' = [uses EXCEPT ![g] = stores[j]]
  <1>1. PICK j \in Lazy!Readable(g) :
            /\ seen' = [seen EXCEPT ![g] = j]
            /\ uses' = [uses EXCEPT ![g] = stores[j]]
            /\ Lazy!V(stores[j])!Call(g, t)
    BY DEF Lazy!Enter
  <1>2. UNCHANGED endpointVars
    BY <1>1, SameInVerifier DEF Lazy!V!Call, Lazy!V!endpointVars, endpointVars
  <1>. QED
    BY <1>1, <1>2 DEF Lazy!Enter, Lazy!V!Call, Asks

\* An answer is on its way to a call, whichever Verifier it uses.
LEMMA ServeStep ==
    ASSUME NEW g \in Goroutines, Lazy!Serve(g)
    PROVE  /\ Receives(g) /\ UNCHANGED out /\ UNCHANGED endpointVars
           /\ UNCHANGED <<stores, seen, whole, at, builds, uses, cache>>
  <1>1. Lazy!V(uses[g])!Serve(g)
    BY DEF Lazy!Serve
  <1>2. UNCHANGED endpointVars
    BY <1>1, SameInVerifier DEF Lazy!V!Serve, Lazy!V!endpointVars, endpointVars
  <1>. QED
    BY <1>1, <1>2 DEF Lazy!Serve, Lazy!slotVars, Lazy!V!Serve, Receives

\* A call that panics ends, and leaves every cache as it is.
LEMMA PanicStep ==
    ASSUME NEW g \in Goroutines, Lazy!Panics(g)
    PROVE  /\ pc[g] = "lookup" /\ Return(g, "panicked") /\ UNCHANGED endpointVars
           /\ uses' = [uses EXCEPT ![g] = Nobody]
           /\ UNCHANGED <<stores, seen, whole, at, builds, cache>>
  BY SameInLazy, SameReturn
  DEF Lazy!Panics, Lazy!slotVars, Lazy!endpointVars, endpointVars

\* Time passes for all Verifiers at once.
LEMMA TickStep ==
    ASSUME LazyInv, Lazy!Tick
    PROVE  /\ \E doc \in Documents : Advance(doc)
           /\ \A g \in Goroutines : Fetching(g) => now' <= start[g] + FetchTimeout
           /\ UNCHANGED callVars
           /\ UNCHANGED <<stores, seen, whole, at, builds, uses, cache>>
  <1>1. PICK v \in Goroutines : Lazy!V(v)!Tick
    BY DEF Lazy!Tick
  <1>2. PICK doc \in Documents : Lazy!V(v)!Advance(doc)
    BY <1>1 DEF Lazy!V!Tick
  <1>3. Advance(doc)
    BY <1>2 DEF Lazy!V!Advance, Advance, Lazy!V!Usable, Usable
  <1>4. \A g \in Goroutines : Fetching(g) => now < start[g] + FetchTimeout
    BY <1>1 DEF Lazy!V!Tick, Lazy!V!Fetching, Fetching
  <1>5. now \in Nat /\ now' = now + 1 /\ \A g \in Goroutines : start[g] \in Nat
    BY <1>3 DEF Advance, LazyInv, Calls, EndpointTypeOK
  <1>6. UNCHANGED callVars
    BY <1>1, SameInVerifier DEF Lazy!V!Tick, Lazy!V!callVars, callVars
  <1>. QED
    BY <1>3, <1>4, <1>5, <1>6, GoAssumption DEF Lazy!Tick, Lazy!slotVars

\* The invariant holds at first.
LEMMA LazyInit == Lazy!Init => LazyInv
  <1>. SUFFICES ASSUME Lazy!Init PROVE LazyInv
    OBVIOUS
  <1>1. EndpointTypeOK /\ now = Start /\ Start \in Nat
    BY SameInLazy, EndpointInitTypes, EndpointAssumption
    DEF Lazy!Init, EndpointInit
  <1>2. Lazy!TypeOK
    BY <1>1, SameInLazy DEF Lazy!Init, Lazy!TypeOK, Lazy!Cold
  <1>3. Calls
    BY <1>1 DEF Lazy!Init, Calls, PCs, CallShape, FetchWindow, Fetching
  <1>4. SlotShape /\ CachesWindow
    BY DEF Lazy!Init, Lazy!Cold, SlotShape, CachesWindow
  <1>. QED
    BY <1>2, <1>3, <1>4 DEF LazyInv

\* A cache that is left alone stays vouched for.
LEMMA OneCacheKept ==
    ASSUME LazyInv, EndpointStep, NEW v \in Goroutines,
           cache'[v].keys = cache[v].keys, cache'[v].fetchedAt = cache[v].fetchedAt,
           cache'[v].keys # {}
    PROVE  \A k \in Kids : IF k \in cache'[v].keys
                           THEN cache'[v].fetchedAt - FetchTimeout <= LastIn(k)'
                           ELSE cache'[v].fetchedAt - FetchTimeout <= LastOut(k)'
  <1>1. cache[v] \in [keys : SUBSET Kids, fetchedAt : 0..now] /\ now \in Nat
    BY DEF LazyInv, Lazy!TypeOK, Calls, EndpointTypeOK
  <1>2. cache[v].fetchedAt - FetchTimeout \in Int
    BY <1>1, GoAssumption
  <1>3. Vouched(cache[v].keys, cache[v].fetchedAt - FetchTimeout)
    BY DEF LazyInv, CachesWindow
  <1>. QED
    BY <1>2, <1>3, VouchedKept DEF LazyInv, Calls

\* So do all of them in a step that writes none,
LEMMA CachesStay ==
    ASSUME LazyInv, EndpointStep, CachesKept
    PROVE  CachesWindow'
  BY OneCacheKept DEF CachesKept, CachesWindow, Vouched

\* when one is filled with a reply,
LEMMA CachesFilled ==
    ASSUME LazyInv, UNCHANGED endpointVars, NEW v \in Goroutines,
           NEW g \in Goroutines, Fills(v, g)
    PROVE  CachesWindow'
  <1>1. ASSUME NEW u \in Goroutines, u # v, cache'[u].keys # {}
        PROVE  \A k \in Kids : IF k \in cache'[u].keys
                               THEN cache'[u].fetchedAt - FetchTimeout <= LastIn(k)'
                               ELSE cache'[u].fetchedAt - FetchTimeout <= LastOut(k)'
    BY <1>1, OneCacheKept DEF Fills, EndpointStep
  <1>2. \A k \in Kids : IF k \in cache'[v].keys
                        THEN cache'[v].fetchedAt - FetchTimeout <= LastIn(k)'
                        ELSE cache'[v].fetchedAt - FetchTimeout <= LastOut(k)'
    BY ReplyVouched
    DEF Fills, LazyInv, Vouched, LastIn, LastOut, endpointVars
  <1>. QED
    BY <1>1, <1>2 DEF CachesWindow, Vouched

\* and when a new Verifier comes with an empty one.
LEMMA CachesCooled ==
    ASSUME LazyInv, UNCHANGED endpointVars, NEW g \in Goroutines,
           cache' = [cache EXCEPT ![g] = Lazy!Cold]
    PROVE  CachesWindow'
  <1>1. /\ cache'[g].keys = {}
        /\ \A u \in Goroutines \ {g} : cache'[u] = cache[u]
    BY DEF LazyInv, Lazy!TypeOK, Lazy!Cold
  <1>2. ASSUME NEW u \in Goroutines, u # g, cache'[u].keys # {}
        PROVE  \A k \in Kids : IF k \in cache'[u].keys
                               THEN cache'[u].fetchedAt - FetchTimeout <= LastIn(k)'
                               ELSE cache'[u].fetchedAt - FetchTimeout <= LastOut(k)'
    BY <1>1, <1>2, OneCacheKept DEF EndpointStep
  <1>. QED
    BY <1>1, <1>2 DEF CachesWindow, Vouched

\* Every step is one that the endpoint may take.
LEMMA LazyEndpoint ==
    ASSUME LazyInv, [Lazy!Next]_(Lazy!vars)
    PROVE  EndpointStep
  <1>1. ASSUME NEW g \in Goroutines,
               Lazy!FindsNil(g) \/ Lazy!Build(g)
        PROVE  EndpointStep
    BY <1>1 DEF Lazy!FindsNil, Lazy!Build, Lazy!StoreVerifier, EndpointStep,
                Lazy!endpointVars, endpointVars
  <1>2. ASSUME NEW g \in Goroutines,
               \/ \E t \in Tokens : Lazy!Enter(g, t)
               \/ Lazy!Verify(g) \/ Lazy!Panics(g) \/ Lazy!Serve(g)
        PROVE  EndpointStep
    BY <1>2, EnterStep, VerifyStep, PanicStep, ServeStep DEF EndpointStep
  <1>3. CASE Lazy!Tick
    BY <1>3, TickStep DEF EndpointStep
  <1>4. CASE Lazy!StoresArrive \/ UNCHANGED Lazy!vars
    BY <1>4 DEF Lazy!StoresArrive, Lazy!vars, EndpointStep, Lazy!endpointVars,
                endpointVars
  <1>. QED
    BY <1>1, <1>2, <1>3, <1>4 DEF Lazy!Next

\* The calls, whichever Verifiers they use.
LEMMA LazyCalls ==
    ASSUME LazyInv, [Lazy!Next]_(Lazy!vars)
    PROVE  Calls'
  <1>0. Calls /\ EndpointStep
    BY LazyEndpoint DEF LazyInv
  <1>1. ASSUME NEW g \in Goroutines,
               \/ \E t \in Tokens : Lazy!Enter(g, t)
               \/ Lazy!Verify(g) \/ Lazy!Panics(g) \/ Lazy!Serve(g)
        PROVE  Calls'
    BY <1>0, <1>1, CallStep, EnterStep, VerifyStep, PanicStep, ServeStep
  <1>2. CASE Lazy!Tick
    BY <1>0, <1>2, TickStep, TimePasses
  <1>3. ASSUME \/ \E g \in Goroutines : Lazy!FindsNil(g) \/ Lazy!Build(g)
               \/ Lazy!StoresArrive \/ UNCHANGED Lazy!vars
        PROVE  Calls'
    <2>1. UNCHANGED callVars /\ now' = now
      BY <1>3 DEF Lazy!FindsNil, Lazy!Build, Lazy!StoreVerifier, Lazy!StoresArrive,
                  Lazy!vars, Lazy!endpointVars, Lazy!callVars, callVars
    <2>. QED
      BY <1>0, <2>1, TimePasses DEF Calls, FetchWindow
  <1>. QED
    BY <1>1, <1>2, <1>3 DEF Lazy!Next

\* The caches: in each step one at most is written.
LEMMA LazyCaches ==
    ASSUME LazyInv, [Lazy!Next]_(Lazy!vars)
    PROVE  CachesWindow'
  <1>0. EndpointStep
    BY LazyEndpoint
  <1>1. ASSUME NEW g \in Goroutines, Lazy!Build(g)
        PROVE  CachesWindow'
    <2>1. /\ UNCHANGED endpointVars
          /\ cache' = [cache EXCEPT ![g] = Lazy!Cold]
      BY <1>1 DEF Lazy!Build, Lazy!StoreVerifier, Lazy!endpointVars, endpointVars
    <2>. QED
      BY <2>1, CachesCooled
  <1>2. ASSUME NEW g \in Goroutines, Lazy!Verify(g)
        PROVE  CachesWindow'
    BY <1>0, <1>2, VerifyStep, UsesVerifier, CachesStay, CachesFilled
  <1>3. ASSUME NEW g \in Goroutines,
               \/ Lazy!FindsNil(g)
               \/ \E t \in Tokens : Lazy!Enter(g, t)
               \/ Lazy!Panics(g) \/ Lazy!Serve(g)
        PROVE  cache' = cache
    BY <1>3, EnterStep, PanicStep, ServeStep DEF Lazy!FindsNil
  <1>4. ASSUME Lazy!Tick \/ Lazy!StoresArrive \/ UNCHANGED Lazy!vars
        PROVE  cache' = cache
    BY <1>4, TickStep DEF Lazy!StoresArrive, Lazy!vars
  <1>5. cache' = cache => CachesWindow'
    BY <1>0, CachesStay DEF CachesKept
  <1>. QED
    BY <1>1, <1>2, <1>3, <1>4, <1>5 DEF Lazy!Next

\* The field: a goroutine that has built a Verifier does not find it nil.
LEMMA LazySlot ==
    ASSUME LazyInv, [Lazy!Next]_(Lazy!vars)
    PROVE  SlotShape'
  <1>0. /\ at \in [Goroutines -> {"out", "build", "load"}]
        /\ seen \in [Goroutines -> 0..Len(stores)] /\ Len(stores) \in Nat
        /\ builds \in [Goroutines -> 0..2] /\ pc \in [Goroutines -> PCs]
        /\ stores \in Seq(Goroutines)
    BY DEF LazyInv, Lazy!TypeOK, Calls
  <1>1. ASSUME NEW g \in Goroutines, Lazy!FindsNil(g)
        PROVE  SlotShape'
    BY <1>0, <1>1 DEF Lazy!FindsNil, Lazy!callVars, LazyInv, SlotShape
  <1>2. ASSUME NEW g \in Goroutines, Lazy!Build(g)
        PROVE  SlotShape'
    BY <1>0, <1>2
    DEF Lazy!Build, Lazy!StoreVerifier, Lazy!callVars, LazyInv, SlotShape
  <1>3. ASSUME NEW g \in Goroutines, NEW t \in Tokens, Lazy!Enter(g, t)
        PROVE  SlotShape'
    <2>1. /\ at' = [at EXCEPT ![g] = "out"] /\ UNCHANGED builds
          /\ pc' = [pc EXCEPT ![g] = "lookup"]
          /\ \E j \in 1..Len(stores) : seen' = [seen EXCEPT ![g] = j]
      BY <1>0, <1>3, EnterStep DEF Asks, Lazy!Readable
    <2>. QED
      BY <1>0, <2>1 DEF LazyInv, SlotShape
  <1>4. ASSUME NEW g \in Goroutines,
               Lazy!Verify(g) \/ Lazy!Panics(g) \/ Lazy!Serve(g)
        PROVE  SlotShape'
    <2>1. UNCHANGED <<seen, at, builds>> /\ pc[g] # "idle"
      BY <1>4, VerifyStep, PanicStep, ServeStep DEF Receives
    <2>2. \A h \in Goroutines \ {g} : pc'[h] = pc[h]
      BY <1>0, <1>4, VerifyStep, PanicStep, ServeStep DEF Sends, Receives, Return
    <2>. QED
      BY <2>1, <2>2 DEF LazyInv, SlotShape
  <1>5. CASE Lazy!StoresArrive
    BY <1>0, <1>5 DEF Lazy!StoresArrive, Lazy!callVars, LazyInv, SlotShape
  <1>6. CASE Lazy!Tick \/ UNCHANGED Lazy!vars
    <2>1. UNCHANGED <<seen, at, builds, pc>>
      BY <1>6, TickStep DEF Lazy!vars, Lazy!slotVars, Lazy!callVars, callVars
    <2>. QED
      BY <2>1 DEF LazyInv, SlotShape
  <1>. QED
    BY <1>1, <1>2, <1>3, <1>4, <1>5, <1>6 DEF Lazy!Next

\* The types.  A call that is entered uses a Verifier that has been stored,
\* which is a goroutine and so not Nobody.
LEMMA LazyTypes ==
    ASSUME LazyInv, [Lazy!Next]_(Lazy!vars), Nobody \notin Goroutines
    PROVE  Lazy!TypeOK'
  <1>. DEFINE Outs == Outcomes \cup {"panicked"}
              CacheType == [keys : SUBSET Kids, fetchedAt : 0..now]
  <1>0. /\ Lazy!TypeOK /\ stores \in Seq(Goroutines) /\ Len(stores) \in Nat
        /\ uses \in [Goroutines -> Goroutines \cup {Nobody}]
        /\ pc \in [Goroutines -> PCs] /\ out \in [Goroutines -> Outs]
        /\ cache \in [Goroutines -> CacheType] /\ now \in Nat
    BY DEF LazyInv, Lazy!TypeOK, Calls, Outcomes, EndpointTypeOK
  <1>1. Calls'
    BY LazyCalls
  <1>2. ASSUME stores' \in Seq(Goroutines),
               seen' \in [Goroutines -> 0..Len(stores')],
               whole' \subseteq Goroutines,
               at' \in [Goroutines -> {"out", "build", "load"}],
               uses' \in [Goroutines -> Goroutines \cup {Nobody}],
               \A h \in Goroutines : uses'[h] = Nobody <=> pc'[h] = "idle",
               builds' \in [Goroutines -> 0..2],
               cache' \in [Goroutines -> [keys : SUBSET Kids, fetchedAt : 0..now']],
               out' \in [Goroutines -> Outs]
        PROVE  Lazy!TypeOK'
    <2>1. Lazy!EndpointTypeOK'
      BY <1>1 DEF Calls, Lazy!EndpointTypeOK, EndpointTypeOK, Lazy!Usable, Usable
    <2>. QED
      BY <1>1, <1>2, <2>1 DEF Lazy!TypeOK, Calls, PCs, Outcomes
  <1>3. ASSUME NEW g \in Goroutines, Lazy!FindsNil(g)
        PROVE  Lazy!TypeOK'
    <2>1. UNCHANGED <<stores, seen, whole, builds, uses, cache, pc, out, now>>
      BY <1>3 DEF Lazy!FindsNil, Lazy!callVars, Lazy!endpointVars
    <2>2. at' \in [Goroutines -> {"out", "build", "load"}]
      BY <1>0, <1>3 DEF Lazy!FindsNil, Lazy!TypeOK
    <2>. QED
      BY <1>0, <1>2, <2>1, <2>2 DEF Lazy!TypeOK
  <1>4. ASSUME NEW g \in Goroutines, Lazy!Build(g)
        PROVE  Lazy!TypeOK'
    <2>1. UNCHANGED <<whole, uses, pc, out, now>>
      BY <1>4 DEF Lazy!Build, Lazy!StoreVerifier, Lazy!callVars, Lazy!endpointVars
    <2>2. stores' = Append(stores, g) /\ seen' = [seen EXCEPT ![g] = Len(stores')]
      BY <1>4 DEF Lazy!Build, Lazy!StoreVerifier
    <2>3. stores' \in Seq(Goroutines) /\ Len(stores') = Len(stores) + 1
      BY <1>0, <2>2
    <2>4. seen' \in [Goroutines -> 0..Len(stores')]
      BY <1>0, <2>2, <2>3 DEF Lazy!TypeOK
    <2>5. /\ at' \in [Goroutines -> {"out", "build", "load"}]
          /\ builds' \in [Goroutines -> 0..2]
      BY <1>0, <1>4 DEF Lazy!Build, Lazy!StoreVerifier, Lazy!TypeOK
    <2>6. cache' \in [Goroutines -> CacheType]
      BY <1>0, <1>4 DEF Lazy!Build, Lazy!StoreVerifier, Lazy!Cold
    <2>. QED
      BY <1>0, <1>2, <2>1, <2>3, <2>4, <2>5, <2>6 DEF Lazy!TypeOK
  <1>5. ASSUME NEW g \in Goroutines, NEW t \in Tokens, Lazy!Enter(g, t)
        PROVE  Lazy!TypeOK'
    <2>1. /\ UNCHANGED <<stores, whole, builds, cache, now>>
          /\ at' = [at EXCEPT ![g] = "out"]
          /\ pc' = [pc EXCEPT ![g] = "lookup"]
          /\ out' = [out EXCEPT ![g] = "none"]
      BY <1>5, EnterStep DEF Asks, endpointVars
    <2>2. PICK j \in 1..Len(stores) : /\ seen' = [seen EXCEPT ![g] = j]
                                      /\ uses' = [uses EXCEPT ![g] = stores[j]]
      <3>1. Lazy!Readable(g) \subseteq 1..Len(stores)
        BY <1>0 DEF Lazy!Readable, Lazy!TypeOK
      <3>. QED
        BY <1>5, <3>1, EnterStep
    <2>3. stores[j] \in Goroutines /\ stores[j] # Nobody
      BY <1>0
    <2>4. /\ uses' \in [Goroutines -> Goroutines \cup {Nobody}]
          /\ \A h \in Goroutines : uses'[h] = Nobody <=> pc'[h] = "idle"
      BY <1>0, <2>1, <2>2, <2>3 DEF Lazy!TypeOK
    <2>5. /\ seen' \in [Goroutines -> 0..Len(stores')]
          /\ at' \in [Goroutines -> {"out", "build", "load"}]
          /\ out' \in [Goroutines -> Outs]
      BY <1>0, <2>1, <2>2 DEF Lazy!TypeOK, Outcomes
    <2>. QED
      BY <1>0, <1>2, <2>1, <2>4, <2>5 DEF Lazy!TypeOK
  <1>6. ASSUME NEW g \in Goroutines, Lazy!Verify(g)
        PROVE  Lazy!TypeOK'
    <2>1. /\ pc[g] # "idle" /\ UNCHANGED <<stores, seen, at, builds, now>>
          /\ uses[g] \in Goroutines
          /\ \/ Sends(g) /\ UNCHANGED out
             \/ \E o \in Outcomes : Return(g, o)
      BY <1>6, VerifyStep, UsesVerifier DEF endpointVars
    <2>2. PICK v \in {uses[g]} :
            /\ \E c \in {cache[v]} \cup {Lazy!Holding(d) : d \in Documents} :
                  cache' = [cache EXCEPT ![v] = c]
            /\ uses' = [uses EXCEPT ![g] = IF pc'[g] = "idle" THEN Nobody ELSE v]
            /\ whole' \subseteq whole \cup {v}
      BY <1>6 DEF Lazy!Verify
    <2>3. cache' \in [Goroutines -> CacheType]
      <3>1. \A d \in Documents : Lazy!Holding(d) \in CacheType
        BY <1>0, UsableKids DEF Lazy!Holding, Lazy!Usable, Usable
      <3>. QED
        BY <1>0, <2>1, <2>2, <3>1
    <2>4. /\ uses' \in [Goroutines -> Goroutines \cup {Nobody}]
          /\ whole' \subseteq Goroutines
      BY <1>0, <2>1, <2>2 DEF Lazy!TypeOK
    <2>5. \A h \in Goroutines \ {g} : pc'[h] = pc[h]
      BY <1>0, <2>1 DEF Sends, Return
    <2>6. \A h \in Goroutines : uses'[h] = Nobody <=> pc'[h] = "idle"
      BY <1>0, <2>1, <2>2, <2>5 DEF Lazy!TypeOK
    <2>7. out' \in [Goroutines -> Outs]
      BY <1>0, <2>1 DEF Return
    <2>. QED
      BY <1>0, <1>2, <2>1, <2>3, <2>4, <2>6, <2>7 DEF Lazy!TypeOK
  <1>7. ASSUME NEW g \in Goroutines, Lazy!Panics(g)
        PROVE  Lazy!TypeOK'
    <2>1. /\ UNCHANGED <<stores, seen, whole, at, builds, cache, now>>
          /\ uses' = [uses EXCEPT ![g] = Nobody]
          /\ pc' = [pc EXCEPT ![g] = "idle"]
          /\ out' = [out EXCEPT ![g] = "panicked"]
      BY <1>7, PanicStep DEF Return, endpointVars
    <2>2. /\ uses' \in [Goroutines -> Goroutines \cup {Nobody}]
          /\ \A h \in Goroutines : uses'[h] = Nobody <=> pc'[h] = "idle"
          /\ out' \in [Goroutines -> Outs]
      BY <1>0, <2>1 DEF Lazy!TypeOK
    <2>. QED
      BY <1>0, <1>2, <2>1, <2>2 DEF Lazy!TypeOK
  <1>8. ASSUME NEW g \in Goroutines, Lazy!Serve(g)
        PROVE  Lazy!TypeOK'
    <2>1. /\ UNCHANGED <<stores, seen, whole, at, builds, uses, cache, now, out>>
          /\ pc[g] = "fetch" /\ pc' = [pc EXCEPT ![g] = "reply"]
      BY <1>8, ServeStep DEF Receives, endpointVars
    <2>2. \A h \in Goroutines : uses'[h] = Nobody <=> pc'[h] = "idle"
      BY <1>0, <2>1 DEF Lazy!TypeOK
    <2>. QED
      BY <1>0, <1>2, <2>1, <2>2 DEF Lazy!TypeOK
  <1>9. CASE Lazy!StoresArrive
    <2>1. /\ UNCHANGED <<stores, at, builds, uses, cache, pc, out, now>>
          /\ whole' = {stores[j] : j \in 1..Len(stores)}
          /\ seen' = [h \in Goroutines |-> Len(stores)]
      BY <1>9 DEF Lazy!StoresArrive, Lazy!callVars, Lazy!endpointVars
    <2>2. whole' \subseteq Goroutines /\ seen' \in [Goroutines -> 0..Len(stores')]
      BY <1>0, <2>1
    <2>. QED
      BY <1>0, <1>2, <2>1, <2>2 DEF Lazy!TypeOK
  <1>10. CASE Lazy!Tick \/ UNCHANGED Lazy!vars
    <2>1. UNCHANGED <<stores, seen, whole, at, builds, uses, cache, pc, out>>
      BY <1>10, TickStep DEF Lazy!vars, Lazy!slotVars, Lazy!callVars, callVars
    <2>2. now' \in Nat /\ now <= now'
      <3>1. EndpointStep
        BY LazyEndpoint
      <3>. QED
        BY <3>1, HistoryGrows DEF LazyInv, Calls, EndpointTypeOK
    <2>3. cache' \in [Goroutines -> [keys : SUBSET Kids, fetchedAt : 0..now']]
      BY <1>0, <2>1, <2>2
    <2>. QED
      BY <1>0, <1>2, <2>1, <2>3 DEF Lazy!TypeOK
  <1>. QED
    BY <1>3, <1>4, <1>5, <1>6, <1>7, <1>8, <1>9, <1>10 DEF Lazy!Next

\* The invariant of LazyClient is inductive.
LEMMA LazyStep ==
    Nobody \notin Goroutines => (LazyInv /\ [Lazy!Next]_(Lazy!vars) => LazyInv')
  BY LazyTypes, LazyCalls, LazySlot, LazyCaches DEF LazyInv

\* sdk-go/verify.go VerifyJWT: however the goroutines of a client race for
\* c.verifier, the invariant holds.
THEOREM LazyInvariance ==
    ASSUME Nobody \notin Goroutines
    PROVE  Lazy!Spec => []LazyInv
  <1>1. LazyInv /\ [Lazy!Next]_(Lazy!vars) => LazyInv'
    BY LazyStep
  <1>. QED
    BY <1>1, LazyInit, PTL DEF Lazy!Spec

\* The types of LazyClient: what a call uses is a Verifier that has been
\* built, for exactly as long as it is under way.
THEOREM LazyTypeCorrect ==
    ASSUME Nobody \notin Goroutines
    PROVE  Lazy!Spec => []Lazy!TypeOK
  <1>1. LazyInv => Lazy!TypeOK
    BY DEF LazyInv
  <1>. QED
    BY <1>1, LazyInvariance, PTL

\* verify.go:113, Verifiers that lost the race among them: the cache of each
\* holds what the server published at most FetchTimeout before its fetchedAt.
THEOREM LazyCacheProvenance ==
    ASSUME Nobody \notin Goroutines
    PROVE  Lazy!Spec => [](\A v \in Goroutines : Lazy!V(v)!CacheVouched)
  <1>1. LazyInv => \A v \in Goroutines : Lazy!V(v)!CacheVouched
    <2>. SUFFICES ASSUME LazyInv, NEW v \in Goroutines, cache[v].keys # {},
                         NEW k \in Kids
                  PROVE  IF k \in cache[v].keys
                         THEN cache[v].fetchedAt <= LastIn(k) + FetchTimeout
                         ELSE cache[v].fetchedAt <= LastOut(k) + FetchTimeout
      BY DEF Lazy!V!CacheVouched, Lazy!V!LastIn, LastIn, Lazy!V!LastOut, LastOut,
             Lazy!V!Usable, Usable
    <2>1. LastIn(k) \in Int /\ LastOut(k) \in Int
      BY Sightings DEF LazyInv, Calls
    <2>2. cache[v] \in [keys : SUBSET Kids, fetchedAt : 0..now] /\ now \in Nat
      BY DEF LazyInv, Lazy!TypeOK, Calls, EndpointTypeOK
    <2>. QED
      BY <2>1, <2>2, GoAssumption DEF LazyInv, CachesWindow, Vouched
  <1>. QED
    BY <1>1, LazyInvariance, PTL

\* verify.go:124, the store to c.verifier after the test: for any number of
\* goroutines and whatever old stores they read, each builds one Verifier at
\* most, since the one it has stored is there for it to find.
THEOREM LazyOneVerifierEach ==
    ASSUME Nobody \notin Goroutines
    PROVE  Lazy!Spec => []Lazy!OneVerifierEach
  <1>1. LazyInv => Lazy!OneVerifierEach
    BY DEF LazyInv, SlotShape, Lazy!OneVerifierEach
  <1>. QED
    BY <1>1, LazyInvariance, PTL

-----------------------------------------------------------------------------
\* The promise, seen through LazyClient, allows the same outcomes.
LEMMA SameAllowed ==
    ASSUME NEW g \in Goroutines, NEW o
    PROVE  Lazy!Promise!Allowed(g, o) <=> Promise!Allowed(g, o)
  BY DEF Lazy!Promise!Allowed, Promise!Allowed, Lazy!Promise!MayAccept,
         Promise!MayAccept, Lazy!Promise!MayRefuse, Promise!MayRefuse,
         Lazy!Promise!MayBeAbsent, Promise!MayBeAbsent, Lazy!Promise!Acceptable,
         Promise!Acceptable, Lazy!Promise!Missing, Promise!Missing,
         Lazy!Promise!NoKid, Promise!NoKid, Lazy!Promise!NoIss, Promise!NoIss,
         Lazy!Promise!LastIn, Promise!LastIn, Lazy!Promise!LastOut,
         Promise!LastOut, Lazy!Promise!Usable, Promise!Usable,
         Lazy!Promise!Wall, Promise!Wall

\* The refinement, at first: nothing has been asked of the promise.
LEMMA LazyInitImplements == Lazy!Init => Lazy!Promise!PromiseInit
  BY DEF Lazy!Init, Lazy!EndpointInit, Lazy!Promise!PromiseInit,
         Lazy!Promise!EndpointInit, Lazy!Promise!CallsInit

\* A call that ends with an outcome that is allowed.
LEMMA LazyReturnImplements ==
    ASSUME LazyInv, NEW g \in Goroutines, NEW o \in Outcomes, pc[g] # "idle",
           Return(g, o), Promise!Allowed(g, o), UNCHANGED endpointVars
    PROVE  Lazy!Promise!PromiseNext
  <1>1. tok[g] # NoToken
    BY DEF LazyInv, Calls, CallShape
  <1>2. Lazy!Promise!Answer(g, o)
    BY <1>1 DEF Return, Lazy!Promise!Answer
  <1>3. Lazy!Promise!Allowed(g, o)
    BY SameAllowed
  <1>4. o \in Lazy!Promise!Outcomes /\ UNCHANGED Lazy!Promise!endpointVars
    BY DEF Outcomes, Lazy!Promise!Outcomes, endpointVars, Lazy!Promise!endpointVars
  <1>. QED
    BY <1>2, <1>3, <1>4 DEF Lazy!Promise!PromiseNext

\* The refinement of a step of LazyClient.
LEMMA LazyStepImplements ==
    LazyInv /\ [Lazy!Next]_(Lazy!vars) =>
        [Lazy!Promise!PromiseNext \/ Lazy!PanicBreaksPromise]_(Lazy!Promise!promiseVars)
  <1>. SUFFICES ASSUME LazyInv, [Lazy!Next]_(Lazy!vars)
                PROVE  \/ Lazy!Promise!PromiseNext
                       \/ Lazy!PanicBreaksPromise
                       \/ UNCHANGED Lazy!Promise!promiseVars
    OBVIOUS
  <1>. USE DEF Lazy!Promise!promiseVars, Lazy!Promise!endpointVars,
               Lazy!Promise!callVars
  <1>1. ASSUME UNCHANGED endpointVars, UNCHANGED <<tok, asked, out>>
        PROVE  UNCHANGED Lazy!Promise!promiseVars
    BY <1>1 DEF endpointVars
  <1>2. ASSUME NEW g \in Goroutines, NEW t \in Tokens, Lazy!Enter(g, t)
        PROVE  Lazy!Promise!PromiseNext
    <2>1. /\ Asks(g, t) /\ out' = [out EXCEPT ![g] = "none"]
          /\ UNCHANGED endpointVars
      BY <1>2, EnterStep
    <2>2. tok[g] = NoToken
      BY <2>1 DEF Asks, LazyInv, Calls, CallShape
    <2>3. Lazy!Promise!Ask(g, t)
      BY <2>1, <2>2 DEF Asks, Lazy!Promise!Ask
    <2>. QED
      BY <2>1, <2>3 DEF endpointVars, Lazy!Promise!PromiseNext
  <1>3. ASSUME NEW g \in Goroutines, Lazy!Verify(g)
        PROVE  \/ Lazy!Promise!PromiseNext
               \/ UNCHANGED Lazy!Promise!promiseVars
    <2>1. CASE Sends(g) /\ UNCHANGED out
      BY <1>1, <1>3, <2>1, VerifyStep DEF Sends
    <2>2. ASSUME NEW o \in Outcomes, Return(g, o), Promise!Allowed(g, o)
          PROVE  Lazy!Promise!PromiseNext
      BY <1>3, <2>2, VerifyStep, LazyReturnImplements
    <2>. QED
      BY <1>3, <2>1, <2>2, VerifyStep
  <1>4. ASSUME NEW g \in Goroutines, Lazy!Panics(g)
        PROVE  Lazy!PanicBreaksPromise
    <2>1. pc[g] # "idle" /\ Return(g, "panicked") /\ UNCHANGED endpointVars
      BY <1>4, PanicStep
    <2>2. tok[g] # NoToken
      BY <2>1 DEF LazyInv, Calls, CallShape
    <2>3. Lazy!Promise!Answer(g, "panicked")
      BY <2>1, <2>2 DEF Return, Lazy!Promise!Answer
    <2>. QED
      BY <2>1, <2>3 DEF Lazy!PanicBreaksPromise, endpointVars, Lazy!endpointVars
  <1>5. ASSUME NEW g \in Goroutines, Lazy!Serve(g)
        PROVE  UNCHANGED Lazy!Promise!promiseVars
    BY <1>1, <1>5, ServeStep DEF Receives
  <1>6. ASSUME \/ \E g \in Goroutines : Lazy!FindsNil(g) \/ Lazy!Build(g)
               \/ Lazy!StoresArrive \/ UNCHANGED Lazy!vars
        PROVE  UNCHANGED Lazy!Promise!promiseVars
    BY <1>1, <1>6
    DEF Lazy!FindsNil, Lazy!Build, Lazy!StoreVerifier, Lazy!StoresArrive,
        Lazy!vars, Lazy!endpointVars, endpointVars, Lazy!callVars
  <1>7. CASE Lazy!Tick
    <2>1. PICK doc \in Documents : Advance(doc)
      BY <1>7, TickStep
    <2>2. Lazy!Promise!Advance(doc)
      BY <2>1 DEF Advance, Lazy!Promise!Advance, Usable, Lazy!Promise!Usable
    <2>3. UNCHANGED Lazy!Promise!callVars
      BY <1>7, TickStep DEF callVars
    <2>. QED
      BY <2>2, <2>3 DEF Lazy!Promise!PromiseNext
  <1>. QED
    BY <1>2, <1>3, <1>4, <1>5, <1>6, <1>7 DEF Lazy!Next

\* verify.go:114, what is true of "Race is benign": whichever Verifiers the
\* goroutines of a client build, keep or read stale, a call of VerifyJWT that
\* returns keeps the promise of one Verifier, with the same bounds.  It may
\* instead panic, which breaks the promise; no later call is the worse for it.
THEOREM LazyKeepsPromise ==
    ASSUME Nobody \notin Goroutines
    PROVE  Lazy!Spec => Lazy!KeepsPromiseUnlessItPanics
  BY LazyInitImplements, LazyStepImplements, LazyInvariance, PTL
  DEF Lazy!Spec, Lazy!KeepsPromiseUnlessItPanics
=============================================================================
