-------------------------- MODULE PyVerifierProofs --------------------------
(***************************************************************************)
(* PyVerifier, for any number of threads, any documents and rotations, any *)
(* tokens, any TTL and FetchTimeout, and a wall clock that may be set back *)
(* by any MaxBack: its lock, the provenance of its cache, the coalescing   *)
(* of misses, and that it implements VerifierPromise.                      *)
(***************************************************************************)
EXTENDS PyVerifier, JwksEndpointProofs

\* A thread has a token exactly while its call is under way, a call began in
\* the past, and only a token with a good header gets as far as a fetch.
CallShape ==
    /\ Start <= now
    /\ \A t \in Threads :
        /\ pc[t] = "idle" <=> tok[t] = NoToken
        /\ pc[t] = "idle" => asked[t] = Start
        /\ Fetching(t) => HeaderOK(tok[t])
        /\ asked[t] <= now

\* A fetch is sent during the call and does not outlive FetchTimeout; the
\* reply on its way was read from the server after the fetch was sent.
FetchWindow ==
    \A t \in Threads :
        /\ Fetching(t) => /\ asked[t] <= start[t]
                          /\ start[t] <= now
                          /\ now <= start[t] + FetchTimeout
        /\ pc[t] = "reply" => /\ reply[t] \in Documents
                              /\ Vouched(Usable(reply[t]), start[t])

CacheWindow == keys # {} => Vouched(keys, fetchedAt - FetchTimeout)

\* The cache held no fresh entry for the kid when the fetch was sent, and
\* nobody else has stored since.  (The wall clock read less than now then;
\* Wall itself may have been set back since.)
MissWindow ==
    \A t \in Threads : Fetching(t) /\ tok[t].kid \in keys => fetchedAt + TTL <= now

IInv ==
    /\ TypeOK /\ CallShape /\ LockGuardsFetch
    /\ FetchWindow /\ CacheWindow /\ MissWindow

-----------------------------------------------------------------------------
\* The checks after the key has been found end a call one way or the other.
LEMMA VerdictIsOutcome == \A x : Verdict(x) \in {"accepted", "refused"}
  BY DEF Verdict

\* The invariant holds at first.
LEMMA InitIInv == Init => IInv
  <1>. SUFFICES ASSUME Init PROVE IInv
    OBVIOUS
  <1>1. EndpointTypeOK
    BY EndpointInitTypes DEF Init
  <1>2. TypeOK
    BY <1>1, EndpointAssumption DEF Init, TypeOK, PCs, Outcomes, EndpointTypeOK
  <1>3. now = Start
    BY DEF Init, EndpointInit
  <1>. QED
    BY <1>2, <1>3, EndpointAssumption, PyAssumption
    DEF Init, IInv, CallShape, LockGuardsFetch, FetchWindow, CacheWindow,
        MissWindow, Fetching

\* Every step of the verifier is one that the endpoint may take.
LEMMA StepsOfEndpoint == [Next]_vars => EndpointStep
  BY DEF Next, Finish, Call, BadHeader, CacheHit, CacheMiss, Serve, Store,
         Discard, FetchFails, Tick, ClockBack, vars, EndpointStep, endpointVars

\* A cache that is left alone stays vouched for, whatever the server does.
LEMMA CacheKept ==
    ASSUME IInv, EndpointStep, UNCHANGED cacheVars
    PROVE  /\ EndpointTypeOK' /\ CacheWindow'
           /\ keys' \subseteq Kids /\ fetchedAt' \in Int
  <1>1. EndpointTypeOK'
    BY HistoryGrows DEF IInv, TypeOK
  <1>2. fetchedAt - FetchTimeout \in Int
    BY PyAssumption DEF IInv, TypeOK
  <1>3. ASSUME keys # {}
        PROVE  \A k \in Kids : IF k \in keys THEN fetchedAt - FetchTimeout <= LastIn(k)'
                                             ELSE fetchedAt - FetchTimeout <= LastOut(k)'
    BY <1>2, <1>3, VouchedKept DEF IInv, TypeOK, CacheWindow
  <1>4. CacheWindow'
    BY <1>3 DEF CacheWindow, Vouched, cacheVars
  <1>. QED
    BY <1>1, <1>4 DEF IInv, TypeOK, cacheVars

\* A call that ends leaves nothing behind: its thread is idle, and every other
\* thread is as it was.
LEMMA ReturnKeepsCalls ==
    ASSUME IInv, NEW t \in Threads, NEW o \in Outcomes, Return(t, o),
           UNCHANGED endpointVars
    PROVE  /\ pc' \in [Threads -> PCs]
           /\ tok' \in [Threads -> Tokens \cup {NoToken}]
           /\ asked' \in [Threads -> Nat] /\ start' \in [Threads -> Nat]
           /\ reply' \in [Threads -> Documents \cup {NoReply}]
           /\ out' \in [Threads -> Outcomes]
           /\ CallShape' /\ FetchWindow'
  <1>. USE DEF IInv, TypeOK, Return
  <1>1. pc' \in [Threads -> PCs]
    BY DEF PCs
  <1>2. asked' \in [Threads -> Nat] /\ start' \in [Threads -> Nat]
    BY EndpointAssumption
  <1>3. CallShape'
    <2>1. Start <= now /\ now' = now
      BY DEF endpointVars, CallShape
    <2>. QED
      BY <2>1 DEF CallShape, Fetching
  <1>4. FetchWindow'
    BY DEF FetchWindow, Fetching, Vouched, LastIn, LastOut, endpointVars
  <1>. QED
    BY <1>1, <1>2, <1>3, <1>4

\* While time passes, calls and replies keep their windows.
LEMMA TimePasses ==
    ASSUME IInv, EndpointStep, UNCHANGED callVars,
           \A t \in Threads : Fetching(t) => now' <= start[t] + FetchTimeout
    PROVE  CallShape' /\ FetchWindow'
  <1>1. /\ EndpointTypeOK' /\ now <= now' /\ now \in Nat /\ now' \in Nat
    BY HistoryGrows DEF IInv, TypeOK, EndpointTypeOK
  <1>2. CallShape'
    BY <1>1, EndpointAssumption DEF IInv, TypeOK, CallShape, callVars, Fetching
  <1>3. FetchWindow'
    <2>. SUFFICES ASSUME NEW t \in Threads
                  PROVE  /\ Fetching(t) => /\ asked[t] <= start[t]
                                           /\ start[t] <= now'
                                           /\ now' <= start[t] + FetchTimeout
                         /\ pc[t] = "reply" =>
                                /\ reply[t] \in Documents
                                /\ \A k \in Kids :
                                      IF k \in Usable(reply[t])
                                      THEN start[t] <= LastIn(k)'
                                      ELSE start[t] <= LastOut(k)'
      BY DEF FetchWindow, callVars, Fetching, Vouched
    <2>1. asked[t] \in Nat /\ start[t] \in Nat
      BY DEF IInv, TypeOK
    <2>2. ASSUME pc[t] = "reply"
          PROVE  \A k \in Kids : IF k \in Usable(reply[t]) THEN start[t] <= LastIn(k)'
                                                           ELSE start[t] <= LastOut(k)'
      BY <2>1, <2>2, VouchedKept DEF IInv, TypeOK, FetchWindow
    <2>. QED
      BY <1>1, <2>1, <2>2 DEF IInv, FetchWindow
  <1>. QED
    BY <1>2, <1>3

\* The invariant is inductive: every step keeps it.
LEMMA StepIInv == IInv /\ [Next]_vars => IInv'
  <1>. SUFFICES ASSUME IInv, [Next]_vars PROVE IInv'
    OBVIOUS
  <1>0. EndpointStep
    BY StepsOfEndpoint
  <1>. USE DEF Fetching
  <1>1. ASSUME NEW t \in Threads, NEW x \in Tokens, Call(t, x)
        PROVE  IInv'
    <2>1. UNCHANGED cacheVars /\ UNCHANGED endpointVars
      BY <1>1 DEF Call, cacheVars
    <2>2. TypeOK'
      BY <1>0, <1>1, <2>1, CacheKept
      DEF Call, IInv, TypeOK, PCs, Outcomes, endpointVars, EndpointTypeOK
    <2>3. CallShape'
      BY <1>1, PyAssumption
      DEF Call, IInv, TypeOK, CallShape, endpointVars, EndpointTypeOK
    <2>4. FetchWindow'
      BY <1>1 DEF Call, IInv, TypeOK, FetchWindow, Vouched, LastIn, LastOut,
                  endpointVars
    <2>5. LockGuardsFetch' /\ MissWindow'
      BY <1>1 DEF Call, IInv, TypeOK, LockGuardsFetch, MissWindow, cacheVars,
                  endpointVars
    <2>. QED
      BY <1>0, <2>1, <2>2, <2>3, <2>4, <2>5, CacheKept DEF IInv
  <1>2. ASSUME NEW t \in Threads, BadHeader(t) \/ CacheHit(t)
        PROVE  IInv'
    <2>1. UNCHANGED cacheVars /\ UNCHANGED endpointVars /\ UNCHANGED lock
      BY <1>2 DEF BadHeader, CacheHit, cacheVars
    <2>2. pc[t] = "lookup" /\ \E o \in Outcomes : Return(t, o)
      BY <1>2 DEF BadHeader, CacheHit, Outcomes, Verdict
    <2>3. LockGuardsFetch' /\ MissWindow'
      BY <2>1, <2>2 DEF Return, IInv, TypeOK, LockGuardsFetch, MissWindow,
                        cacheVars, endpointVars
    <2>. QED
      BY <1>0, <2>1, <2>2, <2>3, CacheKept, ReturnKeepsCalls DEF IInv, TypeOK
  <1>3. ASSUME NEW t \in Threads, CacheMiss(t)
        PROVE  IInv'
    <2>1. UNCHANGED cacheVars /\ UNCHANGED endpointVars
      BY <1>3 DEF CacheMiss, cacheVars
    <2>2. TypeOK'
      BY <1>0, <1>3, <2>1, CacheKept
      DEF CacheMiss, IInv, TypeOK, PCs, endpointVars, EndpointTypeOK
    <2>3. CallShape'
      BY <1>3 DEF CacheMiss, IInv, TypeOK, CallShape, endpointVars
    <2>4. FetchWindow'
      BY <1>3, PyAssumption
      DEF CacheMiss, IInv, TypeOK, CallShape, FetchWindow, Vouched, LastIn,
          LastOut, endpointVars, EndpointTypeOK
    <2>5. LockGuardsFetch'
      BY <1>3, PyAssumption DEF CacheMiss, IInv, TypeOK, LockGuardsFetch
    <2>6. MissWindow'
      <3>1. tok[t].kid \in keys => fetchedAt + TTL <= now
        BY <1>3, PyAssumption, EndpointAssumption
        DEF CacheMiss, Hit, Wall, IInv, TypeOK, EndpointTypeOK
      <3>. QED
        BY <1>3, <2>1, <3>1
        DEF CacheMiss, IInv, TypeOK, MissWindow, cacheVars, endpointVars
    <2>. QED
      BY <1>0, <2>1, <2>2, <2>3, <2>4, <2>5, <2>6, CacheKept DEF IInv
  <1>4. ASSUME NEW t \in Threads, Serve(t)
        PROVE  IInv'
    <2>1. UNCHANGED cacheVars /\ UNCHANGED endpointVars
      BY <1>4 DEF Serve, cacheVars
    <2>2. TypeOK'
      BY <1>0, <1>4, <2>1, CacheKept
      DEF Serve, IInv, TypeOK, PCs, endpointVars, EndpointTypeOK
    <2>3. CallShape' /\ LockGuardsFetch' /\ MissWindow'
      BY <1>4 DEF Serve, IInv, TypeOK, CallShape, LockGuardsFetch, MissWindow,
                  cacheVars, endpointVars
    <2>4. Vouched(Usable(published), start[t])
      <3>1. start[t] \in Int /\ now \in Int /\ start[t] <= now
        BY <1>4 DEF Serve, IInv, TypeOK, FetchWindow, EndpointTypeOK
      <3>. QED
        BY <3>1, PublishedVouched, VouchedEarlier DEF IInv, TypeOK
    <2>5. FetchWindow'
      BY <1>4, <2>4
      DEF Serve, IInv, TypeOK, FetchWindow, Vouched, LastIn, LastOut,
          endpointVars, EndpointTypeOK
    <2>. QED
      BY <1>0, <2>1, <2>2, <2>3, <2>5, CacheKept DEF IInv
  <1>5. ASSUME NEW t \in Threads, Finish(t)
        PROVE  IInv'
    <2>1. UNCHANGED endpointVars /\ EndpointTypeOK'
      BY <1>0, <1>5, HistoryGrows
      DEF Finish, Store, Discard, FetchFails, IInv, TypeOK
    <2>2. PICK o \in Outcomes : Return(t, o)
      BY <1>5 DEF Finish, Store, Discard, FetchFails, Outcomes, Verdict
    \* Nobody else is fetching, and when t has finished nobody is.
    <2>3. lock' = Nobody /\ \A u \in Threads : pc'[u] \notin {"fetch", "reply"}
      BY <1>5, <2>2
      DEF Finish, Store, Discard, FetchFails, Return, IInv, TypeOK, LockGuardsFetch
    <2>4. LockGuardsFetch' /\ MissWindow'
      BY <2>3, PyAssumption DEF LockGuardsFetch, MissWindow
    <2>5. keys' \subseteq Kids /\ fetchedAt' \in Int /\ CacheWindow'
      <3>1. CASE Store(t)
        <4>1. /\ reply[t] \in Documents /\ Vouched(Usable(reply[t]), start[t])
              /\ start[t] \in Int /\ now \in Nat /\ now <= start[t] + FetchTimeout
              /\ Wall \in Int /\ Wall <= now
          BY <3>1, EndpointAssumption
          DEF Store, IInv, TypeOK, FetchWindow, EndpointTypeOK, Wall
        <4>2. Vouched(Usable(reply[t]), Wall - FetchTimeout)
          BY <4>1, PyAssumption, VouchedEarlier DEF IInv, TypeOK
        <4>. QED
          BY <2>1, <3>1, <4>1, <4>2, UsableKids
          DEF Store, CacheWindow, Vouched, LastIn, LastOut, endpointVars
      <3>2. CASE UNCHANGED cacheVars
        BY <1>0, <3>2, CacheKept
      <3>. QED
        BY <1>5, <3>1, <3>2 DEF Finish, Discard, FetchFails
    <2>. QED
      BY <2>1, <2>2, <2>3, <2>4, <2>5, ReturnKeepsCalls DEF IInv, TypeOK
  <1>6. CASE Tick
    <2>1. \A t \in Threads : Fetching(t) => now' <= start[t] + FetchTimeout
      BY <1>6, PyAssumption DEF Tick, Advance, IInv, TypeOK, EndpointTypeOK
    <2>2. CallShape' /\ FetchWindow'
      BY <1>0, <1>6, <2>1, TimePasses DEF Tick
    <2>3. now' = now + 1 /\ now \in Nat
      BY <1>6 DEF Tick, Advance, IInv, TypeOK, EndpointTypeOK
    <2>4. LockGuardsFetch' /\ MissWindow'
      BY <1>6, <2>3, PyAssumption
      DEF Tick, IInv, TypeOK, LockGuardsFetch, MissWindow, callVars, cacheVars
    <2>. QED
      BY <1>0, <1>6, <2>2, <2>4, CacheKept DEF Tick, IInv, TypeOK, callVars
  <1>7. CASE ClockBack \/ UNCHANGED vars
    <2>1. /\ UNCHANGED callVars /\ UNCHANGED cacheVars /\ UNCHANGED lock
          /\ now' = now
      BY <1>7 DEF ClockBack, SetClockBack, vars, endpointVars
    <2>2. CallShape' /\ FetchWindow'
      BY <1>0, <2>1, TimePasses DEF IInv, FetchWindow
    <2>3. LockGuardsFetch' /\ MissWindow'
      BY <2>1 DEF IInv, LockGuardsFetch, MissWindow, callVars, cacheVars
    <2>. QED
      BY <1>0, <2>1, <2>2, <2>3, CacheKept DEF IInv, TypeOK, callVars
  <1>. QED
    BY <1>1, <1>2, <1>3, <1>4, <1>5, <1>6, <1>7 DEF Next

\* However the threads of verify.py wait for the lock, the invariant holds.
THEOREM Invariance == Spec => []IInv
  BY InitIInv, StepIInv, PTL DEF Spec

\* The types of the verifier's state: what every other proof rests on.
THEOREM TypeCorrect == Spec => []TypeOK
  <1>1. IInv => TypeOK
    BY DEF IInv
  <1>. QED
    BY <1>1, Invariance, PTL

\* sdk-python verify.py _key_for_kid: the lock is held across the request, by
\* the thread that made it and by nobody else.
THEOREM LockDiscipline == Spec => []LockGuardsFetch
  <1>1. IInv => LockGuardsFetch
    BY DEF IInv
  <1>. QED
    BY <1>1, Invariance, PTL

\* sdk-python verify.py _refresh_locked: the cache holds what the server
\* published at most FetchTimeout before fetchedAt, on whichever clock.
THEOREM CacheProvenance == Spec => []CacheVouched
  <1>1. IInv => CacheVouched
    <2>. SUFFICES ASSUME IInv, keys # {}, NEW k \in Kids
                  PROVE  IF k \in keys THEN fetchedAt <= LastIn(k) + FetchTimeout
                                       ELSE fetchedAt <= LastOut(k) + FetchTimeout
      BY DEF CacheVouched
    <2>1. LastIn(k) \in Int /\ LastOut(k) \in Int
      BY Sightings DEF IInv, TypeOK
    <2>. QED
      BY <2>1, PyAssumption DEF IInv, TypeOK, CacheWindow, Vouched
  <1>. QED
    BY <1>1, Invariance, PTL

\* sdk-python verify.py: "a burst of verifies against a cold cache produces at
\* most one HTTP call".  No thread fetches a key that another thread's fetch has
\* just brought, as far as the wall clock can tell.
THEOREM MissesCoalesce == Spec => []NoRedundantFetch
  <1>1. IInv => NoRedundantFetch
    <2>. SUFFICES ASSUME IInv, NEW t \in Threads, Fetching(t), tok[t].kid \in keys
                  PROVE  fetchedAt + TTL <= Wall + MaxBack
      BY DEF NoRedundantFetch
    <2>1. fetchedAt + TTL <= now
      BY DEF IInv, MissWindow
    <2>2. now \in Nat /\ back \in Nat /\ back <= MaxBack
      BY EndpointAssumption DEF IInv, TypeOK, EndpointTypeOK
    <2>. QED
      BY <2>1, <2>2, PyAssumption, EndpointAssumption DEF Wall, IInv, TypeOK
  <1>. QED
    BY <1>1, Invariance, PTL

-----------------------------------------------------------------------------
\* sdk-python verify.py verify, for every token and every reading w of a clock
\* that is not before the epoch: after a good header, what the code accepts is
\* acceptable, and what it refuses is not, but for an exp of 0.
THEOREM VerdictIsDocumented ==
    ASSUME NEW x \in Tokens, NEW w \in Nat, HeaderOK(x)
    PROVE  /\ x.signed /\ ClaimsOK(x, w) => Acceptable(x, w)
           /\ ~(x.signed /\ ClaimsOK(x, w)) => ~Acceptable(x, w) \/ x.exp = 0
  <1>1. TokenShape(x) /\ Skew \in Nat
    BY TokenAssumption
  <1>. QED
    BY <1>1 DEF TokenShape, HeaderOK, ClaimsOK, Acceptable, Missing

\* The same definitions, seen through the instance of VerifierPromise.
LEMMA SameView ==
    /\ \A x, w : Promise!Acceptable(x, w) <=> Acceptable(x, w)
    /\ \A k : Promise!LastIn(k) = LastIn(k) /\ Promise!LastOut(k) = LastOut(k)
    /\ Promise!Wall = Wall
  BY DEF Promise!Acceptable, Acceptable, Promise!Missing, Missing, Promise!NoKid,
         NoKid, Promise!NoIss, NoIss, Promise!LastIn, LastIn, Promise!LastOut,
         LastOut, Promise!Usable, Usable, Promise!Wall, Wall

\* The refinement, at first: nothing has been asked of the promise.
LEMMA InitImplements == Init => Promise!PromiseInit
  BY DEF Init, EndpointInit, Promise!PromiseInit, Promise!EndpointInit,
         Promise!CallsInit

\* The wall clock reads the true time, less what it was set back.
LEMMA WallReads ==
    ASSUME IInv
    PROVE  now \in Nat /\ Wall \in Nat /\ Wall <= now /\ now <= Wall + MaxBack
  BY EndpointAssumption, PyAssumption
  DEF Wall, IInv, TypeOK, CallShape, EndpointTypeOK

\* The verdict on a token whose key was sighted recently is one the promise
\* allows.
LEMMA VerdictAllowed ==
    ASSUME IInv, NEW t \in Threads, tok[t] \in Tokens, HeaderOK(tok[t]),
           now < LastIn(tok[t].kid) + TTL + FetchTimeout + MaxBack
    PROVE  Promise!Allowed(t, Verdict(tok[t]))
  <1>1. tok[t].kid \in Kids
    BY TokenAssumption DEF TokenShape, HeaderOK
  <1>2. now < LastIn(tok[t].kid) + (TTL + FetchTimeout + MaxBack)
    BY <1>1, Sightings, PyAssumption, EndpointAssumption
    DEF IInv, TypeOK, EndpointTypeOK
  <1>3. /\ Verdict(tok[t]) = "accepted" => Acceptable(tok[t], Wall)
        /\ Verdict(tok[t]) = "refused" =>
                ~Acceptable(tok[t], Wall) \/ tok[t].exp = 0
    BY WallReads, VerdictIsDocumented DEF Verdict
  <1>. QED
    BY <1>2, <1>3, SameView, VerdictIsOutcome
    DEF Promise!Allowed, Promise!MayAccept, Promise!MayRefuse

\* A call that ends with an allowed outcome is a step of the promise.
LEMMA ReturnImplements ==
    ASSUME IInv, NEW t \in Threads, NEW o \in Outcomes, pc[t] # "idle",
           Return(t, o), Promise!Allowed(t, o), UNCHANGED endpointVars
    PROVE  Promise!PromiseNext
  <1>1. tok[t] # NoToken
    BY DEF IInv, CallShape
  <1>2. Promise!Answer(t, o)
    BY <1>1 DEF Return, Promise!Answer
  <1>3. o \in Promise!Outcomes /\ UNCHANGED Promise!endpointVars
    BY DEF Outcomes, Promise!Outcomes, endpointVars, Promise!endpointVars
  <1>. QED
    BY <1>2, <1>3 DEF Promise!PromiseNext

\* The refinement of a step: every step is one that the promise allows, or
\* leaves all that the promise speaks of as it is.
LEMMA StepImplements ==
    IInv /\ [Next]_vars => [Promise!PromiseNext]_(Promise!promiseVars)
  <1>. SUFFICES ASSUME IInv, [Next]_vars
                PROVE  Promise!PromiseNext \/ UNCHANGED Promise!promiseVars
    OBVIOUS
  <1>. USE DEF Promise!promiseVars, Promise!endpointVars, Promise!callVars
  <1>1. ASSUME NEW t \in Threads, NEW x \in Tokens, Call(t, x)
        PROVE  Promise!PromiseNext
    <2>1. Promise!Ask(t, x)
      BY <1>1 DEF Call, Promise!Ask, IInv, CallShape
    <2>. QED
      BY <1>1, <2>1 DEF Call, endpointVars, Promise!PromiseNext
  <1>2. ASSUME NEW t \in Threads, BadHeader(t)
        PROVE  Promise!PromiseNext
    <2>1. Promise!Allowed(t, "refused")
      BY <1>2, SameView
      DEF BadHeader, HeaderOK, Acceptable, Promise!Allowed, Promise!MayRefuse
    <2>. QED
      BY <1>2, <2>1, ReturnImplements DEF BadHeader, Outcomes
  <1>3. ASSUME NEW t \in Threads, CacheHit(t)
        PROVE  Promise!PromiseNext
    <2>1. tok[t] \in Tokens /\ HeaderOK(tok[t]) /\ Hit(tok[t].kid)
      BY <1>3 DEF CacheHit, IInv, TypeOK, CallShape
    <2>2. tok[t].kid \in Kids
      BY <2>1, TokenAssumption DEF TokenShape, HeaderOK
    \* Wall - fetchedAt < TTL, and Wall is at most MaxBack behind now.
    <2>3. now < LastIn(tok[t].kid) + TTL + FetchTimeout + MaxBack
      <3>1. fetchedAt - FetchTimeout <= LastIn(tok[t].kid)
        BY <2>1, <2>2 DEF Hit, IInv, CacheWindow, Vouched
      <3>. QED
        BY <2>1, <2>2, <3>1, WallReads, Sightings, PyAssumption, EndpointAssumption
        DEF Hit, IInv, TypeOK
    <2>. QED
      BY <1>3, <2>1, <2>3, VerdictAllowed, ReturnImplements, VerdictIsOutcome
      DEF CacheHit, Outcomes
  <1>4. ASSUME NEW t \in Threads, Store(t)
        PROVE  Promise!PromiseNext
    <2>1. /\ tok[t] \in Tokens /\ HeaderOK(tok[t])
          /\ Vouched(Usable(reply[t]), start[t])
          /\ start[t] \in Int /\ asked[t] \in Int /\ now \in Int
          /\ asked[t] <= start[t] /\ now <= start[t] + FetchTimeout
      BY <1>4 DEF Store, IInv, TypeOK, CallShape, FetchWindow, Fetching,
                  EndpointTypeOK
    <2>2. tok[t].kid \in Kids /\ tok[t].kid # NoKid
      BY <2>1, TokenAssumption DEF TokenShape, HeaderOK
    <2>3. LastIn(tok[t].kid) \in Int /\ LastOut(tok[t].kid) \in Int
      BY <2>2, Sightings DEF IInv, TypeOK
    <2>4. CASE tok[t].kid \in keys'
      <3>1. now < LastIn(tok[t].kid) + TTL + FetchTimeout + MaxBack
        BY <1>4, <2>1, <2>2, <2>3, <2>4, PyAssumption, EndpointAssumption
        DEF Store, Vouched
      <3>. QED
        BY <1>4, <2>1, <2>4, <3>1, VerdictAllowed, ReturnImplements, VerdictIsOutcome
        DEF Store, Outcomes
    <2>5. CASE tok[t].kid \notin keys'
      <3>1. asked[t] <= LastOut(tok[t].kid)
        BY <1>4, <2>1, <2>2, <2>3, <2>5 DEF Store, Vouched
      <3>2. Promise!MayBeAbsent(t)
        BY <2>3, <3>1, SameView DEF Promise!MayBeAbsent
      <3>3. Promise!Allowed(t, "absent")
        BY <2>2, <3>2 DEF Promise!Allowed, Promise!NoKid, NoKid
      <3>. QED
        BY <1>4, <2>5, <3>3, ReturnImplements DEF Store, Outcomes
    <2>. QED
      BY <2>4, <2>5
  <1>5. ASSUME NEW t \in Threads, Discard(t) \/ FetchFails(t)
        PROVE  Promise!PromiseNext
    <2>1. Promise!Allowed(t, "failed")
      BY DEF Promise!Allowed
    <2>. QED
      BY <1>5, <2>1, ReturnImplements DEF Discard, FetchFails, Fetching, Outcomes
  <1>6. ASSUME NEW t \in Threads, CacheMiss(t) \/ Serve(t)
        PROVE  UNCHANGED Promise!promiseVars
    BY <1>6 DEF CacheMiss, Serve, endpointVars
  <1>7. CASE Tick
    <2>1. PICK doc \in Documents : Advance(doc)
      BY <1>7 DEF Tick
    <2>2. Promise!Advance(doc)
      BY <2>1 DEF Advance, Promise!Advance, Usable, Promise!Usable
    <2>. QED
      BY <1>7, <2>2 DEF Tick, callVars, Promise!PromiseNext
  <1>8. CASE ClockBack
    BY <1>8 DEF ClockBack, SetClockBack, callVars, Promise!SetClockBack,
                Promise!PromiseNext
  <1>9. CASE UNCHANGED vars
    BY <1>9 DEF vars, endpointVars, callVars
  <1>. QED
    BY <1>1, <1>2, <1>3, <1>4, <1>5, <1>6, <1>7, <1>8, <1>9 DEF Next, Finish

\* The Python verifier keeps the promise: claims only for an acceptable token
\* whose key the server published less than TTL + FetchTimeout + MaxBack before;
\* no good token refused; a key called absent only if it was absent during the
\* call, the wait for the lock included.
THEOREM Implements == Spec => ImplementsPromise
  BY InitImplements, StepImplements, Invariance, PTL
  DEF Spec, ImplementsPromise, Promise!PromiseSpec
=============================================================================
