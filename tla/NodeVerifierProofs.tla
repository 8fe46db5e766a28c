------------------------- MODULE NodeVerifierProofs -------------------------
(***************************************************************************)
(* NodeVerifier, for any number of calls under way, any documents and      *)
(* rotations, any tokens, any TTL and FetchTimeout and any MaxBack: the    *)
(* single flight, the provenance of the cache, the coalescing of misses,   *)
(* and that it implements VerifierPromise.                                 *)
(***************************************************************************)
EXTENDS NodeVerifier, JwksEndpointProofs

\* A caller has a token exactly while its call is under way, a call began in
\* the past, and the header decides which way it goes.
CallShape ==
    /\ Start <= now
    /\ \A c \in Callers :
        /\ pc[c] = "idle" <=> tok[c] = NoToken
        /\ pc[c] = "idle" => asked[c] = Start
        /\ pc[c] \in {"await", "verify", "ready"} => HeaderOK(tok[c])
        /\ pc[c] = "refuse" => ~HeaderOK(tok[c])
        /\ asked[c] <= now

\* The call that starts a refresh is awaiting it until it is forgotten.
StarterWaits == \A c \in Callers : refresh[c] # "none" => pc[c] = "await"

\* A fetch that is pending does not outlive FetchTimeout; the reply on its way
\* was read from the server after the fetch was sent.
FetchWindow ==
    \A c \in Callers :
        /\ Pending(c) => start[c] <= now /\ now <= start[c] + FetchTimeout
        /\ refresh[c] = "replied" => /\ reply[c] \in Documents
                                     /\ Vouched(Usable(reply[c]), start[c])

CacheWindow == keys # {} => Vouched(keys, fetchedAt - FetchTimeout)

\* The cache held no fresh entry for the kid when the fetch was sent.
MissWindow ==
    \A c \in Callers : Pending(c) /\ tok[c].kid \in keys => fetchedAt + TTL <= now

\* Between the microtasks of a moment nothing happens to the cache or to the
\* time: a hit is still a recent sighting when the call resumes, and the cache
\* is still what the refresh has just brought.
MicrotaskWindow ==
    \A c \in Callers :
        /\ pc[c] = "verify" =>
                now < LastIn(tok[c].kid) + TTL + FetchTimeout + MaxBack
        /\ pc[c] = "ready" \/ refresh[c] = "resolved" =>
                Vouched(keys, now - FetchTimeout)

IInv ==
    /\ TypeOK /\ CallShape
    /\ SingleFlight /\ NobodyWaitsForNothing /\ StarterWaits
    /\ FetchWindow /\ CacheWindow /\ MissWindow /\ MicrotaskWindow

-----------------------------------------------------------------------------
\* The checks after the key has been found end a call one way or the other.
LEMMA VerdictIsOutcome == \A x : Verdict(x) \in {"accepted", "refused"}
  BY DEF Verdict

\* The invariant holds at first.
LEMMA InitIInv == Init => IInv
  <1>. SUFFICES ASSUME Init PROVE IInv
    OBVIOUS
  <1>1. EndpointTypeOK
    BY EndpointInitTypes DEF Init
  <1>2. TypeOK
    BY <1>1, EndpointAssumption
    DEF Init, TypeOK, PCs, Outcomes, RefreshStates, EndpointTypeOK
  <1>3. now = Start
    BY DEF Init, EndpointInit
  <1>. QED
    BY <1>2, <1>3, EndpointAssumption, NodeAssumption
    DEF Init, IInv, CallShape, SingleFlight, NobodyWaitsForNothing, StarterWaits,
        FetchWindow, CacheWindow, MissWindow, MicrotaskWindow, Pending

\* Every step of the verifier is one that the endpoint may take.
LEMMA StepsOfEndpoint == [Next]_vars => EndpointStep
  BY DEF Next, Call, CallBadHeader, CallHit, CallJoin, CallFetch, Enter, Serve,
         Store, Discard, FetchFails, EndRefresh, Finally, Resume, Verify, Lookup,
         Throw, Refuse, Return, Tick, ClockBack, vars, EndpointStep, endpointVars

\* A cache that is left alone stays vouched for, whatever the server does.
LEMMA CacheKept ==
    ASSUME IInv, EndpointStep, UNCHANGED cacheVars
    PROVE  /\ EndpointTypeOK' /\ CacheWindow'
           /\ keys' \subseteq Kids /\ fetchedAt' \in Int
  <1>1. EndpointTypeOK'
    BY HistoryGrows DEF IInv, TypeOK
  <1>2. fetchedAt - FetchTimeout \in Int
    BY NodeAssumption DEF IInv, TypeOK
  <1>3. ASSUME keys # {}
        PROVE  \A k \in Kids : IF k \in keys THEN fetchedAt - FetchTimeout <= LastIn(k)'
                                             ELSE fetchedAt - FetchTimeout <= LastOut(k)'
    BY <1>2, <1>3, VouchedKept DEF IInv, TypeOK, CacheWindow
  <1>4. CacheWindow'
    BY <1>3 DEF CacheWindow, Vouched, cacheVars
  <1>. QED
    BY <1>1, <1>4 DEF IInv, TypeOK, cacheVars

\* A reply stays vouched for while it is under way.
LEMMA RepliesKept ==
    ASSUME IInv, EndpointStep
    PROVE  \A c \in Callers : refresh[c] = "replied" =>
                \A k \in Kids : IF k \in Usable(reply[c]) THEN start[c] <= LastIn(k)'
                                                          ELSE start[c] <= LastOut(k)'
  <1>. SUFFICES ASSUME NEW c \in Callers, refresh[c] = "replied"
                PROVE  \A k \in Kids : IF k \in Usable(reply[c])
                                       THEN start[c] <= LastIn(k)'
                                       ELSE start[c] <= LastOut(k)'
    OBVIOUS
  <1>1. start[c] \in Int
    BY DEF IInv, TypeOK
  <1>. QED
    BY <1>1, VouchedKept DEF IInv, TypeOK, FetchWindow

\* The wall clock reads the true time, less what it was set back.
LEMMA WallReads ==
    ASSUME IInv
    PROVE  now \in Nat /\ Wall \in Int /\ Wall <= now /\ now <= Wall + MaxBack
  BY EndpointAssumption DEF Wall, IInv, TypeOK, EndpointTypeOK

\* What a step that touches neither the cache nor the endpoint need not
\* prove again.
LEMMA StillMoment ==
    ASSUME IInv, UNCHANGED endpointVars, UNCHANGED cacheVars
    PROVE  /\ EndpointTypeOK' /\ CacheWindow'
           /\ keys' \subseteq Kids /\ fetchedAt' \in Int
           /\ now' = now /\ Wall' = Wall
           /\ \A k : LastIn(k)' = LastIn(k) /\ LastOut(k)' = LastOut(k)
  <1>1. EndpointStep
    BY DEF EndpointStep
  <1>. QED
    BY <1>1, CacheKept DEF endpointVars, Wall, LastIn, LastOut

\* verify, up to its first await.
LEMMA CallIInv ==
    ASSUME IInv, NEW c \in Callers, NEW x \in Tokens, Call(c, x)
    PROVE  IInv'
  <1>1. UNCHANGED endpointVars /\ UNCHANGED cacheVars
    BY DEF Call, CallBadHeader, CallHit, CallJoin, CallFetch, Enter
  <1>2. /\ EndpointTypeOK' /\ CacheWindow'
        /\ keys' = keys /\ keys' \subseteq Kids
        /\ fetchedAt' = fetchedAt /\ fetchedAt' \in Int
        /\ now' = now /\ \A k : LastIn(k)' = LastIn(k) /\ LastOut(k)' = LastOut(k)
    BY <1>1, StillMoment DEF cacheVars
  <1>3. PICK p \in {"refuse", "verify", "await"} :
            /\ Enter(c, x, p)
            /\ HeaderOK(x) <=> p # "refuse"
            /\ p = "verify" => Hit(x.kid)
            /\ p = "await" => ~Hit(x.kid) /\ on' = [on EXCEPT ![c] = inflight']
            /\ p # "await" => UNCHANGED on
    BY DEF Call, CallBadHeader, CallHit, CallJoin, CallFetch, refreshVars
  <1>4. CASE UNCHANGED refreshVars /\ (p = "await" => inflight # Nobody)
    <2>1. TypeOK'
      BY <1>2, <1>3, <1>4
      DEF Enter, refreshVars, IInv, TypeOK, PCs, Microtasks, Outcomes, EndpointTypeOK
    <2>2. CallShape'
      BY <1>2, <1>3, NodeAssumption
      DEF Enter, IInv, TypeOK, CallShape, EndpointTypeOK
    <2>3. SingleFlight' /\ NobodyWaitsForNothing' /\ StarterWaits'
      BY <1>3, <1>4
      DEF Enter, refreshVars, IInv, TypeOK, SingleFlight, NobodyWaitsForNothing,
          StarterWaits
    <2>4. FetchWindow' /\ MissWindow'
      BY <1>2, <1>3, <1>4
      DEF Enter, refreshVars, IInv, TypeOK, StarterWaits, FetchWindow, MissWindow,
          Pending, Vouched
    <2>5. MicrotaskWindow'
      <3>1. p = "verify" => now < LastIn(x.kid) + TTL + FetchTimeout + MaxBack
        <4>1. SUFFICES ASSUME p = "verify"
                       PROVE  now < LastIn(x.kid) + TTL + FetchTimeout + MaxBack
          OBVIOUS
        <4>2. x.kid \in keys /\ x.kid \in Kids /\ Wall - fetchedAt < TTL
          BY <1>3, <4>1 DEF Hit, IInv, TypeOK
        <4>3. fetchedAt - FetchTimeout <= LastIn(x.kid)
          BY <4>2 DEF IInv, CacheWindow, Vouched
        <4>. QED
          BY <4>2, <4>3, WallReads, Sightings, NodeAssumption, EndpointAssumption
          DEF IInv, TypeOK
      <3>2. \A d \in Callers \ {c} : pc'[d] = pc[d] /\ tok'[d] = tok[d]
        BY <1>3 DEF Enter, IInv, TypeOK
      <3>3. pc'[c] = p /\ tok'[c] = x /\ refresh' = refresh
        BY <1>3, <1>4 DEF Enter, IInv, TypeOK, refreshVars
      <3>. QED
        BY <1>2, <3>1, <3>2, <3>3 DEF IInv, MicrotaskWindow, Vouched
    <2>. QED
      BY <1>2, <2>1, <2>2, <2>3, <2>4, <2>5 DEF IInv
  <1>5. CASE CallFetch(c, x)
    <2>1. p = "await" /\ HeaderOK(x) /\ ~Hit(x.kid)
      BY <1>3, <1>5 DEF CallFetch, Enter, IInv, TypeOK
    <2>2. TypeOK'
      BY <1>2, <1>5
      DEF CallFetch, Enter, IInv, TypeOK, PCs, Outcomes, RefreshStates,
          EndpointTypeOK
    <2>3. CallShape'
      BY <1>2, <1>3, NodeAssumption
      DEF Enter, IInv, TypeOK, CallShape, EndpointTypeOK
    <2>4. SingleFlight' /\ NobodyWaitsForNothing' /\ StarterWaits'
      BY <1>5, NodeAssumption
      DEF CallFetch, Enter, IInv, TypeOK, SingleFlight, NobodyWaitsForNothing,
          StarterWaits
    <2>5. FetchWindow'
      BY <1>2, <1>5, NodeAssumption
      DEF CallFetch, Enter, IInv, TypeOK, FetchWindow, Pending, Vouched,
          EndpointTypeOK
    <2>6. MissWindow'
      <3>1. x.kid \in keys => fetchedAt + TTL <= now
        BY <2>1, WallReads, NodeAssumption DEF Hit, IInv, TypeOK
      <3>. QED
        BY <1>2, <1>5, <3>1
        DEF CallFetch, Enter, IInv, TypeOK, StarterWaits, MissWindow, Pending
    <2>7. MicrotaskWindow'
      BY <1>2, <1>5 DEF CallFetch, Enter, IInv, TypeOK, MicrotaskWindow, Vouched
    <2>. QED
      BY <1>2, <2>2, <2>3, <2>4, <2>5, <2>6, <2>7 DEF IInv
  <1>. QED
    BY <1>3, <1>4, <1>5
    DEF Call, CallBadHeader, CallHit, CallJoin, Enter, IInv, TypeOK

\* The server answers a fetch with the document of the moment.
LEMMA ServeIInv ==
    ASSUME IInv, NEW c \in Callers, Serve(c)
    PROVE  IInv'
  <1>1. /\ EndpointTypeOK' /\ CacheWindow'
        /\ keys' = keys /\ keys' \subseteq Kids
        /\ fetchedAt' = fetchedAt /\ fetchedAt' \in Int
        /\ now' = now /\ \A k : LastIn(k)' = LastIn(k) /\ LastOut(k)' = LastOut(k)
    BY StillMoment DEF Serve, cacheVars
  <1>2. TypeOK'
    BY <1>1 DEF Serve, IInv, TypeOK, RefreshStates, callVars, EndpointTypeOK
  <1>3. CallShape' /\ MissWindow' /\ MicrotaskWindow'
    BY <1>1
    DEF Serve, IInv, TypeOK, CallShape, MissWindow, MicrotaskWindow, Pending,
        Vouched, callVars
  <1>4. SingleFlight' /\ NobodyWaitsForNothing' /\ StarterWaits'
    BY DEF Serve, IInv, TypeOK, SingleFlight, NobodyWaitsForNothing, StarterWaits,
           callVars
  <1>5. FetchWindow'
    <2>1. start[c] \in Int /\ now \in Int /\ start[c] <= now
      BY DEF Serve, IInv, TypeOK, FetchWindow, Pending, EndpointTypeOK
    <2>2. published \in Documents /\ Vouched(Usable(published), start[c])
      BY <2>1, PublishedVouched, VouchedEarlier DEF IInv, TypeOK, EndpointTypeOK
    <2>. QED
      BY <1>1, <2>2
      DEF Serve, IInv, TypeOK, FetchWindow, Pending, Vouched, callVars
  <1>. QED
    BY <1>1, <1>2, <1>3, <1>4, <1>5 DEF IInv

\* The end of a refresh, whatever it brought: it was the only one, and no
\* microtask was left.
LEMMA EndRefreshIInv ==
    ASSUME IInv, NEW c \in Callers, Store(c) \/ Discard(c) \/ FetchFails(c)
    PROVE  IInv'
  <1>1. PICK r \in {"resolved", "rejected"} : EndRefresh(c, r)
    BY DEF Store, Discard, FetchFails
  <1>2. /\ UNCHANGED <<endpointVars, inflight, callVars>>
        /\ EndpointTypeOK' /\ now' = now
        /\ \A k : LastIn(k)' = LastIn(k) /\ LastOut(k)' = LastOut(k)
    BY <1>1, HistoryGrows
    DEF EndRefresh, EndpointStep, IInv, TypeOK, endpointVars, LastIn, LastOut
  <1>3. Pending(c) /\ inflight = c /\ MicrotasksDone
    BY <1>1
    DEF Store, Discard, FetchFails, EndRefresh, Pending, IInv, SingleFlight
  <1>4. \A d \in Callers : refresh'[d] = IF d = c THEN r ELSE "none"
    BY <1>1, <1>3 DEF EndRefresh, IInv, TypeOK, SingleFlight
  <1>5. /\ keys' \subseteq Kids /\ fetchedAt' \in Int /\ CacheWindow'
        /\ r = "resolved" => Vouched(keys', now - FetchTimeout)
    <2>1. CASE Store(c)
      <3>1. /\ reply[c] \in Documents /\ Vouched(Usable(reply[c]), start[c])
            /\ start[c] \in Int /\ now <= start[c] + FetchTimeout
        BY <2>1 DEF Store, IInv, TypeOK, FetchWindow, Pending
      <3>2. now \in Int /\ Wall \in Int /\ Wall <= now
        BY WallReads
      <3>3. /\ Vouched(Usable(reply[c]), now - FetchTimeout)
            /\ Vouched(Usable(reply[c]), Wall - FetchTimeout)
        BY <3>1, <3>2, NodeAssumption, VouchedEarlier DEF IInv, TypeOK
      <3>. QED
        BY <1>2, <2>1, <3>1, <3>2, <3>3, UsableKids DEF Store, CacheWindow, Vouched
    <2>2. CASE UNCHANGED cacheVars /\ r # "resolved"
      BY <1>2, <2>2, StillMoment
    <2>. QED
      BY <1>1, <1>4, <2>1, <2>2 DEF Discard, FetchFails, EndRefresh, IInv, TypeOK
  <1>6. TypeOK'
    BY <1>1, <1>2, <1>5, EndpointAssumption
    DEF EndRefresh, IInv, TypeOK, RefreshStates, callVars, EndpointTypeOK
  <1>7. CallShape'
    BY <1>2 DEF IInv, CallShape, callVars
  <1>8. SingleFlight' /\ NobodyWaitsForNothing' /\ StarterWaits'
    BY <1>2, <1>3, <1>4, NodeAssumption
    DEF IInv, SingleFlight, NobodyWaitsForNothing, StarterWaits, Pending, callVars
  <1>9. FetchWindow' /\ MissWindow'
    BY <1>4 DEF FetchWindow, MissWindow, Pending
  <1>10. MicrotaskWindow'
    <2>1. \A d \in Callers : pc'[d] # "verify" /\ pc'[d] # "ready"
      BY <1>2, <1>3 DEF MicrotasksDone, Microtasks, callVars
    <2>. QED
      BY <1>2, <1>4, <1>5, <2>1 DEF MicrotaskWindow, Vouched
  <1>. QED
    BY <1>5, <1>6, <1>7, <1>8, <1>9, <1>10 DEF IInv

\* The callback of finally: the refresh is forgotten and its callers go on.
LEMMA FinallyIInv ==
    ASSUME IInv, NEW c \in Callers, Finally(c)
    PROVE  IInv'
  <1>1. /\ EndpointTypeOK' /\ CacheWindow'
        /\ keys' = keys /\ keys' \subseteq Kids
        /\ fetchedAt' = fetchedAt /\ fetchedAt' \in Int
        /\ now' = now /\ \A k : LastIn(k)' = LastIn(k) /\ LastOut(k)' = LastOut(k)
    BY StillMoment DEF Finally, cacheVars
  <1>2. TypeOK'
    BY <1>1
    DEF Finally, IInv, TypeOK, RefreshStates, PCs, Microtasks, EndpointTypeOK
  <1>3. inflight = c /\ inflight' = Nobody /\ \A d \in Callers : refresh'[d] = "none"
    BY DEF Finally, Settled, IInv, TypeOK, SingleFlight
  \* Every call that waits was waiting for this refresh.
  <1>4. \A d \in Callers :
            pc'[d] = IF pc[d] = "await"
                     THEN IF refresh[c] = "resolved" THEN "ready" ELSE "thrown"
                     ELSE pc[d]
    BY <1>3 DEF Finally, IInv, NobodyWaitsForNothing
  <1>5. CallShape'
    BY <1>1, <1>4 DEF Finally, IInv, TypeOK, CallShape
  <1>6. SingleFlight' /\ NobodyWaitsForNothing' /\ StarterWaits'
    BY <1>3, <1>4, NodeAssumption
    DEF SingleFlight, NobodyWaitsForNothing, StarterWaits
  <1>7. FetchWindow' /\ MissWindow'
    BY <1>3 DEF FetchWindow, MissWindow, Pending
  <1>8. MicrotaskWindow'
    BY <1>1, <1>3, <1>4 DEF Finally, IInv, MicrotaskWindow, Vouched
  <1>. QED
    BY <1>1, <1>2, <1>5, <1>6, <1>7, <1>8 DEF IInv

\* A call goes on after its await.
LEMMA ResumeIInv ==
    ASSUME IInv, NEW c \in Callers, Resume(c)
    PROVE  IInv'
  <1>1. PICK p \in Microtasks, o \in Outcomes : Return(c, p, o)
    BY DEF Resume, Verify, Lookup, Throw, Refuse, Microtasks, Outcomes, Verdict
  <1>2. /\ EndpointTypeOK' /\ CacheWindow'
        /\ keys' = keys /\ keys' \subseteq Kids
        /\ fetchedAt' = fetchedAt /\ fetchedAt' \in Int
        /\ now' = now /\ \A k : LastIn(k)' = LastIn(k) /\ LastOut(k)' = LastOut(k)
    BY <1>1, StillMoment DEF Return, cacheVars
  <1>3. pc[c] # "await" /\ pc[c] # "idle" /\ refresh[c] = "none"
    BY <1>1 DEF Return, Microtasks, IInv, StarterWaits
  <1>4. TypeOK'
    BY <1>1, <1>2, EndpointAssumption
    DEF Return, refreshVars, IInv, TypeOK, PCs, EndpointTypeOK
  <1>5. CallShape'
    BY <1>1, <1>2 DEF Return, IInv, TypeOK, CallShape, EndpointTypeOK
  <1>6. SingleFlight' /\ NobodyWaitsForNothing' /\ StarterWaits'
    BY <1>1, <1>3
    DEF Return, refreshVars, IInv, TypeOK, SingleFlight, NobodyWaitsForNothing,
        StarterWaits
  <1>7. FetchWindow' /\ MissWindow' /\ MicrotaskWindow'
    BY <1>1, <1>2, <1>3
    DEF Return, refreshVars, IInv, TypeOK, FetchWindow, MissWindow,
        MicrotaskWindow, Pending, Vouched
  <1>. QED
    BY <1>2, <1>4, <1>5, <1>6, <1>7 DEF IInv

\* Time passes when no microtask is waiting.
LEMMA TickIInv ==
    ASSUME IInv, Tick
    PROVE  IInv'
  <1>1. EndpointStep /\ UNCHANGED <<cacheVars, refreshVars, callVars>>
    BY DEF Tick, EndpointStep
  <1>2. EndpointTypeOK' /\ CacheWindow' /\ now \in Nat /\ now' = now + 1
    BY <1>1, CacheKept DEF Tick, Advance, IInv, TypeOK, EndpointTypeOK
  <1>3. TypeOK'
    BY <1>1, <1>2 DEF IInv, TypeOK, cacheVars, refreshVars, callVars
  <1>4. CallShape'
    BY <1>1, <1>2, EndpointAssumption DEF IInv, TypeOK, CallShape, callVars
  <1>5. SingleFlight' /\ NobodyWaitsForNothing' /\ StarterWaits'
    BY <1>1
    DEF IInv, SingleFlight, NobodyWaitsForNothing, StarterWaits, refreshVars,
        callVars
  <1>6. FetchWindow'
    BY <1>1, <1>2, RepliesKept, NodeAssumption
    DEF Tick, IInv, TypeOK, FetchWindow, Pending, Vouched, refreshVars
  <1>7. MissWindow'
    BY <1>1, <1>2, NodeAssumption
    DEF IInv, TypeOK, MissWindow, Pending, cacheVars, refreshVars, callVars
  <1>8. MicrotaskWindow'
    BY <1>1
    DEF Tick, MicrotasksDone, Microtasks, Settled, MicrotaskWindow, refreshVars,
        callVars
  <1>. QED
    BY <1>2, <1>3, <1>4, <1>5, <1>6, <1>7, <1>8 DEF IInv

\* The invariant is inductive: every step keeps it.
LEMMA StepIInv == IInv /\ [Next]_vars => IInv'
  <1>. SUFFICES ASSUME IInv, [Next]_vars PROVE IInv'
    OBVIOUS
  <1>1. CASE ClockBack
    <2>1. /\ EndpointStep /\ UNCHANGED <<cacheVars, refreshVars, callVars>>
          /\ now' = now /\ \A k : LastIn(k)' = LastIn(k) /\ LastOut(k)' = LastOut(k)
      BY <1>1 DEF ClockBack, SetClockBack, EndpointStep, LastIn, LastOut
    <2>2. TypeOK' /\ CacheWindow'
      BY <2>1, CacheKept DEF IInv, TypeOK, refreshVars, callVars
    <2>3. /\ CallShape' /\ SingleFlight' /\ NobodyWaitsForNothing' /\ StarterWaits'
          /\ MissWindow'
      BY <2>1
      DEF IInv, CallShape, SingleFlight, NobodyWaitsForNothing, StarterWaits,
          MissWindow, Pending, cacheVars, refreshVars, callVars
    <2>4. FetchWindow' /\ MicrotaskWindow'
      BY <2>1
      DEF IInv, FetchWindow, MicrotaskWindow, Pending, Vouched, cacheVars,
          refreshVars, callVars
    <2>. QED
      BY <2>2, <2>3, <2>4 DEF IInv
  <1>2. CASE UNCHANGED vars
    <2>1. /\ UNCHANGED <<endpointVars, cacheVars, refreshVars, callVars>>
      BY <1>2 DEF vars
    <2>2. /\ EndpointTypeOK' /\ CacheWindow' /\ now' = now
          /\ \A k : LastIn(k)' = LastIn(k) /\ LastOut(k)' = LastOut(k)
      BY <2>1, StillMoment
    <2>. QED
      BY <2>1, <2>2
      DEF IInv, TypeOK, CallShape, SingleFlight, NobodyWaitsForNothing,
          StarterWaits, FetchWindow, MissWindow, MicrotaskWindow, Pending, Vouched,
          cacheVars, refreshVars, callVars
  <1>. QED
    BY <1>1, <1>2, CallIInv, ServeIInv, EndRefreshIInv, FinallyIInv, ResumeIInv,
       TickIInv DEF Next

\* However the calls and the refreshes of verify.ts meet, the invariant holds.
THEOREM Invariance == Spec => []IInv
  BY InitIInv, StepIInv, PTL DEF Spec

\* The types of the verifier's state.
THEOREM TypeCorrect == Spec => []TypeOK
  <1>1. IInv => TypeOK
    BY DEF IInv
  <1>. QED
    BY <1>1, Invariance, PTL

\* sdk-node verify.ts keyForKid: this.inflight is the one refresh under way,
\* never a second one and never one that is over.
THEOREM OneFlight == Spec => []SingleFlight
  <1>1. IInv => SingleFlight
    BY DEF IInv
  <1>. QED
    BY <1>1, Invariance, PTL

\* sdk-node verify.ts keyForKid: whoever awaits a refresh awaits the one under
\* way, so that the callback of finally resumes them all.
THEOREM WaitersAreServed == Spec => []NobodyWaitsForNothing
  <1>1. IInv => NobodyWaitsForNothing
    BY DEF IInv
  <1>. QED
    BY <1>1, Invariance, PTL

\* sdk-node verify.ts refresh: the cache holds what the server published at
\* most FetchTimeout before fetchedAt, on whichever clock.
THEOREM CacheProvenance == Spec => []CacheVouched
  <1>1. IInv => CacheVouched
    <2>. SUFFICES ASSUME IInv, keys # {}, NEW k \in Kids
                  PROVE  IF k \in keys THEN fetchedAt <= LastIn(k) + FetchTimeout
                                       ELSE fetchedAt <= LastOut(k) + FetchTimeout
      BY DEF CacheVouched
    <2>1. LastIn(k) \in Int /\ LastOut(k) \in Int
      BY Sightings DEF IInv, TypeOK
    <2>. QED
      BY <2>1, NodeAssumption DEF IInv, TypeOK, CacheWindow, Vouched
  <1>. QED
    BY <1>1, Invariance, PTL

\* sdk-node verify.ts: "Coalesce concurrent misses onto a single fetch".  No
\* refresh is pending for a key that the cache holds fresh.
THEOREM MissesCoalesce == Spec => []NoRedundantFetch
  <1>1. IInv => NoRedundantFetch
    <2>. SUFFICES ASSUME IInv, NEW c \in Callers, Pending(c), tok[c].kid \in keys
                  PROVE  fetchedAt + TTL <= Wall + MaxBack
      BY DEF NoRedundantFetch
    <2>. QED
      BY WallReads, NodeAssumption, EndpointAssumption DEF IInv, TypeOK, MissWindow
  <1>. QED
    BY <1>1, Invariance, PTL

-----------------------------------------------------------------------------
\* sdk-node verify.ts verify, for every token and every reading w of the clock:
\* after a good header, the code's checks are the documented ones.
THEOREM VerdictIsDocumented ==
    ASSUME NEW x \in Tokens, NEW w \in Int, HeaderOK(x)
    PROVE  x.signed /\ ClaimsOK(x, w) <=> Acceptable(x, w)
  <1>1. TokenShape(x) /\ Skew \in Nat
    BY TokenAssumption
  <1>. QED
    BY <1>1 DEF TokenShape, HeaderOK, ClaimsOK, Acceptable, Missing

\* The same definitions, seen through the instance of VerifierPromise.
LEMMA SameView ==
    /\ \A x, w : Promise!Acceptable(x, w) <=> Acceptable(x, w)
    /\ \A k : Promise!LastIn(k) = LastIn(k) /\ Promise!LastOut(k) = LastOut(k)
    /\ Promise!Wall = Wall
  BY DEF Promise!Acceptable, Acceptable, Promise!Missing, Missing, Promise!NoKid,
         NoKid, Promise!NoIss, NoIss, Promise!LastIn, LastIn, Promise!LastOut,
         LastOut, Promise!Usable, Usable, Promise!Wall, Wall

\* The refinement, at first: nothing has been asked of the promise.
LEMMA InitImplements == Init => Promise!PromiseInit
  BY DEF Init, EndpointInit, Promise!PromiseInit, Promise!EndpointInit,
         Promise!CallsInit

\* The verdict on a token whose key was sighted recently is one the promise
\* allows.
LEMMA VerdictAllowed ==
    ASSUME IInv, NEW c \in Callers, tok[c] \in Tokens, HeaderOK(tok[c]),
           now < LastIn(tok[c].kid) + TTL + FetchTimeout + MaxBack
    PROVE  Promise!Allowed(c, Verdict(tok[c]))
  <1>1. tok[c].kid \in Kids
    BY TokenAssumption DEF TokenShape, HeaderOK
  <1>2. now < LastIn(tok[c].kid) + (TTL + FetchTimeout + MaxBack)
    BY <1>1, Sightings, NodeAssumption, EndpointAssumption
    DEF IInv, TypeOK, EndpointTypeOK
  <1>3. tok[c].signed /\ ClaimsOK(tok[c], Wall) <=> Acceptable(tok[c], Wall)
    BY WallReads, VerdictIsDocumented
  <1>4. CASE Acceptable(tok[c], Wall)
    BY <1>2, <1>3, <1>4, SameView
    DEF Verdict, Promise!Allowed, Promise!MayAccept
  <1>5. CASE ~Acceptable(tok[c], Wall)
    BY <1>3, <1>5, SameView DEF Verdict, Promise!Allowed, Promise!MayRefuse
  <1>. QED
    BY <1>4, <1>5

\* Whatever a call resumes with, the promise allows.  After the await the kid
\* is looked up in what the refresh has just brought, of any age that the cache
\* may have: no older than FetchTimeout.
LEMMA ResumeAllowed ==
    ASSUME IInv, NEW c \in Callers, Resume(c)
    PROVE  \E o \in Outcomes, p \in Microtasks :
                Return(c, p, o) /\ Promise!Allowed(c, o)
  <1>1. CASE Verify(c)
    <2>1. /\ pc[c] = "verify" /\ tok[c] \in Tokens /\ HeaderOK(tok[c])
          /\ now < LastIn(tok[c].kid) + TTL + FetchTimeout + MaxBack
      BY <1>1
      DEF Verify, Return, IInv, TypeOK, CallShape, MicrotaskWindow
    <2>. QED
      BY <1>1, <2>1, VerdictAllowed, VerdictIsOutcome
      DEF Verify, Outcomes, Microtasks
  <1>2. CASE Lookup(c)
    <2>1. /\ tok[c] \in Tokens /\ HeaderOK(tok[c]) /\ asked[c] \in Nat
          /\ asked[c] <= now /\ now \in Nat /\ Vouched(keys, now - FetchTimeout)
      BY <1>2
      DEF Lookup, Return, IInv, TypeOK, CallShape, MicrotaskWindow, EndpointTypeOK
    <2>2. tok[c].kid \in Kids /\ tok[c].kid # NoKid
      BY <2>1, TokenAssumption DEF TokenShape, HeaderOK
    <2>3. LastIn(tok[c].kid) \in Int /\ LastOut(tok[c].kid) \in Int
      BY <2>2, Sightings DEF IInv, TypeOK
    <2>4. CASE tok[c].kid \in keys
      <3>1. now < LastIn(tok[c].kid) + TTL + FetchTimeout + MaxBack
        BY <2>1, <2>2, <2>3, <2>4, NodeAssumption, EndpointAssumption DEF Vouched
      <3>. QED
        BY <1>2, <2>1, <2>4, <3>1, VerdictAllowed, VerdictIsOutcome
        DEF Lookup, Outcomes, Microtasks
    <2>5. CASE tok[c].kid \notin keys
      <3>1. asked[c] <= LastOut(tok[c].kid) + FetchTimeout
        BY <2>1, <2>2, <2>3, <2>5, NodeAssumption DEF Vouched
      <3>2. Promise!MayBeAbsent(c)
        BY <3>1, SameView DEF Promise!MayBeAbsent
      <3>3. Promise!Allowed(c, "absent")
        BY <2>2, <3>2 DEF Promise!Allowed, Promise!NoKid, NoKid
      <3>. QED
        BY <1>2, <2>5, <3>3 DEF Lookup, Outcomes, Microtasks
    <2>. QED
      BY <2>4, <2>5
  <1>3. CASE Throw(c)
    <2>1. Promise!Allowed(c, "failed")
      BY DEF Promise!Allowed
    <2>. QED
      BY <1>3, <2>1 DEF Throw, Outcomes, Microtasks
  <1>4. CASE Refuse(c)
    <2>1. ~HeaderOK(tok[c])
      BY <1>4 DEF Refuse, Return, IInv, CallShape
    <2>2. Promise!Allowed(c, "refused")
      BY <2>1, SameView
      DEF HeaderOK, Acceptable, Promise!Allowed, Promise!MayRefuse
    <2>. QED
      BY <1>4, <2>2 DEF Refuse, Outcomes, Microtasks
  <1>. QED
    BY <1>1, <1>2, <1>3, <1>4 DEF Resume

\* The refinement of a step: every step is one that the promise allows, or
\* leaves all that the promise speaks of as it is.
LEMMA StepImplements ==
    IInv /\ [Next]_vars => [Promise!PromiseNext]_(Promise!promiseVars)
  <1>. SUFFICES ASSUME IInv, [Next]_vars
                PROVE  Promise!PromiseNext \/ UNCHANGED Promise!promiseVars
    OBVIOUS
  <1>. USE DEF Promise!promiseVars, Promise!endpointVars, Promise!callVars
  <1>1. ASSUME NEW c \in Callers, NEW x \in Tokens, Call(c, x)
        PROVE  Promise!PromiseNext
    <2>1. \E p : Enter(c, x, p)
      BY <1>1 DEF Call, CallBadHeader, CallHit, CallJoin, CallFetch
    <2>2. Promise!Ask(c, x)
      BY <2>1 DEF Enter, Promise!Ask, IInv, CallShape
    <2>. QED
      BY <2>1, <2>2 DEF Enter, endpointVars, Promise!PromiseNext
  <1>2. ASSUME NEW c \in Callers, Resume(c)
        PROVE  Promise!PromiseNext
    <2>1. PICK o \in Outcomes, p \in Microtasks :
                Return(c, p, o) /\ Promise!Allowed(c, o)
      BY <1>2, ResumeAllowed
    <2>2. tok[c] # NoToken
      BY <2>1 DEF Return, Microtasks, IInv, CallShape
    <2>3. Promise!Answer(c, o)
      BY <2>1, <2>2 DEF Return, Promise!Answer
    <2>4. o \in Promise!Outcomes /\ UNCHANGED Promise!endpointVars
      BY <2>1 DEF Return, Outcomes, Promise!Outcomes, endpointVars
    <2>. QED
      BY <2>1, <2>3, <2>4 DEF Promise!PromiseNext
  <1>3. ASSUME NEW c \in Callers,
               Serve(c) \/ Store(c) \/ Discard(c) \/ FetchFails(c) \/ Finally(c)
        PROVE  UNCHANGED Promise!promiseVars
    BY <1>3
    DEF Serve, Store, Discard, FetchFails, EndRefresh, Finally, endpointVars, callVars
  <1>4. CASE Tick
    <2>1. PICK doc \in Documents : Advance(doc)
      BY <1>4 DEF Tick
    <2>2. Promise!Advance(doc)
      BY <2>1 DEF Advance, Promise!Advance, Usable, Promise!Usable
    <2>. QED
      BY <1>4, <2>2 DEF Tick, callVars, Promise!PromiseNext
  <1>5. CASE ClockBack
    BY <1>5 DEF ClockBack, SetClockBack, callVars, Promise!SetClockBack,
                Promise!PromiseNext
  <1>6. CASE UNCHANGED vars
    BY <1>6 DEF vars, endpointVars, callVars
  <1>. QED
    BY <1>1, <1>2, <1>3, <1>4, <1>5, <1>6 DEF Next

\* The Node verifier keeps the promise: claims only for an acceptable token
\* whose key the server published less than TTL + FetchTimeout + MaxBack before;
\* no good token refused; a key called absent only if it was absent during the
\* call or FetchTimeout before it, since a call may join an older refresh.
THEOREM Implements == Spec => ImplementsPromise
  BY InitImplements, StepImplements, Invariance, PTL
  DEF Spec, ImplementsPromise, Promise!PromiseSpec
=============================================================================
