----------------------------- MODULE LazyClient -----------------------------
(***************************************************************************)
(* Client.VerifyJWT of sdk-go/verify.go: the Verifier of a client is built *)
(* by the first call.  The field c.verifier is tested, set and read again  *)
(* without synchronisation, so goroutines may each build one.  Every such  *)
(* Verifier is a GoVerifier with a cache of its own.                       *)
(*                                                                         *)
(* The race has the outcomes that the Go compilers and their processors    *)
(* give it: the stores to the field have one order, a goroutine never goes *)
(* back in it, but it may read an old store; and on a processor that       *)
(* reorders stores it may see the pointer before the fields behind it.     *)
(***************************************************************************)
EXTENDS Jwt, Sequences

CONSTANTS
    Goroutines,
    NoToken, NoReply,
    TTL, FetchTimeout,
    Nobody       \* no Verifier; else a Verifier is named after its builder

ASSUME LazyAssumption ==
    /\ TTL \in Nat \ {0} /\ FetchTimeout \in Nat
    /\ NoToken \notin Tokens /\ NoReply \notin Documents
    /\ Nobody \notin Goroutines

VARIABLES
    stores,      \* the Verifiers stored in c.verifier, in that order
    seen,        \* the last store a goroutine is known to have seen
    whole,       \* the Verifiers that every goroutine sees initialised
    at,          \* where a goroutine is in VerifyJWT
    uses,        \* the Verifier whose Verify it is in
    builds,      \* how many it has built (2: or more)
    cache,       \* cache[v]: keys and fetchedAt of Verifier v
    pc, tok, asked, start, reply, out    \* as in GoVerifier

slotVars == <<stores, seen, whole, at, builds>>
callVars == <<pc, tok, asked, start, reply, out>>
vars == <<endpointVars, slotVars, uses, cache, callVars>>

V(v) == INSTANCE GoVerifier WITH
    keys <- cache[v].keys, fetchedAt <- cache[v].fetchedAt

\* Mutant: a Verifier holds the time at which its cache expires.
ColdUntil == [keys |-> {}, fetchedAt |-> now + TTL]

\* A cache that has never been filled, and one that is filled now.
Cold == [keys |-> {}, fetchedAt |-> 0]
Holding(doc) == [keys |-> Usable(doc), fetchedAt |-> now]

TypeOK ==
    /\ EndpointTypeOK
    /\ stores \in Seq(Goroutines)
    /\ seen \in [Goroutines -> 0..Len(stores)]
    /\ whole \subseteq Goroutines
    /\ at \in [Goroutines -> {"out", "build", "load"}]
    /\ uses \in [Goroutines -> Goroutines \cup {Nobody}]
    /\ \A g \in Goroutines : uses[g] = Nobody <=> pc[g] = "idle"
    /\ builds \in [Goroutines -> 0..2]
    /\ cache \in [Goroutines -> [keys : SUBSET Kids, fetchedAt : 0..now]]
    /\ pc \in [Goroutines -> {"idle", "lookup", "fetch", "reply"}]
    /\ tok \in [Goroutines -> Tokens \cup {NoToken}]
    /\ asked \in [Goroutines -> Nat] /\ start \in [Goroutines -> Nat]
    /\ reply \in [Goroutines -> Documents \cup {NoReply}]
    /\ out \in [Goroutines ->
                {"none", "accepted", "refused", "absent", "failed", "panicked"}]

Init ==
    /\ EndpointInit
    /\ stores = <<>>
    /\ seen = [g \in Goroutines |-> 0]
    /\ whole = {}
    /\ at = [g \in Goroutines |-> "out"]
    /\ uses = [g \in Goroutines |-> Nobody]
    /\ builds = [g \in Goroutines |-> 0]
    /\ cache = [v \in Goroutines |-> Cold]
    /\ pc = [g \in Goroutines |-> "idle"]
    /\ tok = [g \in Goroutines |-> NoToken]
    /\ asked = [g \in Goroutines |-> Start]
    /\ start = [g \in Goroutines |-> Start]
    /\ reply = [g \in Goroutines |-> NoReply]
    /\ out = [g \in Goroutines |-> "none"]

-----------------------------------------------------------------------------
\* Mutant: c.verifier is not tested before a Verifier is built.
FindsNilAlways(g) ==
    /\ at[g] = "out" /\ pc[g] = "idle"
    /\ builds[g] < 2
    /\ at' = [at EXCEPT ![g] = "build"]
    /\ UNCHANGED <<endpointVars, stores, seen, whole, builds, uses, cache, callVars>>

\* VerifyJWT finds c.verifier nil: there is no store yet, or none that this
\* goroutine is known to have seen.
FindsNil(g) ==
    /\ at[g] = "out" /\ pc[g] = "idle"
    /\ seen[g] = 0
    /\ at' = [at EXCEPT ![g] = "build"]
    /\ UNCHANGED <<endpointVars, stores, seen, whole, builds, uses, cache, callVars>>

\* What a store of g's new Verifier, with cache c, does to the field.
StoreVerifier(g, c) ==
    /\ at[g] = "build"
    /\ at' = [at EXCEPT ![g] = "load"]
    /\ stores' = Append(stores, g)
    /\ seen' = [seen EXCEPT ![g] = Len(stores')]
    /\ builds' = [builds EXCEPT ![g] = IF @ = 0 THEN 1 ELSE 2]
    /\ cache' = [cache EXCEPT ![g] = c]
    /\ UNCHANGED <<endpointVars, whole, uses, callVars>>

\* Mutant: a new Verifier takes over the keys of the one that is there, as if
\* it had just fetched them.
BuildSeeded(g) ==
    StoreVerifier(g, IF stores = <<>> THEN Cold
                     ELSE [cache[stores[Len(stores)]] EXCEPT !.fetchedAt = now])

\* It builds a Verifier with an empty cache and stores it, over whatever
\* another goroutine has stored since the test.
Build(g) == StoreVerifier(g, Cold)

\* Mutant: a goroutine keeps to the Verifier it has built.
ReadsOwn(g) == {j \in 1..Len(stores) : builds[g] > 0 => stores[j] = g}

\* The stores that a read of c.verifier by g may return.
Readable(g) == (IF seen[g] = 0 THEN 1 ELSE seen[g])..Len(stores)

\* c.verifier, not nil or just stored, is read again and its Verify called.
Enter(g, t) ==
    /\ at[g] \in {"out", "load"} /\ pc[g] = "idle"
    /\ at' = [at EXCEPT ![g] = "out"]
    /\ UNCHANGED <<stores, whole, builds, cache>>
    /\ \E j \in Readable(g) :
        /\ seen' = [seen EXCEPT ![g] = j]
        /\ uses' = [uses EXCEPT ![g] = stores[j]]
        /\ V(stores[j])!Call(g, t)

\* A step of Verify on g's Verifier.  Whoever locks v.mu after its builder
\* has unlocked it sees it initialised.
Verify(g) ==
    /\ pc[g] # "idle"
    /\ \E v \in {uses[g]} : \E c \in {cache[v]} \cup {Holding(d) : d \in Documents} :
        /\ cache' = [cache EXCEPT ![v] = c]
        /\ V(v)!Step(g)
        /\ uses' = [uses EXCEPT ![g] = IF pc'[g] = "idle" THEN Nobody ELSE v]
        /\ whole' = IF v = g /\ V(v)!HeaderOK(tok[g]) THEN whole \cup {v} ELSE whole
    /\ UNCHANGED <<stores, seen, at, builds>>

\* The request is sent through v.hc, which another goroutine has set and this
\* one still sees nil: Client.Do panics.  The mutex is free by then.  The steps
\* that follow are those of a program that recovers, as net/http does for its
\* handlers; any other is ended by the panic.
Panics(g) ==
    /\ pc[g] = "lookup" /\ uses[g] \notin whole \cup {g}
    /\ V(uses[g])!HeaderOK(tok[g]) /\ ~V(uses[g])!Hit(tok[g].kid)
    /\ uses' = [uses EXCEPT ![g] = Nobody]
    /\ V(uses[g])!Return(g, "panicked")
    /\ UNCHANGED <<endpointVars, slotVars, cache>>

Serve(g) ==
    /\ pc[g] # "idle"
    /\ UNCHANGED <<slotVars, uses, cache>>
    /\ V(uses[g])!Serve(g)

\* What has been stored so far has reached every processor.
StoresArrive ==
    /\ whole' = {stores[j] : j \in 1..Len(stores)}
    /\ seen' = [g \in Goroutines |-> Len(stores)]
    /\ UNCHANGED <<endpointVars, stores, at, builds, uses, cache, callVars>>

Tick ==
    /\ UNCHANGED <<slotVars, uses, cache>>
    /\ \E v \in Goroutines : V(v)!Tick

Next ==
    \/ \E g \in Goroutines :
        \/ FindsNil(g) \/ Build(g)
        \/ \E t \in Tokens : Enter(g, t)
        \/ Verify(g) \/ Panics(g)
        \/ Serve(g)
    \/ StoresArrive
    \/ Tick

\* As in GoVerifier; and a processor does not keep a store to itself for ever.
Spec ==
    /\ Init /\ [][Next]_vars
    /\ \A g \in Goroutines : WF_vars(Build(g) \/ Verify(g))
    /\ WF_vars(StoresArrive)

-----------------------------------------------------------------------------
\* However the race goes, a goroutine builds one Verifier at most, so that a
\* client costs no more cold caches than it has goroutines.
OneVerifierEach == \A g \in Goroutines : builds[g] <= 1

\* verify.go:114, "Race is benign [...] the second will discard its work": from
\* some time on every call uses one Verifier, the one stored last, and so one
\* cache.
Converges ==
    <>[](\A g \in Goroutines : pc[g] # "idle" => uses[g] = stores[Len(stores)])

\* What a caller of one Verifier is promised.
Promise == INSTANCE VerifierPromise WITH
    Callers <- Goroutines, Staleness <- TTL + FetchTimeout, AbsentLag <- 0

\* A panic is no answer the promise knows.
PanicBreaksPromise ==
    \E g \in Goroutines :
        Promise!Answer(g, "panicked") /\ UNCHANGED endpointVars

\* A caller of VerifyJWT is promised what a caller of one Verifier is, whichever
\* Verifiers its goroutine and the others have used before, except that its
\* call may panic.  The calls after a panic are promised the same again.
KeepsPromiseUnlessItPanics ==
    Promise!PromiseInit
    /\ [][Promise!PromiseNext \/ PanicBreaksPromise]_(Promise!promiseVars)

\* client.go:38, "All methods are safe for concurrent use", and verify.go:114,
\* "Race is benign": no call of VerifyJWT panics.
NeverPanics == \A g \in Goroutines : out[g] # "panicked"
=============================================================================
