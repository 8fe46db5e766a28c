# Formal models of the ZTXBAS client SDKs

ZTXBAS authenticates users of a web application ("relying party") with a
biometric approval on their phone. The server is closed source; the repository
holds its client SDKs in Go (`sdk-go`), TypeScript for Node (`sdk-node`) and
Python (`sdk-python`), with documentation, quickstarts and deployment files. A
login is: create a challenge, poll its status until it is approved, verify the
JWT that comes with the approval against the server's JWKS.

This directory specifies the parts of the SDKs that keep state, wait or fail:
the JWKS caches of the verifiers and the race in which the Go client builds one,
the polling loops, the request pipeline with the path it signs, and the login as
the quickstarts compose it.
The three SDKs implement the same ideas with different concurrency and different
clocks; the models say what they promise in common and where they differ.

## 1. Inventory

| component | code | state | operations | hard behaviours |
| --- | --- | --- | --- | --- |
| Go verifier | `sdk-go/verify.go` | `keys`, `fetchedAt` under `mu` | `Verify`, `keyForKID`, `fetchJWKS` | fetches outside the mutex overlap and are stored in any order |
| Node verifier | `sdk-node/src/verify.ts` | `cache`, `fetchedAt`, `inflight` | `verify`, `keyForKid`, `refresh` | calls share one promise; microtask order; no timeout; wall clock |
| Python verifier | `sdk-python/ztxbas/verify.py` | `_keys`, `_fetched_at`, `_lock` | `verify`, `_key_for_kid`, `_refresh_locked` | lock held across HTTP; wall clock |
| lazy verifier | `VerifyJWT`, `verifyJwt`, `verify_jwt` | `verifier` of the client | built on first use | the field is tested, set and read again without synchronisation: several verifiers, old reads, a verifier seen before its fields |
| Go polling | `sdk-go/challenges.go` | ticker, deadline context | `PollChallenge`, `GetChallengeStatus` | `select` with two ready cases; requests not bound by the deadline |
| Node and Python polling | `client.ts`, `client.py` | deadline | `pollChallenge`, `poll_challenge` | sleep counted against a deadline; stepped clock |
| request pipeline | `client.go`, `client.ts`, `client.py` | none between calls | `do`, `decodeErr`, `_do`, `_urllib_do` | head and body fail apart; three notions of timeout |
| errors | `errors.go`, `errors.ts`, `errors.py` | none | `newAPIError`, `apiErrorFromResponse`, `api_error_from_response` | code and status looked at in different orders |
| signing | `sign.go`, `sign.ts`, `sign.py`, `client.*` | none | `signRequest`, `sign_request` | the signed path, the path on the wire and the one the server reads |
| users, origins | `users.go`, `origins.go`, methods of the clients | none | one request each | those of the pipeline |
| quickstarts | `quickstarts/*` | the step they are at, the challenge | origin, user, challenge, poll | cut off anywhere and run again; requests that arrive after the program has given up; prompts of earlier runs |
| server (external) | `docs/`, `api/openapi.yaml` | JWKS document, challenges | rotation, approval, denial, expiry, sweep | happens at any moment |
| deployment | `deploy/` | none | configuration | none in this code |

Interactions: a poll calls the pipeline once per round and, on approval, the
verifier of its client; a verifier calls the JWKS endpoint with an HTTP client
of its own (Go shares the client's, Node shares `fetch`, Python passes the
timeout on). The client holds its verifier in a field that is filled on first
use. The only state shared between callers is that field and the verifier's
cache; the server's state is shared by everyone.

What makes each part correct:

- *verifier*: claims only for an acceptable token whose key the server still
  published not long ago; no good token refused; a key called absent only on
  recent evidence; the cache holds what one published document held; one bad
  refresh does not spoil the cache; calls return; fetches are not wasted.
- *polling*: the result is true; a timeout is neither early nor given when the
  decision was there to be seen; the loop ends, and ends before the server
  forgets the challenge.
- *lazy verifier*: the promise of one verifier holds whichever verifiers a
  goroutine gets; the race is over some time; it costs one verifier per goroutine.
- *signing*: the path that is signed is the one the server computes.
- *login*: one prompt on the phone for one run; only an approval of that prompt
  authenticates; after any failure it is enough to run the program again.
- *pipeline*: an error is not taken for a success; the documented errors map to
  the same classes in the three SDKs; the status survives a bad body; a call ends.

## 2. Modules

| module | models | |
| --- | --- | --- |
| `JwksEndpoint` | the published JWKS document, rotation, true time and the host's wall clock | external |
| `Jwt` | tokens, and the verdict the documentation asks for | |
| `VerifierPromise` | abstract: what a verifier promises its callers | abstract |
| `GoVerifier`, `PyVerifier`, `NodeVerifier` | the verifiers; each implements `VerifierPromise` | |
| `MCGoVerifier`, `MCPyVerifier`, `MCNodeVerifier` | their instances for TLC | |
| `Challenge` | one challenge on the server | external |
| `PollPromise` | abstract: what polling promises its caller | abstract |
| `GoPoll` | `PollChallenge` of Go | |
| `LoopPoll` | `pollChallenge` of Node and `poll_challenge` of Python | |
| `RequestPipeline` | one request through each SDK; EXTENDS `Signing` | |
| `Signing` | operators: the path that is signed, sent and read | |
| `LazyClient` | `VerifyJWT` of Go's `Client`, over one `GoVerifier` per builder | |
| `MCLazyClient` | its instance for TLC | |
| `Quickstart` | the quickstart program, several of them, against one server | |
| `JwksEndpointProofs` | lemmas: what a cache is vouched for by the server's history | proofs |
| `GoVerifierProofs` | theorems about `GoVerifier`, and about `LazyClient`, seen as `Lazy` | proofs |
| `PyVerifierProofs`, `NodeVerifierProofs` | theorems about the other verifiers | proofs |
| `GoPollProofs`, `LoopPollProofs` | theorems about the polls | proofs |
| `RequestPipelineProofs`, `QuickstartProofs` | theorems about the pipeline with its signed paths, and the login | proofs |

`VerifierPromise` EXTENDS the endpoint, so that "what the server published when"
is part of the promise; a verifier module EXTENDS the same endpoint and adds the
cache and the calls. `Implements...` properties instantiate the promise with the
verifier's own bounds. The poll modules are built in the same way on `Challenge`.

### 2.1 The endpoint and the tokens

A document is a set of entries `[kid, kind]`: a usable P-256 key, a key of
another type (skipped by the SDKs) or a P-256 entry whose coordinates do not
decode (which fails the whole document in all three). A kid names one key for
ever, so a cache is the set of kids it holds. `since[k]` remembers when `k` last
joined or left the document; `LastIn` and `LastOut` are what "published
recently" and "absent recently" mean. Time is discrete; the document changes
only when time advances. The host's wall clock is `now - back` and may be set
back by up to `MaxBack` in all; it is not set forward (a step forward only makes
cache entries older, and turns the verdict on exp as time does).

A token is the outcome of its checks up to the key: whether it parses, `alg`,
`kid`, whether the signature verifies under the key its kid names, `exp`, `iat`,
`iss`. `exp = 0` means "absent" to Go and Node but "long past" to Python
(`verify.py:175`); the documentation does not say, and the promise allows both.

### 2.2 The verifiers

*Go.* A call is `lookup -> fetch -> reply -> idle`. `CacheHit` and `CacheMiss`
are the first critical section of `keyForKID` and what follows it without
waiting, `Store` the second with the decoding before it and the verdict after
it. Between them no lock is held. `Serve` is the server answering: the document
is the one of that moment, and may be old when it is stored. `FetchFails` is
any transport error, bad status or cancelled context. `Tick` cannot pass the
moment when `http.Client.Timeout` ends a fetch.

*Python.* The same, but `CacheMiss` is only possible with the lock free and takes
it, and `Store`, `Discard`, `FetchFails` release it: a thread that found the lock
taken looks at the cache again when it gets it. `fetchedAt` is a wall-clock
reading. `FetchTimeout` is an assumption here: the socket timeout of urllib is
one per read (`verify.py:113`), so a JWKS document that is trickled keeps its fetch,
and with it the lock, for as long as the server likes, and every later miss waits
behind it. The safety properties are to be read with `FetchTimeout` as the longest a
fetch took; liveness is conditional on fetches that end.

*Node.* Code between two awaits is one step. A call that misses joins `inflight`
or starts a refresh (`CallJoin`, `CallFetch`). When the refresh settles,
`Finally` is the callback of `finally` with the settling of the derived promise
that callers await; they resume as microtasks (`Resume`). Network events and
time wait until the microtasks are done (`MicrotasksDone`). After the await the
kid is looked up with no regard to age (`Lookup`), as in the code.

### 2.3 The polls

`Challenge` is one challenge, created at time 0: pending, then approved or denied
before `Lifetime` or expired after it, then removed by the sweeper (a 404). It is
sticky: `decision` and `decidedAt` remember it when it is gone.

`GoPoll`: `Begin` starts the deadline and the ticker and sends the first request;
`Answer` is the server reading its status, `reply` on its way; then `Refused`,
`Approved`, `Gone` or `Pending`. In `select`, `TakeTick` and `TakeDeadline` are
both enabled when both are ready. The ticker keeps one tick (`ticks` is 0 or 1)
and runs on while the request is under way. `CtxDone` is the end of the caller's
context, which fails the request under way. `verify` abstracts `VerifyJWT`:
`VerifierPromise` says what it may return.

`LoopPoll`: `Late` is the comparison with the deadline, `Sleep` and `Wake` the
sleep, which may overrun by `Lag`. `Clock` is true time plus an offset in
`0..MaxStep`; Node reads `Date.now()`, which may be stepped, Python
`time.monotonic()`, which is `MaxStep = 0`. The instance with `MaxStep = 1`
contains every behaviour of the one with 0. `RequestTimeout`, as a bound on a whole
request, is an assumption: Node clears its abort timer when the head has come
(`client.ts:192`), Python has a timeout per read (`client.py:45`), and `RequestPipeline`
shows both. `EndsInTime`, `TimesOutBeforeExpiry` and `ImplementsPollPromise` hold with
it as the longest a request took; `AskingEndsIfRequestsEnd` takes the end of requests as
its hypothesis instead.

`PollPromise` has one poll at a time, with a result that must be *allowed*: claims
only if the user approved; denied and expired only if so; a timeout only from
`Timeout - Early` on and only if the challenge was undecided, or decided within
`MissWindow`.

### 2.4 The pipeline

`RequestPipeline` sends one request at a time, of any SDK. The head of an answer
(`Head`) arrives apart from its body, which arrives whole (`Body`), never
(`BodyCut`) or bit by bit (`Trickle`). `GoEnds`, `NodeEnds`, `PyDecodes` and
`PyReads` are what the code makes of status and body; `MayWait` is each SDK's
timeout: in Go over the whole call; in Node until the head has come, after which
only the platform's limit on silence is left (`BodyIdle`); in Python per read.
An outcome `foreign` is an exception that is not a `ZtxbasError`. `Unsent` is a
call that fails before there is a request (Go only). The code knows 204, errors from
400 on, and everything else, which it takes for a success (`GoSucceeds`, and the last
arms of `NodeEnds` and `PyDecodes`); the status 300 stands for what is below 400 and
not in 2xx and which the HTTP clients do not follow but hand on.

`target` says what the path of the call is made of: an id that needs encoding or
one that does not, a base URL with a path or without. `Signing` computes from it
what the code does: `MethodPath` (the method encodes the id), `Wire` (in Go the
URL encodes it again), `Signed` (Go signs the decoded path with the prefix, Node
and Python the path of the method without it), and `PathRead`, the four ways in
which a server behind a proxy may come by its path. A path is a record, not a
string: its id, how often the id is encoded, whether the prefix is there.

### 2.5 The lazy verifier

In `LazyClient` a goroutine finds `c.verifier` nil (`FindsNil`), builds and stores a
Verifier (`Build`), reads the field again and enters `Verify` of what it has read
(`Enter`). A Verifier is named after its builder and has a `cache` of its own; the
steps inside it are those of `V(v)`, an instance of `GoVerifier` with that cache, so
nothing of the verifier is modelled twice.

The race is undefined in Go's memory model only in the values it may show, and the
model has those: `stores` is the one order of the stores to the field, `seen` the
last store a goroutine is known to have seen, and a read returns any store from
there on (`Readable`); it may be nil as long as none is known. A goroutine may also
see the pointer before the fields behind it. A lock of the Verifier's mutex orders
it after the builder's unlock; before that (`v \notin whole`) it may see `v.hc` still
nil, and a miss then panics in `Client.Do` with the mutex free (`Panics`). What follows
a panic is a program that recovers from it, as `net/http` does around its handlers;
without that the process ends, and there are no further calls to speak of. (The mutex is usable
when it is zero, the map reads as empty, and the first lookup is a miss.) `StoresArrive`
is the moment when everything stored so far is seen by everyone. The wall clock is
not set back here (Go measures the age of a cache on its monotonic clock).

In Python the test and the store are in the same order and every read sees the last
store, a behaviour `LazyClient` contains as far as the field is concerned; in Node nothing
is awaited between them.

### 2.6 The quickstart

`Quickstart` has programs that register the origin and the user, create a challenge
and poll it; one server with one user and one origin; and what goes wrong: an answer
or a request lost, an error of the server or of a proxy (`other`), a request that is
handled after the program has given it up (`late`, `Straggler`), another operator's
program, the removal of the user or origin, the rotation of the secret. A run ends
with the first error other than the conflict of `RegisterUser` and the operator starts
the next. `prompt` holds the challenges that are on the phone or can still be asked
for; `by` says whose run asked for it and is `None` when that run is over. The result of a poll
is one that `PollPromise` allows, given at once. `calm`, once set, stays: nothing is
lost, removed, rotated or denied any more.

## 3. Runs

| run | question | states |
| --- | --- | --- |
| `go_verifier` | two goroutines, rotating keys: provenance of the cache, the promise, termination | 233 000 |
| `py_verifier` | two threads and the lock: the same, no redundant fetch, release of the lock | 397 000 |
| `node_verifier` | two calls and one promise: the same, single flight | 116 000 |
| `go_fetches_serialised` | *violated*: the README's "JWKS fetches are serialised" | |
| `node_rotation_transparent` | *violated*: the documentation's "rotation is transparent" | |
| `go_poll` | true results, no missed decision, every poll returns | 76 000 |
| `go_poll_bound` | *violated*: "PollTimeout is the default upper bound" | |
| `loop_poll` | true results, the end in time and before the expiry | 37 000 |
| `request_pipeline` | errors, bodies, timeouts and signed paths of the three SDKs | 12 000 |
| `lazy_client` | two goroutines that race to build the client's verifier: cost, convergence, the promise | 718 000 |
| `quickstart` | two programs, one user: prompts, order, own claims, recovery | 444 000 |
| `lazy_client_panics` | *violated*: "safe for concurrent use" and "Race is benign", taken as no panic | |

What they show:

- **`CacheVouched`**: whichever fetches overlap and whichever order they are stored
  in, every key in the cache, and every key missing from it, was so in the
  server's document within `FetchTimeout` before `fetchedAt`. A merge of
  documents instead of a replacement breaks it.
- **`ImplementsPromise`**: a withdrawn key is trusted for less than
  `TTL + FetchTimeout` in Go; `MaxBack` longer in Node and Python, whose ages are
  wall-clock differences. Evidence of absence is of the call itself in Go and
  Python; in Node it may be `FetchTimeout` older than the call.
- **`EveryCallReturns`, `CallsReturnIfFetchesEnd`, `CallsSettleIfFetchesEnd`**: nobody
  is left behind. Only Go's is unconditional, as only its timeout covers a whole fetch.
  In Node, which has no timeout, and in Python, whose timeout is per read, the
  hypothesis is that fetches end; in Python also that the lock, which gives nobody a
  turn, does not pass a thread over for ever. What is left to show is that
  every way a fetch ends lets go of the lock, or of the shared promise.
- **`NoRedundantFetch`, `SingleFlight`, `NobodyWaitsForNothing`**: the coalescing of
  misses works as the comments say in Python and Node.
- **`ImplementsPollPromise`**: in Go a timeout is never early and misses only
  decisions younger than `max(Interval, RequestTimeout) + Lag`; this is tight:
  with one less TLC finds a counterexample. In Node and Python a timeout may
  come one interval (plus clock step) early and misses only what was decided
  during the last request.
- **`EveryPollEnds`, `AskingEndsIfRequestsEnd`, `EndsInTime`, `TimesOutBeforeExpiry`**:
  polls end; in Node and Python if no request hangs for ever, which nothing in
  those SDKs prevents. Their loops are over by `PollTimeout` plus one request, one
  late wake-up and the clock step, so they see an expiry only if they were begun
  too late after the creation of the challenge, or if a request was longer than
  `RequestTimeout`.
- **`OneVerifierEach`, `Converges`, `KeepsPromiseUnlessItPanics`** of `LazyClient`: the race costs
  one verifier per goroutine at most; from some time on every call uses the one
  stored last; and on the way a call that does not panic ends as a caller of a single
  verifier is promised, although its calls may go to one verifier and then to another
  whose cache is older. A panic is a step the promise does not have; that it happens
  is what `NeverPanics` shows (`lazy_client_panics`).
- **`SignedAsRead`**: which servers agree with each SDK about the path. All do for plain
  ids and a base URL without a path. For other ids and base URLs the condition is a
  different one in Go than in Node and Python.
- **`OnePromptPerRun`, `OrderIsEnough`, `ClaimsAreOwn`**: no run puts two prompts on the
  phone, even when requests arrive late; a run is told that the user or origin is
  missing only if somebody removed it meanwhile, whoever else runs the program;
  "authenticated" is printed only after an approval of the prompt of this very run.
- **`RecoversByRerunning`**: however often runs were cut off, and at whichever point,
  no state is left from which running the program again would not succeed.
- **`SdksAgreeOnErrors`, `GoKeepsTheStatus`, `NoErrorIsASuccess`,
  `ForeignErrorsAreExplained`, `GoCallsEnd`**: the pipeline, with every combination of
  status, code and body. Documented errors are the same in the three SDKs; no 4xx or 5xx
  is a success, and a value is always that of a whole body; a method without a value has a reason, which in Python may be that a
  success was cut to nothing (`resp.read()` came back empty), so that `None` does not
  show that the server sent an empty answer. Statuses between 2xx and 400 are successes
  to the code. Exceptions that are not the SDK's never come of a documented answer that
  arrived whole, nor from Go; in Node and Python they have the causes that the property lists.

Each property of a passing run has a mutant: a definition changed as a slip in the
code would change it, under which TLC finds the property violated. The mutated
definitions stand before the originals and are marked so.

### 3.1 Disagreements found

1. *Go fetches are not serialised.* `keyForKID` unlocks before it fetches
   (`verify.go:210`); `sdk-go/README.md:115-117` says that fetches are serialised
   and happen at most once per TTL.
2. *Rotation is not transparent in Node.* A call that joins a refresh sent before
   the rotation is told that the new kid is absent (`verify.ts:126`), and does not
   refetch; `docs/concepts/jwt-verification.md:107-108` says it is.
3. *`PollTimeout` is not an upper bound in Go.* `GetChallengeStatus` gets `ctx`, not
   `deadlineCtx` (`challenges.go:103`), and `select` may pick the tick when the
   deadline has passed; see `challenges.go:79`.
4. *The race of `VerifyJWT` is not benign.* Where processors reorder stores, a goroutine
   may find the Verifier without its HTTP client and panic, against "safe for concurrent
   use" (`client.go:38`, `sdk-go/README.md:114`) and "Race is benign" (`verify.go:114`).

Errors, whose exact extent `ForeignErrorsAreExplained` and `NoErrorIsASuccess` state:

- In Node `resp.text()` after a failed `resp.json()` (`client.ts:204`) finds the body used
  up and throws a `TypeError`, so that an error page that is not JSON loses its status;
  `errors.ts:10` has "Base class for every SDK-thrown error".
- In Python read timeouts pass the handlers of `_urllib_do` (`client.py:44-52`) and an error
  body that is JSON but no object raises `AttributeError` (`client.py:231`); `errors.py:13`
  has "Base for every SDK-raised exception".
- A 3xx that is not followed is a success: only statuses from 400 on are errors
  (`client.py:226`, `client.ts:196`), where `sdk-python/README.md:62` and
  `sdk-node/README.md:71` say `ApiError` for "any other non-2xx". Go's code does the same
  (`client.go:146-149`); its README does not say.

A smaller one: `challenges.go:91` documents
`ErrChallengeTimeout` for the caller's deadline, the code returns `ctx.Err()`
(line 121).

Signing: `url.PathEscape` is escaped once more by `url.URL` in Go (`challenges.go:63`,
`client.go:115`), so that an id with reserved characters arrives escaped; and Go
signs `req.URL.Path`, which is decoded, where `docs/concepts/hmac-signing.md:28` has the
"URL path exactly as it will appear in the request line". Node and Python sign the
path without the prefix of a base URL that has one (`client.ts:173`,
`client.py:215`). Hence no server agrees with all three SDKs on such ids or base URLs;
`SignedAsRead` states which agree with which. The ids the server makes need no escape.

`VerifyJWT` of Go has no way to set the expected issuer, which Node
(`client.ts:158`) and Python (`client.py:201`) pass on.

Quickstarts: after a conflict they print "user already enrolled" (`quickstarts/go/main.go:66`)
though the user may only be registered. If the server keeps the user row when it could
not send the enrolment mail (`ENROLLMENT_FAILED`, `docs/api/overview.md:72`), running the
program again passes over the conflict and nobody gets the mail; the model assumes
that an error leaves no row, and `RecoversByRerunning` rests on it.

## 4. Bounds

- Verifiers: two callers are enough for overlap, reordering, joining and waiting,
  as every property speaks of one caller, a pair, or the cache. Two kids and three
  documents (before a rotation, after it with a key of another type, after it with
  a broken entry) make every branch of the decoding happen. `Start = 4`,
  `TTL = 2`, `FetchTimeout = 1`, `MaxTime = 7` (Go) or `8`: fetch, expiry of the
  cache, refetch and rotation in between all fit, and `FetchTimeout < TTL` as in
  the code (10 s, 5 min). `Start > 0` lets a key have left before the process
  starts; a cold cache (`fetchedAt = 0`) is older than the TTL as in the code.
  `MaxBack = 1` is half a TTL. `Skew = 0`; the skew is a summand of two
  comparisons. Tokens: one that expires on the way, one without times and one with
  `alg` none.
- `GoPoll`: `Interval = 2 = RequestTimeout`, `Lag = 1`: a request may be shorter
  than an interval or fill it, a tick may be waiting or not. `PollTimeout = 6`
  lets three rounds pass, `Lifetime = 8` and `LastBegin = 3` let polls end before
  and after the expiry and a second poll follow the first.
- `LoopPoll`: `PollTimeout = 5`, `Interval = 2`; `Lifetime = 9` is exactly
  `LastMoment(0)`, so that `TimesOutBeforeExpiry` is tight for a poll begun at 0.
- `LazyClient`: two goroutines, as above; one kid per document, rotating both ways, one
  token. `MaxTime = 7` is the least at which a key trusted for too long could show, as
  a withdrawal, `TTL + FetchTimeout` and a call must fit in after `Start`. `builds` saturates
  at 2, which is already one too many.
- `Quickstart`: two programs, which are enough for one to meet the other's user, origin,
  prompt or removal; two `Slots`, as a run has one prompt and an earlier run's may be
  left; one late request at a time. A slot is used again when no program holds its id,
  since ids are never used again.
- `Horizon`: time goes on for ever, but is not told apart from there on; every poll
  is over by then or in a state in which times no longer matter.
- `RequestPipeline`: `Timeout = 2`, `BodyIdle = 3`; clocks saturate at
  `BodyIdle + 1`. Statuses are one of each class the code tells apart, and 300 for
  those that are neither 2xx nor an error to it.

Deadlock is checked in every run: when the verifiers' clock has stopped at
`MaxTime`, calls still come and end.

## 5. Fairness

- Go: weak fairness of each goroutine's own steps. A runnable goroutine is
  scheduled, and a fetch may end by its timeout, so `FetchFails` is always enabled
  while one is under way. Nothing is assumed of the server.
- Python: weak fairness of a thread's own steps up to and including the lookup. None of
  the fetch, whose answer may be trickled for ever, and none of who gets the lock next:
  that fetches end, and that a thread which can take the lock again and again takes
  it, are hypotheses of `CallsReturnIfFetchesEnd`.
- Node: weak fairness of the event loop's own callbacks only.
- `GoPoll`: weak fairness of the loop and of time; strong fairness of
  `TakeDeadline`, because Go's `select` chooses uniformly among ready cases.
- `LoopPoll`: weak fairness of the end of a sleep and of time; none of the requests or of the
  verification. That requests end is the hypothesis of `AskingEndsIfRequestsEnd`.
- `RequestPipeline`: time passes, and what has timed out ends.
- `LazyClient`: a goroutine in `VerifyJWT` goes on, as in `GoVerifier`; and stores arrive: a
  processor does not keep a store to itself for ever.
- `Quickstart`: programs are started and run; the user enrols and looks at the phone; the
  server sweeps and handles its requests. `Step` is under strong fairness because a
  free slot, which only the bound makes scarce, may be taken by the other program again and
  again. Nothing says that `calm` ever comes: it is the hypothesis of
  `RecoversByRerunning`.

## 6. Proofs

Checked by TLAPS, for every value of the constants that the named assumptions
admit; the bounds of section 4 play no part, but the proofs are about the models,
in which `MaxTime`, `Horizon` and `LastBegin` are arbitrary natural numbers.

The assumptions on the constants are those the modules name: durations and instants are
natural numbers, a TTL, an interval and a timeout are positive, tokens and documents have
their shape, and what stands for "none" is none of them. The one that says something of
the world is `MaxBack <= Start` in `PyVerifier`: the wall clock never reads less than the
epoch. Without it the refinement is false: a token with `iat = 0`, which the promise may
not refuse, is in the future of a clock that reads less than `-Skew`. Go and Node pass
over an `iat` of 0.

Each proof has the same shape: an inductive invariant `IInv` (`InitIInv`, `StepIInv`,
`Invariance`; `LazyInv`, `LazyInit`, `LazyStep`, `LazyInvariance` for `LazyClient`), from which the properties follow state by state, and, where there is
an abstract module, `InitImplements` and `StepImplements`. TLC has checked every
such invariant on the instances of section 3.

- **`JwksEndpointProofs`** defines `Vouched(K, t)`: every kid is in `K` only if it
  was published, and out of `K` only if it was missing, at some time not before
  `t`. It is kept by the passing of time, by rotations and by steps of the clock
  (`VouchedKept`); the document read at any moment vouches for itself at that moment.
- **`GoVerifierProofs`**: the invariant `IInv` is `TypeOK` with `CallShape` (a
  fetching call has a good header, a call began in the past), `FetchWindow` (a
  fetch was sent during the call, is not older than `FetchTimeout`, and its reply
  is vouched for from when it was sent) and `CacheWindow` (the cache is vouched
  for from `fetchedAt - FetchTimeout`). `CacheVouched` alone is not inductive: it
  says nothing of replies still on their way. From `IInv`: `TypeCorrect`,
  `CacheProvenance`, and `Implements`, where a step of a call maps to the answer
  of the promise or to a stutter. `VerdictIsDocumented` is the equivalence of the
  code's checks with the documented ones. What is known of the calls whatever cache they
  read is gathered in `Calls`, and `CallStep`, `TimePasses`, `HitAllowed` and
  `ReplyAllowed` are stated of it, so that they serve for `LazyClient` as well.
- **`LazyClient`**, in the second half of `GoVerifierProofs`, which sees it through
  `Lazy == INSTANCE LazyClient`: the goroutines make the same calls there, and only the
  cache is another, that of one of several Verifiers. `LazyInv` is `Lazy!TypeOK` with
  `Calls`, `SlotShape` and `CachesWindow`. `OneVerifierEach` is not inductive:
  `SlotShape` adds that a goroutine that has stored a Verifier is known to have seen a
  store, so that it cannot read the field as nil again, whatever old store it reads
  (`LazyOneVerifierEach`). `CachesWindow` is `CacheWindow` of every Verifier at once,
  since a goroutine that reads an old store may use any of them again: a step fills
  one at most, with a reply that is vouched for, and a new one is empty
  (`LazyCacheProvenance`). From it `VerifyStep`: whichever Verifier a call uses, it
  ends as the promise allows, or it panics, and with it `LazyKeepsPromise`. So much of
  "race is benign" (`verify.go:114`) is true. No bound on a call's staleness grows with the number of Verifiers. The theorems name the
  part of `LazyAssumption` that an instance does not bring along, that `Nobody` is
  no goroutine.
- **`PyVerifierProofs`** adds to these windows the lock (`LockGuardsFetch`, part
  of the invariant and of no run of its own) and `MissWindow`: while a fetch is under way, an entry the
  cache holds for its kid is older than the TTL in true time. `NoRedundantFetch` says
  so of the wall clock and is not inductive, since the clock may be set back during the
  fetch; the proof goes through true time, and through the lock, which keeps anybody
  else from storing meanwhile.
- **`NodeVerifierProofs`** has no lock to lean on. `SingleFlight` and
  `NobodyWaitsForNothing` are inductive only with `StarterWaits` (the call that started
  a refresh waits for it until it is forgotten). `MicrotaskWindow` carries what a
  call found across its await: between the microtasks of a moment neither the cache
  nor the time moves, so that a hit is still recent and a refresh still fresh when the
  call resumes. `Implements` rests on it: the promise is kept at `Resume`, steps after
  the cache was read.
- **`LoopPollProofs`**: a request is sent, or a sleep begun, only before a moment
  that depends on the deadline (`SentInTime`, `SleepInTime`), and `wait` measures
  the time since; a reply was true when it was given (`ReplyShape`). From it
  `PollEndsInTime`, `TimeoutBeforeExpiry` and `Implements`.
- **`GoPollProofs`**: `TickDue` (a tick that has not come during the request is due
  within the interval) and `SelectWindow` (the last answer is not older than that,
  nor than the longest wait plus the time the select has been ready) give the
  window of `Implements`.
- **`RequestPipelineProofs`**: `EndShape` ties the outcome of the last call to the answer:
  it is one of those `EndsWith` gives for what has arrived. `GoEnding`, `NodeEnding`
  and `PythonEnding` say of each SDK what that can be, and `OrderDoesNotMatter` why
  looking at the status before the code comes to the same; `ErrorsAgree`, `StatusKept`,
  `ErrorsAreNotSuccesses` and `ForeignErrorsExplained` follow. `SignedIsRead` computes with
  `DecodeEncode` what each server makes of the path; `SignaturesVerify` follows for all ids and base URLs.
  (The arms of every `CASE` there exclude each other, so that no order is assumed of them.)
- **`QuickstartProofs`**: `OnePromptPerRun` is not inductive: a request that was
  given up may still create a prompt. `RunShape` says that this one belongs to a run that
  is over and has created none, or to no run. `RegisteredShape` is the same for
  `OrderIsEnough`: what a run has registered is there, unless it was removed.
  `NewSlotIsFree` (by well-founded induction on the slots) and `HeldIsNotFree` keep a new
  challenge from taking the place of one that a program polls, which is what
  `ClaimsAreOwn` needs.

Every invariant, action property and refinement that a passing run checks is proved.
Only model-checked: everything about liveness (`EveryCallReturns`,
`CallsReturnIfFetchesEnd`, `CallsSettleIfFetchesEnd`, `EveryPollEnds`,
`AskingEndsIfRequestsEnd`, `GoCallsEnd`, `Converges`,
`RecoversByRerunning`), which the prover does not reach. Of `Converges` the proofs have
the part that is safety: a goroutine stores once at most (`LazyOneVerifierEach`), so
that the stores to the field come to an end.

## 7. Not modelled, and why

- The server, beyond what the SDKs read of it. One challenge at a time; the limit
  on pending challenges and the effects of user and origin methods are its own.
- Cryptography: a signature verifies or not, a key decodes or not.
- Of signing: the HMAC itself, timestamp, nonce and the format of the headers, which
  the SDKs send as they sign them; the body, signed as sent. Size limits of bodies.
- Of the quickstarts: time. Their context of 5 minutes, and the clocks of the polls,
  are "may fail now"; limits of the server on prompts per user are its own.
- Python's unlocked `_verifier` field as a module of its own: see section 2.5.
- Custom HTTP clients, fetchers and clocks that callers inject.
- Constructors' argument checks, logging, wording of messages, `deploy/`.

## 8. Plan

Done, in this order: verifiers (the part with the most concurrency and the most to
lose), polls, pipeline; the lazy verifier of the client, the path of signed requests, and
the login as the quickstarts compose it; proofs of every safety property and refinement
of the three verifiers, the lazy verifier, both polls, the pipeline and the login.

Left: a poll composed with a verifier in time, for a rotation between approval and
verification.
