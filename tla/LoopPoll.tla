------------------------------ MODULE LoopPoll ------------------------------
(***************************************************************************)
(* pollChallenge of sdk-node/src/client.ts and poll_challenge of           *)
(* sdk-python/ztxbas/client.py: ask, compare the clock with a deadline,    *)
(* sleep, ask again.  The loops differ in the clock alone: Node reads the  *)
(* wall clock, which may be stepped by up to MaxStep while a poll runs,    *)
(* Python a monotonic one (MaxStep = 0).                                   *)
(***************************************************************************)
EXTENDS Challenge

CONSTANTS
    Interval,        \* pollIntervalMs, interval
    PollTimeout,     \* pollTimeoutMs, timeout
    RequestTimeout,  \* assumed: the longest a status request takes, see Tick
    Lag,             \* by how much a sleep may overrun
    MaxStep,         \* bound: how far the clock is stepped
    LastBegin        \* bound: no poll begins later

ASSUME LoopPollAssumption ==
    /\ Interval \in Nat \ {0} /\ PollTimeout \in Nat \ {0}
    /\ {RequestTimeout, Lag, MaxStep, LastBegin} \subseteq Nat

VARIABLES
    offset,      \* the clock the loop reads, less true time
    pc,          \* where the loop is
    begun,       \* when it was entered
    deadline,    \* by the clock it reads
    reply,       \* the status on its way to the client
    wait,        \* how long the request or the sleep has taken
    result       \* how the last poll ended

loopVars == <<pc, begun, deadline, reply, wait, result>>
vars == <<challengeVars, offset, loopVars>>

PCs == {"idle", "request", "reply", "sleep", "verify"}
Results == Terminal \cup {"none", "claims", "timeout", "failed"}

TypeOK ==
    /\ ChallengeTypeOK
    /\ offset \in 0..MaxStep
    /\ pc \in PCs
    /\ begun \in Nat /\ begun <= now
    /\ deadline \in begun + PollTimeout .. begun + PollTimeout + MaxStep
    /\ reply \in Terminal \cup {"pending", "gone"}
    /\ wait \in 0 .. IF pc = "sleep" THEN Interval + Lag ELSE RequestTimeout
    /\ result \in Results

Init ==
    /\ ChallengeInit
    /\ offset = 0
    /\ pc = "idle"
    /\ begun = 0
    /\ deadline = PollTimeout
    /\ reply = "pending"
    /\ wait = 0
    /\ result = "none"

-----------------------------------------------------------------------------
\* Date.now(), time.monotonic().
Clock == now + offset

InRequest == pc \in {"request", "reply"}

Goto(label) ==
    /\ pc' = label
    /\ wait' = 0
    /\ UNCHANGED <<challengeVars, offset, begun, deadline, reply, result>>

End(r) ==
    /\ pc' = "idle"
    /\ result' = r
    /\ wait' = 0
    /\ UNCHANGED <<challengeVars, offset, begun, deadline, reply>>

\* Mutant: a second poll keeps the deadline of the first one.
BeginWithoutDeadline ==
    /\ pc = "idle"
    /\ now <= LastBegin
    /\ pc' = "request"
    /\ begun' = now
    /\ wait' = 0
    /\ result' = "none"
    /\ UNCHANGED <<challengeVars, offset, deadline, reply>>

\* The loop is entered and the first request sent.
Begin ==
    /\ pc = "idle"
    /\ now <= LastBegin
    /\ pc' = "request"
    /\ begun' = now
    /\ deadline' = Clock + PollTimeout
    /\ wait' = 0
    /\ result' = "none"
    /\ UNCHANGED <<challengeVars, offset, reply>>

\* The server answers with the status of this moment.
Answer ==
    /\ pc = "request"
    /\ pc' = "reply"
    /\ reply' = status
    /\ UNCHANGED <<challengeVars, offset, begun, deadline, wait, result>>

\* getChallengeStatus throws: the poll ends, it does not try again.
RequestFails == InRequest /\ End("failed")

\* The answer is a 404.
Gone == pc = "reply" /\ reply = "gone" /\ End("failed")

\* The answer is denied or expired.
Refused == pc = "reply" /\ reply \in {"denied", "expired"} /\ End(reply)

\* The answer is approved: the JWT is verified, see VerifierPromise.
Approved    == pc = "reply" /\ reply = "approved" /\ Goto("verify")
Verified    == pc = "verify" /\ End("claims")
NotVerified == pc = "verify" /\ End("failed")

\* Mutants: the sleep that follows is not counted; it is counted twice.
LateAfterSleep == Clock >= deadline
LateTooSoon == Clock + Interval + Interval >= deadline

\* The next answer would come too late.
Late == Clock + Interval >= deadline

\* The answer is pending.
GiveUp == pc = "reply" /\ reply = "pending" /\ Late /\ End("timeout")
Sleep  == pc = "reply" /\ reply = "pending" /\ ~Late /\ Goto("sleep")

\* Mutant: the loop goes to sleep again instead of asking.
WakeAndSleep == pc = "sleep" /\ wait >= Interval /\ Goto("sleep")

Wake == pc = "sleep" /\ wait >= Interval /\ Goto("request")

\* Time passes.  That no request takes longer than RequestTimeout is an
\* assumption: Node's timeout ends with the head of the answer, Python's is one
\* on every read.  Of the JWKS request of a verify not even that is assumed.
Tick ==
    /\ InRequest => wait < RequestTimeout
    /\ pc = "sleep" => wait < Interval + Lag
    /\ Elapse
    /\ wait' = IF InRequest \/ pc = "sleep" THEN wait + 1 ELSE wait
    /\ UNCHANGED <<offset, pc, begun, deadline, reply, result>>

\* The clock that the loop reads is stepped (NTP, an operator).
StepClock ==
    /\ offset' \in 0..MaxStep
    /\ UNCHANGED <<challengeVars, loopVars>>

Server == Serverside /\ UNCHANGED <<offset, loopVars>>

Step ==
    \/ RequestFails \/ Gone \/ Refused \/ Approved
    \/ GiveUp \/ Sleep \/ Wake

Next ==
    \/ Begin \/ Answer \/ Step
    \/ Verified \/ NotVerified
    \/ Tick \/ StepClock \/ Server

\* A sleep ends and time passes.  That a request ever ends is not assumed, since
\* its answer may be trickled; nor is anything of the user or the verification.
Spec == Init /\ [][Next]_vars /\ WF_vars(Wake) /\ WF_vars(Tick)

-----------------------------------------------------------------------------
Promise == INSTANCE PollPromise WITH
    Timeout <- PollTimeout, Early <- Interval + MaxStep,
    MissWindow <- RequestTimeout, polling <- pc # "idle"

\* Claims come only from an approval, a denial or an expiry is reported only
\* if it happened, and a timeout is never reported more than an interval early
\* nor for a challenge decided before the last request was sent.
ImplementsPollPromise == Promise!PromiseSpec

\* The last moment a status request may be under way in a poll begun at t.
LastMoment(t) == t + PollTimeout + MaxStep + Lag + RequestTimeout

\* The loop is over by its timeout, but for one request and a late wake-up.
EndsInTime == InRequest \/ pc = "sleep" => now < LastMoment(begun)

\* The polling timeout comes before the server's expiry if the poll begins
\* soon enough after the challenge was created (challenge-lifecycle.md).
TimesOutBeforeExpiry == result = "expired" => LastMoment(begun) > Lifetime

\* If no status request hangs for ever, every poll stops asking, whatever the
\* server answers and however the clock is stepped: it returns or is left with
\* the JWT of an approval.
AskingEndsIfRequestsEnd ==
    []<>~InRequest => (pc # "idle" ~> pc \in {"idle", "verify"})
=============================================================================
