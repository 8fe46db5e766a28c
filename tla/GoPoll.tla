------------------------------- MODULE GoPoll -------------------------------
(***************************************************************************)
(* sdk-go/challenges.go, PollChallenge: a ticker whose channel holds one   *)
(* tick, a deadline context derived from the caller's, and a select that   *)
(* picks at random when both are ready.  The status requests are bound by  *)
(* the caller's context and the HTTP timeout, not by the deadline context. *)
(***************************************************************************)
EXTENDS Challenge

CONSTANTS
    Interval,        \* pollTestInterval, i.e. PollInterval
    PollTimeout,
    RequestTimeout,  \* http.Client.Timeout
    Lag,             \* how late a ready goroutine may be scheduled
    LastBegin        \* bound: no poll begins later

ASSUME GoPollAssumption ==
    /\ Interval \in Nat \ {0}
    /\ {PollTimeout, RequestTimeout, Lag, LastBegin} \subseteq Nat

VARIABLES
    pc,          \* where PollChallenge is
    begun,       \* when it was entered
    ctx,         \* the caller's context: live, past its deadline, cancelled
    ticks,       \* the ticks in ticker.C, which holds one
    untilTick,   \* the time to the next tick
    reply,       \* the status on its way to the client
    wait,        \* how long the request, or the ready select, has taken
    result       \* how the last poll ended

loopVars == <<pc, begun, ctx, ticks, untilTick, reply, wait, result>>
vars == <<challengeVars, loopVars>>

PCs == {"idle", "request", "reply", "select", "verify"}
Results == Terminal \cup {"none", "claims", "timeout", "failed", "cancelled"}

TypeOK ==
    /\ ChallengeTypeOK
    /\ pc \in PCs
    /\ begun \in Nat /\ begun <= now
    /\ ctx \in {"live", "deadline", "cancelled"}
    /\ ticks \in 0..1
    /\ untilTick \in 1..Interval
    /\ reply \in Terminal \cup {"pending", "gone"}
    /\ wait \in Nat
    /\ wait <= IF pc = "select" THEN Lag ELSE RequestTimeout
    /\ result \in Results

Init ==
    /\ ChallengeInit
    /\ pc = "idle"
    /\ begun = 0
    /\ ctx = "live"
    /\ ticks = 0
    /\ untilTick = Interval
    /\ reply = "pending"
    /\ wait = 0
    /\ result = "none"

-----------------------------------------------------------------------------
InRequest == pc \in {"request", "reply"}

\* Mutant: the loop waits on the caller's context alone.
DeadlineOfCaller == ctx # "live"

\* deadlineCtx.Done(): the child of ctx is done when ctx is.
DeadlineDone == ctx # "live" \/ now >= begun + PollTimeout

SelectReady == pc = "select" /\ (ticks = 1 \/ DeadlineDone)

End(r) ==
    /\ pc' = "idle"
    /\ result' = r
    /\ wait' = 0
    /\ UNCHANGED <<challengeVars, begun, ctx, ticks, untilTick, reply>>

\* PollChallenge is entered: the deadline and the ticker start, then the
\* first request is sent.
Begin ==
    /\ pc = "idle"
    /\ now <= LastBegin
    /\ pc' = "request"
    /\ begun' = now
    /\ ctx' = "live"
    /\ ticks' = 0
    /\ untilTick' = Interval
    /\ wait' = 0
    /\ result' = "none"
    /\ UNCHANGED <<challengeVars, reply>>

\* The caller's context is cancelled or passes its own deadline.
CtxDone(c) ==
    /\ pc # "idle" /\ ctx = "live"
    /\ ctx' = c
    /\ wait' = IF pc = "select" THEN wait ELSE 0
    /\ UNCHANGED <<challengeVars, pc, begun, ticks, untilTick, reply, result>>

\* The server answers.  A request is not even sent once ctx is done.
Answer ==
    /\ pc = "request" /\ ctx = "live"
    /\ pc' = "reply"
    /\ reply' = status
    /\ UNCHANGED <<challengeVars, begun, ctx, ticks, untilTick, wait, result>>

\* GetChallengeStatus returns an error: transport, timeout, a status >= 400.
RequestFails ==
    /\ InRequest
    /\ End(IF ctx = "live" THEN "failed" ELSE "cancelled")

\* The answer is a 404.
Gone ==
    /\ pc = "reply" /\ reply = "gone"
    /\ End("failed")

\* The answer is denied or expired.
Refused ==
    /\ pc = "reply" /\ reply \in {"denied", "expired"}
    /\ End(reply)

\* The answer is approved: VerifyJWT is called.
Approved ==
    /\ pc = "reply" /\ reply = "approved"
    /\ pc' = "verify"
    /\ wait' = 0
    /\ UNCHANGED <<challengeVars, begun, ctx, ticks, untilTick, reply, result>>

\* VerifyJWT returns; see VerifierPromise.
Verified == pc = "verify" /\ End("claims")
NotVerified ==
    /\ pc = "verify"
    /\ End(IF ctx = "live" THEN "failed" ELSE "cancelled")

\* Mutant: a timer started after each answer (time.After), not a ticker.
PendingThenAfter ==
    /\ pc = "reply" /\ reply = "pending"
    /\ pc' = "select"
    /\ ticks' = 0
    /\ untilTick' = Interval
    /\ wait' = 0
    /\ UNCHANGED <<challengeVars, begun, ctx, reply, result>>

\* The answer is pending.
Pending ==
    /\ pc = "reply" /\ reply = "pending"
    /\ pc' = "select"
    /\ wait' = 0
    /\ UNCHANGED <<challengeVars, begun, ctx, ticks, untilTick, reply, result>>

\* The select takes the tick: the status is asked for again.
TakeTick ==
    /\ pc = "select" /\ ticks = 1
    /\ pc' = "request"
    /\ ticks' = 0
    /\ wait' = 0
    /\ UNCHANGED <<challengeVars, begun, ctx, untilTick, reply, result>>

\* The select takes the deadline.
TakeDeadline ==
    /\ pc = "select" /\ DeadlineDone
    /\ End(IF ctx = "live" THEN "timeout" ELSE "cancelled")

\* No request outlives its timeout or its context, no ready goroutine is
\* left waiting for longer than Lag.
MayElapse ==
    /\ SelectReady => wait < Lag
    /\ InRequest => wait < RequestTimeout /\ ctx = "live"
    /\ pc = "verify" => wait < RequestTimeout

\* Mutant: a timer, which fires once, in the place of the ticker.
TickOnce ==
    /\ MayElapse
    /\ Elapse
    /\ IF pc = "idle"
       THEN UNCHANGED <<ticks, untilTick, wait>>
       ELSE /\ ticks' = IF untilTick = 1 THEN 1 ELSE ticks
            /\ untilTick' = IF untilTick = 0 THEN 0 ELSE untilTick - 1
            /\ wait' = IF pc # "select" \/ SelectReady THEN wait + 1 ELSE wait
    /\ UNCHANGED <<pc, begun, ctx, reply, result>>

\* Time passes; the ticker sends without blocking.
Tick ==
    /\ MayElapse
    /\ Elapse
    /\ IF pc = "idle"
       THEN UNCHANGED <<ticks, untilTick, wait>>
       ELSE /\ ticks' = IF untilTick = 1 THEN 1 ELSE ticks
            /\ untilTick' = IF untilTick = 1 THEN Interval ELSE untilTick - 1
            /\ wait' = IF pc # "select" \/ SelectReady THEN wait + 1 ELSE wait
    /\ UNCHANGED <<pc, begun, ctx, reply, result>>

Server == Serverside /\ UNCHANGED loopVars

Step ==
    \/ RequestFails \/ Gone \/ Refused \/ Approved \/ Pending
    \/ Verified \/ NotVerified
    \/ TakeTick \/ TakeDeadline

Next ==
    \/ Begin
    \/ \E c \in {"deadline", "cancelled"} : CtxDone(c)
    \/ Answer
    \/ Step
    \/ Tick
    \/ Server

\* The goroutine is scheduled and time passes.  A select picks a ready case
\* at random, so that a case ready again and again is taken some time.
\* Nothing is assumed of the server or of the user.
Fairness == WF_vars(Step) /\ WF_vars(Tick) /\ SF_vars(TakeDeadline)
Spec == Init /\ [][Next]_vars /\ Fairness

-----------------------------------------------------------------------------
\* How old the last answer may be when the select ends.  The ticker runs on
\* during the request and its channel keeps a tick, so that an interval and a
\* slow request do not add up.
Round == (IF Interval > RequestTimeout THEN Interval ELSE RequestTimeout) + Lag

Promise == INSTANCE PollPromise WITH
    Timeout <- PollTimeout, Early <- 0, MissWindow <- Round,
    polling <- pc # "idle"

\* Claims come only from an approval, a denial or an expiry is reported only
\* if it happened, and a decision older than one round of the loop is never
\* answered with ErrChallengeTimeout.
ImplementsPollPromise == Promise!PromiseSpec

\* Every PollChallenge returns, whatever the server and the user do.
EveryPollEnds == pc # "idle" ~> pc = "idle"

\* challenges.go: "PollTimeout is the default upper bound on PollChallenge",
\* here with the grace of one request that was under way at that time.
BoundedByPollTimeout ==
    pc \in {"request", "reply", "select"} =>
        now <= begun + PollTimeout + RequestTimeout + Lag
=============================================================================
