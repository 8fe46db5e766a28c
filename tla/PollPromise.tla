---------------------------- MODULE PollPromise ----------------------------
(***************************************************************************)
(* What polling a challenge promises its caller, however the loop waits.   *)
(* GoPoll and LoopPoll implement this module, each with its own bounds.    *)
(***************************************************************************)
EXTENDS Challenge

CONSTANTS
    Timeout,     \* the polling timeout the caller is told
    Early,       \* how long before it the loop may give up
    MissWindow,  \* how recent a decision the loop may have missed
    LastBegin    \* bound: no poll begins later

VARIABLES
    polling,     \* a poll is under way
    begun,       \* when the last poll began
    result       \* how it ended

pollVars == <<polling, begun, result>>
promiseVars == <<challengeVars, pollVars>>

Results == Terminal \cup {"none", "claims", "timeout", "failed", "cancelled"}

\* Claims, a denial and an expiry are reported only if they happened; a
\* timeout is reported only about Timeout after the poll began, and only if
\* nothing had been decided by then or only just.
Allowed(r) ==
    \/ r = "claims" /\ decision = "approved"
    \/ r \in {"denied", "expired"} /\ decision = r
    \/ /\ r = "timeout"
       /\ now + Early >= begun + Timeout
       /\ decision = "pending" \/ now <= decidedAt + MissWindow
    \/ r \in {"failed", "cancelled"}

PromiseBegin ==
    /\ ~polling
    /\ now <= LastBegin
    /\ polling' = TRUE
    /\ begun' = now
    /\ result' = "none"
    /\ UNCHANGED challengeVars

PromiseEnd(r) ==
    /\ polling
    /\ Allowed(r)
    /\ polling' = FALSE
    /\ result' = r
    /\ UNCHANGED <<challengeVars, begun>>

PromiseInit ==
    /\ ChallengeInit
    /\ polling = FALSE
    /\ begun = 0
    /\ result = "none"

PromiseNext ==
    \/ PromiseBegin
    \/ \E r \in Results : PromiseEnd(r)
    \/ (Serverside \/ Elapse) /\ UNCHANGED pollVars

PromiseSpec == PromiseInit /\ [][PromiseNext]_promiseVars
=============================================================================
