----------------------------- MODULE Challenge -----------------------------
(***************************************************************************)
(* One challenge on the ztxbas server, created at time 0, as the polling   *)
(* SDKs see it.  The server is not part of the repository: this module     *)
(* says what docs/concepts/challenge-lifecycle.md promises of it.  A       *)
(* pending challenge is approved or denied by the user, or expires; the    *)
(* three are sticky until the sweeper removes the challenge.               *)
(***************************************************************************)
EXTENDS Integers

CONSTANTS
    Lifetime,    \* the challenge TTL
    Horizon      \* bound: the clock is not told apart beyond it

ASSUME ChallengeAssumption == Lifetime \in Nat /\ Horizon \in Nat

VARIABLES
    now,         \* true time since the challenge was created
    status,      \* what GET /v1/auth/status/{id} would say
    decision,    \* the terminal status it reached, or "pending"
    decidedAt    \* when it reached it

challengeVars == <<now, status, decision, decidedAt>>

Terminal == {"approved", "denied", "expired"}

ChallengeTypeOK ==
    /\ now \in Nat
    /\ status \in Terminal \cup {"pending", "gone"}
    /\ decision \in Terminal \cup {"pending"}
    /\ decidedAt \in Nat /\ decidedAt <= now
    /\ status # "gone" => status = decision

ChallengeInit ==
    /\ now = 0
    /\ status = "pending"
    /\ decision = "pending"
    /\ decidedAt = 0

\* The user taps approve or deny in time, or the TTL elapses.
Decide(d) ==
    /\ status = "pending"
    /\ IF d = "expired" THEN now >= Lifetime ELSE now < Lifetime
    /\ status' = d
    /\ decision' = d
    /\ decidedAt' = now
    /\ UNCHANGED now

\* The sweeper removes a finished challenge; its status is then a 404.
Sweep ==
    /\ status \in Terminal
    /\ status' = "gone"
    /\ UNCHANGED <<now, decision, decidedAt>>

\* Time passes for ever, but stands for "late" from Horizon on.
Elapse ==
    /\ now' = IF now < Horizon THEN now + 1 ELSE now
    /\ UNCHANGED <<status, decision, decidedAt>>

Serverside == Sweep \/ \E d \in Terminal : Decide(d)
=============================================================================
