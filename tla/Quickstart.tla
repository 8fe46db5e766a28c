----------------------------- MODULE Quickstart -----------------------------
(***************************************************************************)
(* quickstarts/go/main.go over the Go SDK: register the origin, register   *)
(* the user, create a challenge, poll it.  The first error ends the        *)
(* program, but for the conflict of a user who exists; the operator runs   *)
(* it again.  Several operators may run it for one user and one origin.    *)
(*                                                                         *)
(* No request is repeated.  An answer, or the request itself, may be lost  *)
(* or come too late, so the program never knows what the server has done   *)
(* of a request that failed.  The poll is taken from PollPromise: here it  *)
(* ends at once with a result that is allowed there.                       *)
(***************************************************************************)
EXTENDS Integers

CONSTANTS
    Programs,    \* where the quickstart is run
    Slots,       \* bound: the challenges the server remembers at a time
    None         \* no program; no challenge

ASSUME QuickstartAssumption ==
    /\ Slots \subseteq Nat /\ Slots # {}
    /\ None \notin Programs \cup Slots

VARIABLES
    origin,      \* whether the origin is registered
    user,        \* "none", "registered", or "enrolled" on a phone
    prompt,      \* the challenges: by whose run, how decided, whether swept
    late,        \* requests given up that may still arrive (bound: one)
    calm,        \* from now on nothing is lost, changed or denied
    pc,          \* where a program is
    mine,        \* the challenge it was told the id of
    stale,       \* the HMAC secret was rotated during its run
    removed,     \* the user or the origin was removed during its run
    puzzled,     \* it was told that one is missing, and none was removed
    asked        \* how many challenges the server has created for its run

serverVars  == <<origin, user, prompt>>
programVars == <<pc, mine, stale, removed, puzzled, asked>>
vars == <<serverVars, late, calm, programVars>>

Ops == {"origin", "user", "challenge"}
Ends == {"off", "authenticated"}      \* "off": not run yet, or log.Fatalf
Answers == {"ok", "conflict", "notFound", "origin", "unauthorized", "other", "lost"}

Prompts ==
    [by : Programs \cup {None}, swept : BOOLEAN,
     decision : {"free", "pending", "approved", "denied", "expired"}]
Free == [by |-> None, decision |-> "free", swept |-> FALSE]
FreeSlots == {c \in Slots : prompt[c] = Free}
NewSlot == CHOOSE c \in FreeSlots : \A d \in FreeSlots : c <= d

Running(p) == pc[p] \notin Ends
Polled(c) == \E p \in Programs : pc[p] = "poll" /\ mine[p] = c

TypeOK ==
    /\ origin \in BOOLEAN
    /\ user \in {"none", "registered", "enrolled"}
    /\ prompt \in [Slots -> Prompts]
    /\ late \subseteq [op : Ops, by : Programs \cup {None}]
    /\ calm \in BOOLEAN
    /\ pc \in [Programs -> Ops \cup Ends \cup {"poll"}]
    /\ mine \in [Programs -> Slots \cup {None}]
    /\ \A p \in Programs :
            /\ mine[p] # None => prompt[mine[p]].by = p
            /\ mine[p] # None <=> pc[p] \in {"poll", "authenticated"}
    /\ stale \in [Programs -> BOOLEAN] /\ removed \in [Programs -> BOOLEAN]
    /\ puzzled \in [Programs -> BOOLEAN]
    /\ asked \in [Programs -> Nat]

Init ==
    /\ origin = FALSE /\ user = "none"
    /\ prompt = [c \in Slots |-> Free]
    /\ late = {}
    /\ calm = FALSE
    /\ pc = [p \in Programs |-> "off"]
    /\ mine = [p \in Programs |-> None]
    /\ stale = [p \in Programs |-> FALSE]
    /\ removed = [p \in Programs |-> FALSE]
    /\ puzzled = [p \in Programs |-> FALSE]
    /\ asked = [p \in Programs |-> 0]

-----------------------------------------------------------------------------
\* What the server does of a request and answers to it.
RegistersOrigin(op, ans) ==
    /\ op = "origin" /\ ans = "ok"
    /\ origin' = TRUE
    /\ UNCHANGED <<user, prompt>>

RegistersUser(op, ans) ==
    /\ op = "user"
    /\ ans = IF user = "none" THEN "ok" ELSE "conflict"
    /\ user' = IF user = "none" THEN "registered" ELSE user
    /\ UNCHANGED <<origin, prompt>>

CreatesChallenge(op, by, ans) ==
    /\ op = "challenge" /\ ans = "ok"
    /\ user # "none" /\ origin /\ FreeSlots # {}
    /\ prompt' = [prompt EXCEPT
            ![NewSlot] = [by |-> by, decision |-> "pending", swept |-> FALSE]]
    /\ UNCHANGED <<origin, user>>

RefusesChallenge(op, ans) ==
    /\ op = "challenge"
    /\ \/ ans = "notFound" /\ user = "none"
       \/ ans = "origin" /\ ~origin
    /\ UNCHANGED serverVars

Handles(op, by, ans) ==
    \/ RegistersOrigin(op, ans) \/ RegistersUser(op, ans)
    \/ CreatesChallenge(op, by, ans) \/ RefusesChallenge(op, ans)

\* The count of the challenges created for the runs that are under way.
Count(by) ==
    asked' = [p \in Programs |->
                IF p = by /\ prompt' # prompt THEN asked[p] + 1 ELSE asked[p]]

-----------------------------------------------------------------------------
\* Mutant: the challenge is polled before it is created.
FollowingTooSoon(op) == IF op = "origin" THEN "user" ELSE "poll"

Following(op) ==
    CASE op = "origin"    -> "user"
      [] op = "user"      -> "challenge"
      [] op = "challenge" -> "poll"

\* Mutants: a conflict is an error like any other; every error of RegisterUser
\* is taken for the conflict.
ToleratesNothing(op, ans) == ans = "ok"
ToleratesAnything(op, ans) == ans = "ok" \/ op = "user"

\* errors.Is(err, ErrConflict), after RegisterUser only.
Tolerates(op, ans) == ans = "ok" \/ (op = "user" /\ ans = "conflict")

\* Mutant: a request without an answer is sent again.
AfterRetry(op, ans) ==
    CASE ans = "lost" -> op
      [] ans # "lost" /\ Tolerates(op, ans) -> Following(op)
      [] OTHER -> "off"

After(op, ans) == IF Tolerates(op, ans) THEN Following(op) ELSE "off"

\* Mutant: the switch on the error of the poll has no default.
EndOfPollUnlessNamed(r) == IF r \in {"denied", "expired"} THEN "off" ELSE "authenticated"

EndOfPoll(r) == IF r = "claims" THEN "authenticated" ELSE "off"

\* The program goes to the next step, or ends; it knows challenge c, if any.
GoTo(p, next, c) ==
    /\ pc' = [pc EXCEPT ![p] = next]
    /\ mine' = [mine EXCEPT ![p] = IF next = "off" THEN None ELSE c]
    /\ stale' = [stale EXCEPT ![p] = @ /\ next \notin Ends]
    /\ removed' = [removed EXCEPT ![p] = @ /\ next \notin Ends]

\* The operator starts the program, with the secret of the day.  (If a variable
\* is missing or New refuses one, it ends before it has done anything.)
Start(p) ==
    /\ ~Running(p)
    /\ GoTo(p, "origin", None)
    /\ asked' = [asked EXCEPT ![p] = 0]
    /\ prompt' = [c \in Slots |->
                    IF prompt[c].by # p THEN prompt[c]
                    ELSE IF prompt[c].swept THEN Free
                    ELSE [prompt[c] EXCEPT !.by = None]]
    /\ late' = {[r EXCEPT !.by = IF @ = p THEN None ELSE @] : r \in late}
    /\ UNCHANGED <<origin, user, calm, puzzled>>

\* A request is answered: handled, or refused for its signature, or with an
\* error of the server or of a proxy.
Answered(p) ==
    /\ pc[p] \in Ops
    /\ \E ans \in Answers \ {"lost"} :
        /\ \/ ~stale[p] /\ Handles(pc[p], p, ans)
           \/ stale[p] /\ ans = "unauthorized" /\ UNCHANGED serverVars
           \/ ~calm /\ ans = "other" /\ UNCHANGED serverVars
        /\ GoTo(p, After(pc[p], ans),
                IF pc[p] = "challenge" /\ ans = "ok" THEN NewSlot ELSE None)
        /\ puzzled' = [puzzled EXCEPT ![p] =
                @ \/ (ans \in {"notFound", "origin"} /\ ~removed[p])]
    /\ Count(p)
    /\ UNCHANGED <<late, calm>>

\* It is not, in time: the answer is lost, or the request, or ctx has ended; or
\* the request is still on its way.
Unanswered(p) ==
    /\ ~calm
    /\ pc[p] \in Ops
    /\ \/ UNCHANGED <<serverVars, late>>
       \/ /\ ~stale[p] /\ \E ans \in Answers : Handles(pc[p], p, ans)
          /\ UNCHANGED late
       \/ /\ ~stale[p] /\ late = {}
          /\ late' = {[op |-> pc[p], by |-> p]}
          /\ UNCHANGED serverVars
    /\ GoTo(p, After(pc[p], "lost"), None)
    /\ Count(p)
    /\ UNCHANGED <<calm, puzzled>>

\* A request that was given up reaches the server after all.
Straggler(r) ==
    /\ r \in late
    /\ late' = late \ {r}
    /\ \E ans \in Answers : Handles(r.op, r.by, ans)
    /\ Count(r.by)
    /\ UNCHANGED <<calm, pc, mine, stale, removed, puzzled>>

\* What PollChallenge may return of the program's challenge.
PollResult(p, r) ==
    LET c == prompt[mine[p]]
        failing == c.swept \/ stale[p]
    IN  \/ ~failing /\ r = "claims" /\ c.decision = "approved"
        \/ ~failing /\ r \in {"denied", "expired"} /\ c.decision = r
        \/ r = "failed" /\ (failing \/ ~calm)
        \/ r = "timeout" /\ ~calm

PollEnds(p) ==
    /\ pc[p] = "poll"
    /\ \E r \in {"claims", "denied", "expired", "failed", "timeout"} :
        PollResult(p, r) /\ GoTo(p, EndOfPoll(r), mine[p])
    /\ UNCHANGED <<serverVars, late, calm, puzzled, asked>>

-----------------------------------------------------------------------------
\* The user enrols a phone, with the mail that the registration has sent.
Enroll ==
    /\ user = "registered"
    /\ user' = "enrolled"
    /\ UNCHANGED <<origin, prompt, late, calm, programVars>>

\* The user approves or denies a prompt on the phone, or its time is over.
Decide(c, d) ==
    /\ prompt[c].decision = "pending"
    /\ CASE d = "approved" -> user = "enrolled"
         [] d = "denied"   -> user = "enrolled" /\ ~calm
         [] d = "expired"  -> ~calm \/ user = "none"
    /\ prompt' = [prompt EXCEPT ![c].decision = d]
    /\ UNCHANGED <<origin, user, late, calm, programVars>>

\* The sweeper forgets a challenge that is over.  The slot is used again when
\* no program holds its id, as ids are never used again.
Sweep(c) ==
    /\ prompt[c].decision \in {"approved", "denied", "expired"} /\ ~prompt[c].swept
    /\ ~(calm /\ Polled(c))
    /\ prompt' = [prompt EXCEPT ![c] =
            IF \E p \in Programs : mine[p] = c THEN [@ EXCEPT !.swept = TRUE] ELSE Free]
    /\ UNCHANGED <<origin, user, late, calm, programVars>>

\* Somebody deregisters the user or deletes the origin.
Remove ==
    /\ ~calm
    /\ \/ user # "none" /\ user' = "none" /\ UNCHANGED origin
       \/ origin /\ origin' = FALSE /\ UNCHANGED user
    /\ removed' = [p \in Programs |-> removed[p] \/ Running(p)]
    /\ UNCHANGED <<prompt, late, calm, pc, mine, stale, puzzled, asked>>

\* The HMAC secret is rotated; what was signed before is refused.  (A clock
\* that has drifted by more than 300 s looks the same to the program.)
Rotate ==
    /\ ~calm
    /\ stale' = [p \in Programs |-> Running(p)]
    /\ late' = {}
    /\ UNCHANGED <<serverVars, calm, pc, mine, removed, puzzled, asked>>

BecomeCalm ==
    /\ calm' = TRUE
    /\ UNCHANGED <<serverVars, late, programVars>>

Step(p) == Answered(p) \/ PollEnds(p)

Next ==
    \/ \E p \in Programs :
        \/ Start(p)
        \/ Answered(p) \/ Unanswered(p) \/ PollEnds(p)
    \/ \E r \in late : Straggler(r)
    \/ Enroll
    \/ \E c \in Slots :
        \/ \E d \in {"approved", "denied", "expired"} : Decide(c, d)
        \/ Sweep(c)
    \/ Remove \/ Rotate \/ BecomeCalm

\* The program runs and is run again; the server answers; the user enrols and
\* looks at the phone; the sweeper sweeps.  Nobody need ever be calm.  Fairness
\* is strong for Slots only: one that is free again and again is had in the end.
Fairness ==
    /\ \A p \in Programs : WF_vars(Start(p)) /\ SF_vars(Step(p))
    /\ WF_vars(Enroll)
    /\ \A c \in Slots :
        /\ WF_vars(Decide(c, "approved")) /\ WF_vars(Decide(c, "expired"))
        /\ WF_vars(Sweep(c))

Spec == Init /\ [][Next]_vars /\ Fairness

-----------------------------------------------------------------------------
\* docs/concepts/challenge-lifecycle.md: "Creating a challenge is not
\* idempotent."  A run puts one prompt on the phone at most, whatever was lost
\* and however late it arrives.
OnePromptPerRun == \A p \in Programs : asked[p] <= 1

\* main.go: "we just want the user row to be present so challenges succeed".
\* A run that gets as far as CreateChallenge is told that the user or the
\* origin is missing only if somebody has removed it meanwhile.
OrderIsEnough == \A p \in Programs : ~puzzled[p]

\* A program says "authenticated" only of a challenge that this very run has
\* asked for and the user has approved: approving a prompt that an earlier run
\* left on the phone authenticates nobody.
ClaimsAreOwn ==
    \A p \in Programs : pc[p] = "authenticated" =>
        /\ mine[p] # None
        /\ prompt[mine[p]].by = p
        /\ prompt[mine[p]].decision = "approved"

\* However a run was cut off, running it again is all that is needed: when
\* nothing more is lost, removed or rotated, every program authenticates the
\* user again and again.
RecoversByRerunning ==
    <>calm => \A p \in Programs : []<>(pc[p] = "authenticated")
=============================================================================
