---------------------------- MODULE GoPollProofs ----------------------------
(***************************************************************************)
(* PollChallenge of the Go client implements PollPromise for every         *)
(* interval, timeout and lag.  The point is the window of decisions it may *)
(* miss: since the ticker runs on while a request is under way and keeps   *)
(* one tick, the last answer is at most Round old when the select ends.    *)
(***************************************************************************)
EXTENDS GoPoll, TLAPS

\* The server's records fit together.
ServerShape == (status = "pending") = (decision = "pending")

\* An answer on its way was true when the server gave it, since which time
\* the server may have decided.
ReplyShape ==
    /\ pc = "reply" /\ reply \in Terminal => decision = reply
    /\ pc = "reply" /\ reply = "pending" /\ ctx = "live" =>
            decision = "pending" \/ now <= decidedAt + wait
    /\ pc = "verify" => decision = "approved"

\* A tick that has not come while the request took "wait" is still due.
TickDue ==
    InRequest /\ ctx = "live" /\ ticks = 0 => wait + untilTick <= Interval

Longest == IF Interval > RequestTimeout THEN Interval ELSE RequestTimeout

\* In the select the last answer is not older than the tick allows, and than
\* the longest wait plus the time since the select has been ready.
SelectWindow ==
    pc = "select" /\ ctx = "live" /\ decision # "pending" =>
        /\ now <= decidedAt + Longest + wait
        /\ ticks = 0 => now + untilTick <= decidedAt + Interval

IInv == TypeOK /\ ServerShape /\ ReplyShape /\ TickDue /\ SelectWindow

\* The invariant holds at first.
LEMMA InitIInv == Init => IInv
  BY GoPollAssumption, ChallengeAssumption
  DEF Init, IInv, TypeOK, ChallengeTypeOK, ChallengeInit, ServerShape, InRequest,
      ReplyShape, TickDue, SelectWindow, Terminal, PCs, Results

\* Whatever ends a poll leaves the rest of the state alone.
LEMMA EndKeeps ==
  ASSUME IInv, NEW r \in Results, End(r)
  PROVE  IInv'
  BY GoPollAssumption, ChallengeAssumption
  DEF IInv, TypeOK, ChallengeTypeOK, challengeVars, End, ServerShape, InRequest,
      ReplyShape, TickDue, SelectWindow, PCs, Results

\* Time passes: neither a tick nor an answer gets older than it may.
LEMMA TickIInv == IInv /\ Tick => IInv'
  <1>. SUFFICES ASSUME IInv, Tick PROVE IInv'
    OBVIOUS
  <1>. USE GoPollAssumption, ChallengeAssumption
  <1>1. TypeOK' /\ ServerShape'
    BY DEF Tick, MayElapse, Elapse, IInv, TypeOK, ChallengeTypeOK, ServerShape,
           InRequest, PCs
  <1>2. ReplyShape'
    BY DEF Tick, MayElapse, Elapse, IInv, TypeOK, ChallengeTypeOK, ReplyShape,
           InRequest
  <1>3. TickDue'
    BY DEF Tick, MayElapse, IInv, TypeOK, TickDue, InRequest
  <1>4. SelectWindow'
    BY DEF Tick, MayElapse, Elapse, SelectReady, IInv, TypeOK, ChallengeTypeOK,
           SelectWindow, Longest
  <1>. QED
    BY <1>1, <1>2, <1>3, <1>4 DEF IInv

\* The invariant is inductive: every step keeps it.
LEMMA StepIInv == IInv /\ [Next]_vars => IInv'
  <1>. SUFFICES ASSUME IInv, [Next]_vars PROVE IInv'
    OBVIOUS
  <1>. USE GoPollAssumption, ChallengeAssumption
  <1>. USE DEF IInv, TypeOK, ChallengeTypeOK, challengeVars, ServerShape,
               InRequest, ReplyShape, TickDue, SelectWindow, Longest
  <1>1. CASE Begin
    BY <1>1 DEF Begin, PCs, Results
  <1>2. ASSUME NEW c \in {"deadline", "cancelled"}, CtxDone(c)
        PROVE  IInv'
    BY <1>2 DEF CtxDone, PCs
  <1>3. CASE Answer
    BY <1>3 DEF Answer, PCs, Terminal
  <1>4. CASE RequestFails \/ Gone \/ Refused \/ Verified \/ NotVerified
             \/ TakeDeadline
    BY <1>4, EndKeeps
    DEF RequestFails, Gone, Refused, Verified, NotVerified, TakeDeadline,
        Results, Terminal
  <1>5. CASE Approved
    BY <1>5 DEF Approved, PCs, Terminal
  <1>6. CASE Pending
    BY <1>6 DEF Pending, PCs
  <1>7. CASE TakeTick
    BY <1>7 DEF TakeTick, PCs
  <1>8. CASE Tick
    BY <1>8, TickIInv
  <1>9. CASE Server
    <2>1. CASE Sweep
      BY <1>9, <2>1 DEF Server, Sweep, loopVars, Terminal
    <2>2. ASSUME NEW d \in Terminal, Decide(d) PROVE IInv'
      BY <1>9, <2>2 DEF Server, Decide, loopVars, Terminal
    <2>. QED
      BY <1>9, <2>1, <2>2 DEF Server, Serverside
  <1>10. CASE UNCHANGED vars
    BY <1>10 DEF vars, loopVars
  <1>. QED
    BY <1>1, <1>2, <1>3, <1>4, <1>5, <1>6, <1>7, <1>8, <1>9, <1>10
    DEF Next, Step

\* The inductive invariant holds in every reachable state of PollChallenge.
THEOREM Invariance == Spec => []IInv
  BY InitIInv, StepIInv, PTL DEF Spec

\* The types of the state of PollChallenge.
THEOREM TypeCorrect == Spec => []TypeOK
  <1>1. IInv => TypeOK
    BY DEF IInv
  <1>. QED
    BY <1>1, Invariance, PTL

-----------------------------------------------------------------------------
\* The refinement, at first: nothing has been asked of the promise.
LEMMA InitImplements == Init => Promise!PromiseInit
  BY DEF Init, Promise!PromiseInit, ChallengeInit, Promise!ChallengeInit

\* The refinement of the end of a poll: its result is one that is allowed.
LEMMA EndImplements ==
  ASSUME NEW r, End(r), pc # "idle", Promise!Allowed(r), r \in Results
  PROVE  Promise!PromiseNext
  <1>1. Promise!PromiseEnd(r)
    BY DEF End, challengeVars, Promise!PromiseEnd, Promise!challengeVars
  <1>2. r \in Promise!Results
    BY DEF Results, Terminal, Promise!Results, Promise!Terminal
  <1>. QED
    BY <1>1, <1>2 DEF Promise!PromiseNext

\* The refinement of a step: every step is one that the promise allows, or
\* leaves all that the promise speaks of as it is.
LEMMA StepImplements ==
    IInv /\ [Next]_vars => [Promise!PromiseNext]_(Promise!promiseVars)
  <1>. SUFFICES ASSUME IInv, [Next]_vars
                PROVE  Promise!PromiseNext \/ UNCHANGED Promise!promiseVars
    OBVIOUS
  <1>. USE DEF Promise!promiseVars, Promise!pollVars, Promise!challengeVars
  <1>1. CASE Begin
    <2>1. Promise!PromiseBegin
      BY <1>1 DEF Begin, challengeVars, Promise!PromiseBegin
    <2>. QED
      BY <2>1 DEF Promise!PromiseNext
  <1>2. CASE RequestFails \/ Gone \/ NotVerified
    <2>1. Promise!Allowed("failed") /\ Promise!Allowed("cancelled")
      BY DEF Promise!Allowed
    <2>. QED
      BY <1>2, <2>1, EndImplements
      DEF RequestFails, InRequest, Gone, NotVerified, Results
  <1>3. CASE Refused
    <2>1. decision = reply
      BY <1>3 DEF Refused, IInv, ReplyShape, Terminal
    <2>2. Promise!Allowed(reply)
      BY <1>3, <2>1 DEF Refused, Promise!Allowed
    <2>. QED
      BY <1>3, <2>2, EndImplements DEF Refused, Results, Terminal
  <1>4. CASE Verified
    <2>1. Promise!Allowed("claims")
      BY <1>4 DEF Verified, IInv, ReplyShape, Promise!Allowed
    <2>. QED
      BY <1>4, <2>1, EndImplements DEF Verified, Results
  <1>5. CASE TakeDeadline
    <2>1. CASE ctx = "live"
      <3>1. now + 0 >= begun + PollTimeout
        BY <1>5, <2>1, GoPollAssumption
        DEF TakeDeadline, DeadlineDone, IInv, TypeOK, ChallengeTypeOK
      <3>2. decision = "pending" \/ now <= decidedAt + Round
        BY <1>5, <2>1, GoPollAssumption
        DEF TakeDeadline, IInv, TypeOK, ChallengeTypeOK, SelectWindow, Longest,
            Round
      <3>3. Promise!Allowed("timeout")
        BY <3>1, <3>2 DEF Promise!Allowed
      <3>. QED
        BY <1>5, <2>1, <3>3, EndImplements DEF TakeDeadline, Results
    <2>2. CASE ctx # "live"
      <3>1. Promise!Allowed("cancelled")
        BY DEF Promise!Allowed
      <3>. QED
        BY <1>5, <2>2, <3>1, EndImplements DEF TakeDeadline, Results
    <2>. QED
      BY <2>1, <2>2
  <1>6. ASSUME NEW c \in {"deadline", "cancelled"}, CtxDone(c)
        PROVE  UNCHANGED Promise!promiseVars
    BY <1>6 DEF CtxDone, challengeVars
  <1>7. CASE Answer \/ Approved \/ Pending \/ TakeTick
    BY <1>7 DEF Answer, Approved, Pending, TakeTick, challengeVars
  <1>8. CASE Tick
    <2>1. Promise!Elapse /\ UNCHANGED Promise!pollVars
      BY <1>8 DEF Tick, Elapse, Promise!Elapse
    <2>. QED
      BY <2>1 DEF Promise!PromiseNext
  <1>9. CASE Server
    <2>1. Promise!Serverside
      BY <1>9 DEF Server, Serverside, Sweep, Decide, Terminal,
                  Promise!Serverside, Promise!Sweep, Promise!Decide,
                  Promise!Terminal
    <2>. QED
      BY <1>9, <2>1 DEF Server, loopVars, Promise!PromiseNext
  <1>10. CASE UNCHANGED vars
    BY <1>10 DEF vars, loopVars, challengeVars
  <1>. QED
    BY <1>1, <1>2, <1>3, <1>4, <1>5, <1>6, <1>7, <1>8, <1>9, <1>10
    DEF Next, Step

\* PollChallenge keeps the promise of polling: no outcome that did not happen,
\* no ErrChallengeTimeout before PollTimeout, none for a challenge decided more
\* than one round of the loop before.
THEOREM Implements == Spec => ImplementsPollPromise
  BY InitImplements, StepImplements, Invariance, PTL
  DEF Spec, ImplementsPollPromise, Promise!PromiseSpec
=============================================================================
