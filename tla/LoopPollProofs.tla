--------------------------- MODULE LoopPollProofs ---------------------------
(***************************************************************************)
(* The poll loop of the Node and Python clients, for every interval,       *)
(* timeout, lag and clock step: it ends in time, it times out before the   *)
(* server's expiry when it is begun early enough, and it implements        *)
(* PollPromise.  The argument is arithmetic: a request is sent, or a sleep *)
(* begun, only before a moment that depends on the deadline, and "wait"    *)
(* measures the time since.                                                *)
(***************************************************************************)
EXTENDS LoopPoll, TLAPS

\* The server's records fit together.
ServerShape ==
    /\ (status = "pending") = (decision = "pending")
    /\ decision = "expired" => now >= Lifetime

\* When the current request was sent, resp. the current sleep begun.
SentInTime  == InRequest => now < begun + PollTimeout + MaxStep + Lag + wait
SleepInTime == pc = "sleep" => now + Interval < begun + PollTimeout + MaxStep + wait

\* An answer on its way was true when the server gave it, since which time
\* the server may have decided.
ReplyShape ==
    /\ pc = "reply" /\ reply \in Terminal => decision = reply
    /\ pc = "reply" /\ reply = "pending" =>
            decision = "pending" \/ now <= decidedAt + wait
    /\ pc = "verify" => decision = "approved"

IInv ==
    /\ TypeOK /\ ServerShape
    /\ SentInTime /\ SleepInTime /\ ReplyShape
    /\ TimesOutBeforeExpiry

\* The invariant holds at first.
LEMMA InitIInv == Init => IInv
  BY LoopPollAssumption, ChallengeAssumption
  DEF Init, IInv, TypeOK, ChallengeTypeOK, ChallengeInit, ServerShape, InRequest,
      SentInTime, SleepInTime, ReplyShape, TimesOutBeforeExpiry, Terminal, PCs,
      Results

\* A poll whose request is under way has not passed its last moment.
LEMMA IInvEndsInTime == IInv => EndsInTime
  BY LoopPollAssumption, ChallengeAssumption
  DEF IInv, TypeOK, ChallengeTypeOK, SentInTime, SleepInTime, EndsInTime,
      LastMoment, InRequest

\* Whatever ends a poll leaves the rest of the state alone.
LEMMA EndKeeps ==
  ASSUME IInv, NEW r \in Results, End(r),
         r = "expired" => LastMoment(begun) > Lifetime
  PROVE  IInv'
  BY LoopPollAssumption, ChallengeAssumption
  DEF IInv, TypeOK, ChallengeTypeOK, challengeVars, End, ServerShape, InRequest,
      SentInTime, SleepInTime, ReplyShape, TimesOutBeforeExpiry, LastMoment,
      Terminal, PCs, Results

\* The invariant is inductive: every step keeps it.
LEMMA StepIInv == IInv /\ [Next]_vars => IInv'
  <1>. SUFFICES ASSUME IInv, [Next]_vars PROVE IInv'
    OBVIOUS
  <1>. USE LoopPollAssumption, ChallengeAssumption
  <1>1. CASE Begin
    BY <1>1
    DEF Begin, Clock, IInv, TypeOK, ChallengeTypeOK, challengeVars, ServerShape,
        InRequest, SentInTime, SleepInTime, ReplyShape, TimesOutBeforeExpiry,
        LastMoment, PCs, Results
  <1>2. CASE Answer
    BY <1>2
    DEF Answer, IInv, TypeOK, ChallengeTypeOK, challengeVars, ServerShape,
        InRequest, SentInTime, SleepInTime, ReplyShape, TimesOutBeforeExpiry,
        LastMoment, PCs, Terminal
  <1>3. CASE RequestFails \/ Gone \/ Verified \/ NotVerified \/ GiveUp
    BY <1>3, EndKeeps
    DEF RequestFails, Gone, Verified, NotVerified, GiveUp, Results
  <1>4. CASE Refused
    <2>1. reply = "expired" => LastMoment(begun) > Lifetime
      BY <1>4, IInvEndsInTime
      DEF Refused, IInv, TypeOK, ChallengeTypeOK, ReplyShape, ServerShape,
          EndsInTime, InRequest, Terminal, LastMoment
    <2>. QED
      BY <1>4, <2>1, EndKeeps DEF Refused, Results, Terminal
  <1>5. CASE Approved
    BY <1>5
    DEF Approved, Goto, IInv, TypeOK, ChallengeTypeOK, challengeVars,
        ServerShape, InRequest, SentInTime, SleepInTime, ReplyShape,
        TimesOutBeforeExpiry, LastMoment, PCs, Terminal
  <1>6. CASE Sleep
    BY <1>6
    DEF Sleep, Late, Clock, Goto, IInv, TypeOK, ChallengeTypeOK, challengeVars,
        ServerShape, InRequest, SentInTime, SleepInTime, ReplyShape,
        TimesOutBeforeExpiry, LastMoment, PCs
  <1>7. CASE Wake
    BY <1>7
    DEF Wake, Goto, IInv, TypeOK, ChallengeTypeOK, challengeVars, ServerShape,
        InRequest, SentInTime, SleepInTime, ReplyShape, TimesOutBeforeExpiry,
        LastMoment, PCs
  <1>8. CASE Tick
    BY <1>8
    DEF Tick, Elapse, IInv, TypeOK, ChallengeTypeOK, challengeVars, ServerShape,
        InRequest, SentInTime, SleepInTime, ReplyShape, TimesOutBeforeExpiry,
        LastMoment, PCs
  <1>9. CASE StepClock
    BY <1>9
    DEF StepClock, loopVars, IInv, TypeOK, ChallengeTypeOK, challengeVars,
        ServerShape, InRequest, SentInTime, SleepInTime, ReplyShape,
        TimesOutBeforeExpiry, LastMoment
  <1>10. CASE Server
    <2>1. CASE Sweep
      BY <1>10, <2>1
      DEF Server, Sweep, loopVars, IInv, TypeOK, ChallengeTypeOK, ServerShape,
          InRequest, SentInTime, SleepInTime, ReplyShape, TimesOutBeforeExpiry,
          LastMoment, Terminal
    <2>2. ASSUME NEW d \in Terminal, Decide(d) PROVE IInv'
      BY <1>10, <2>2
      DEF Server, Decide, loopVars, IInv, TypeOK, ChallengeTypeOK, ServerShape,
          InRequest, SentInTime, SleepInTime, ReplyShape, TimesOutBeforeExpiry,
          LastMoment, Terminal
    <2>. QED
      BY <1>10, <2>1, <2>2 DEF Server, Serverside
  <1>11. CASE UNCHANGED vars
    BY <1>11
    DEF vars, loopVars, challengeVars, IInv, TypeOK, ChallengeTypeOK,
        ServerShape, InRequest, SentInTime, SleepInTime, ReplyShape,
        TimesOutBeforeExpiry, LastMoment
  <1>. QED
    BY <1>1, <1>2, <1>3, <1>4, <1>5, <1>6, <1>7, <1>8, <1>9, <1>10, <1>11
    DEF Next, Step

\* The inductive invariant holds in every reachable state of either loop.
THEOREM Invariance == Spec => []IInv
  BY InitIInv, StepIInv, PTL DEF Spec

\* The types of the state of pollChallenge and poll_challenge.
THEOREM TypeCorrect == Spec => []TypeOK
  <1>1. IInv => TypeOK
    BY DEF IInv
  <1>. QED
    BY <1>1, Invariance, PTL

\* No status request is under way, and no sleep, later than the timeout, one
\* late wake-up, one clock step and one request after the poll began.
THEOREM PollEndsInTime == Spec => []EndsInTime
  BY IInvEndsInTime, Invariance, PTL

\* A poll that begins early enough reports a timeout, never the expiry.
THEOREM TimeoutBeforeExpiry == Spec => []TimesOutBeforeExpiry
  <1>1. IInv => TimesOutBeforeExpiry
    BY DEF IInv
  <1>. QED
    BY <1>1, Invariance, PTL

-----------------------------------------------------------------------------
\* The refinement, at first: nothing has been asked of the promise.
LEMMA InitImplements == Init => Promise!PromiseInit
  BY DEF Init, Promise!PromiseInit, ChallengeInit, Promise!ChallengeInit

\* The refinement of the end of a poll: its result is one that is allowed.
LEMMA EndImplements ==
  ASSUME NEW r, End(r), pc # "idle", Promise!Allowed(r), r \in Results
  PROVE  Promise!PromiseNext
  <1>1. Promise!PromiseEnd(r)
    BY DEF End, challengeVars, Promise!PromiseEnd, Promise!challengeVars
  <1>2. r \in Promise!Results
    BY DEF Results, Terminal, Promise!Results, Promise!Terminal
  <1>. QED
    BY <1>1, <1>2 DEF Promise!PromiseNext

\* The refinement of a step: every step is one that the promise allows, or
\* leaves all that the promise speaks of as it is.
LEMMA StepImplements ==
    IInv /\ [Next]_vars => [Promise!PromiseNext]_(Promise!promiseVars)
  <1>. SUFFICES ASSUME IInv, [Next]_vars
                PROVE  Promise!PromiseNext \/ UNCHANGED Promise!promiseVars
    OBVIOUS
  <1>. USE DEF Promise!promiseVars, Promise!pollVars, Promise!challengeVars
  <1>1. CASE Begin
    <2>1. Promise!PromiseBegin
      BY <1>1 DEF Begin, challengeVars, Promise!PromiseBegin
    <2>. QED
      BY <2>1 DEF Promise!PromiseNext
  <1>2. CASE RequestFails \/ Gone \/ NotVerified
    <2>1. Promise!Allowed("failed")
      BY DEF Promise!Allowed
    <2>. QED
      BY <1>2, <2>1, EndImplements
      DEF RequestFails, InRequest, Gone, NotVerified, Results
  <1>3. CASE Refused
    <2>1. decision = reply
      BY <1>3 DEF Refused, IInv, ReplyShape, Terminal
    <2>2. Promise!Allowed(reply)
      BY <1>3, <2>1 DEF Refused, Promise!Allowed
    <2>. QED
      BY <1>3, <2>2, EndImplements DEF Refused, Results, Terminal
  <1>4. CASE Verified
    <2>1. Promise!Allowed("claims")
      BY <1>4 DEF Verified, IInv, ReplyShape, Promise!Allowed
    <2>. QED
      BY <1>4, <2>1, EndImplements DEF Verified, Results
  <1>5. CASE GiveUp
    <2>1. now + (Interval + MaxStep) >= begun + PollTimeout
      BY <1>5, LoopPollAssumption
      DEF GiveUp, Late, Clock, IInv, TypeOK, ChallengeTypeOK
    <2>2. decision = "pending" \/ now <= decidedAt + RequestTimeout
      BY <1>5, LoopPollAssumption
      DEF GiveUp, IInv, TypeOK, ChallengeTypeOK, ReplyShape
    <2>3. Promise!Allowed("timeout")
      BY <2>1, <2>2 DEF Promise!Allowed
    <2>. QED
      BY <1>5, <2>3, EndImplements DEF GiveUp, Results
  <1>6. CASE Answer \/ Approved \/ Sleep \/ Wake
    BY <1>6 DEF Answer, Approved, Sleep, Wake, Goto, challengeVars
  <1>7. CASE Tick
    <2>1. Promise!Elapse /\ UNCHANGED Promise!pollVars
      BY <1>7 DEF Tick, Elapse, Promise!Elapse
    <2>. QED
      BY <2>1 DEF Promise!PromiseNext
  <1>8. CASE StepClock
    BY <1>8 DEF StepClock, loopVars, challengeVars
  <1>9. CASE Server
    <2>1. Promise!Serverside
      BY <1>9 DEF Server, Serverside, Sweep, Decide, Terminal,
                  Promise!Serverside, Promise!Sweep, Promise!Decide,
                  Promise!Terminal
    <2>. QED
      BY <1>9, <2>1 DEF Server, loopVars, Promise!PromiseNext
  <1>10. CASE UNCHANGED vars
    BY <1>10 DEF vars, loopVars, challengeVars
  <1>. QED
    BY <1>1, <1>2, <1>3, <1>4, <1>5, <1>6, <1>7, <1>8, <1>9, <1>10
    DEF Next, Step

\* Either loop keeps the promise of polling: no outcome that did not happen,
\* no timeout early by more than an interval and a clock step, none for a
\* challenge decided before the last request was sent.
THEOREM Implements == Spec => ImplementsPollPromise
  BY InitImplements, StepImplements, Invariance, PTL
  DEF Spec, ImplementsPollPromise, Promise!PromiseSpec
=============================================================================
