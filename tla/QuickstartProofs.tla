-------------------------- MODULE QuickstartProofs --------------------------
(***************************************************************************)
(* Quickstart, for any number of programs and any number of challenges at  *)
(* a time: one prompt for one run, the order of the calls, and whose       *)
(* approval authenticates.                                                 *)
(***************************************************************************)
EXTENDS Quickstart, TLAPS, WellFoundedInduction

USE DEF Prompts

\* A run that has not created its challenge has none on the server, and a
\* request is late only when its run is over: that of a new run is not there
\* before the run gives it up.
RunShape ==
    /\ \A p \in Programs : pc[p] \in Ops => asked[p] = 0
    /\ \A r \in late : r.by \in Programs =>
            pc[r.by] = "off" /\ (r.op = "challenge" => asked[r.by] = 0)
    /\ \A r, s \in late : r = s

\* What a run has registered is there, unless somebody has removed it.
RegisteredShape ==
    \A p \in Programs : ~removed[p] =>
        /\ pc[p] \in {"user", "challenge"} => origin
        /\ pc[p] = "challenge" => user # "none"

IInv ==
    /\ TypeOK
    /\ RunShape /\ OnePromptPerRun
    /\ RegisteredShape /\ OrderIsEnough
    /\ ClaimsAreOwn

-----------------------------------------------------------------------------
\* The slot that a new challenge takes is a free one.
LEMMA NewSlotIsFree == FreeSlots # {} => NewSlot \in FreeSlots
  <1>. SUFFICES ASSUME FreeSlots # {}
                PROVE  \E c \in FreeSlots : \A d \in FreeSlots : c <= d
    BY DEF NewSlot
  <1>1. FreeSlots \subseteq Nat
    BY QuickstartAssumption DEF FreeSlots
  <1>2. PICK c \in FreeSlots :
            \A d \in FreeSlots : ~(<<d, c>> \in OpToRel(<, Nat))
    BY <1>1, NatLessThanWellFounded, WFMin
  <1>3. ASSUME NEW d \in FreeSlots
        PROVE  c <= d
    <2>1. c \in Nat /\ d \in Nat
      BY <1>1
    <2>2. ~(d < c)
      BY <1>2, <2>1 DEF OpToRel
    <2>. QED
      BY <2>1, <2>2
  <1>. QED
    BY <1>3

\* The invariant holds at first.
LEMMA InitIInv == Init => IInv
  <1>. SUFFICES ASSUME Init PROVE IInv
    OBVIOUS
  <1>1. TypeOK
    <2>1. prompt \in [Slots -> Prompts]
      BY DEF Init, Free
    <2>. QED
      BY <2>1 DEF Init, TypeOK, Ends, Ops
  <1>. QED
    BY <1>1
    DEF Init, IInv, RunShape, OnePromptPerRun, RegisteredShape, OrderIsEnough,
        ClaimsAreOwn, Ops

\* What there is to know of a move of a program.
LEMMA Move ==
    ASSUME TypeOK, NEW p \in Programs, NEW next \in Ops \cup Ends \cup {"poll"},
           NEW c \in Slots \cup {None}, GoTo(p, next, c)
    PROVE  /\ pc' \in [Programs -> Ops \cup Ends \cup {"poll"}]
           /\ mine' \in [Programs -> Slots \cup {None}]
           /\ stale' \in [Programs -> BOOLEAN] /\ removed' \in [Programs -> BOOLEAN]
           /\ pc'[p] = next /\ mine'[p] = IF next = "off" THEN None ELSE c
           /\ next \notin Ends => removed'[p] = removed[p]
           /\ \A q \in Programs \ {p} :
                pc'[q] = pc[q] /\ mine'[q] = mine[q] /\ removed'[q] = removed[q]
  <1>1. stale' \in [Programs -> BOOLEAN] /\ removed' \in [Programs -> BOOLEAN]
    BY DEF GoTo, TypeOK
  <1>2. next \notin Ends => removed'[p] = removed[p]
    BY DEF GoTo, TypeOK
  <1>. QED
    BY <1>1, <1>2 DEF GoTo, TypeOK

\* A challenge that a program holds is not free: no new one replaces it.
LEMMA HeldIsNotFree ==
    ASSUME TypeOK, NEW p \in Programs, mine[p] # None
    PROVE  mine[p] \in Slots /\ prompt[mine[p]].by = p /\ mine[p] \notin FreeSlots
  BY QuickstartAssumption DEF TypeOK, FreeSlots, Free

\* What the server may have done of a request.
LEMMA Handled ==
    ASSUME TypeOK, NEW op \in Ops, NEW by \in Programs \cup {None}, NEW ans,
           Handles(op, by, ans)
    PROVE  /\ origin' \in BOOLEAN /\ user' \in {"none", "registered", "enrolled"}
           /\ prompt' \in [Slots -> Prompts]
           /\ origin => origin'
           /\ user # "none" => user' # "none"
           /\ op = "origin" => origin' /\ ans = "ok"
           /\ op = "user" => user' # "none" /\ ans \in {"ok", "conflict"}
           /\ op = "challenge" /\ ans = "notFound" => user = "none"
           /\ op = "challenge" /\ ans = "origin" => ~origin
           /\ op = "challenge" => ans \in {"ok", "notFound", "origin"}
           /\ op = "challenge" /\ ans = "ok" =>
                NewSlot \in Slots /\ prompt'[NewSlot].by = by
           /\ \A c \in Slots \ FreeSlots : prompt'[c] = prompt[c]
           /\ prompt' # prompt => op = "challenge"
  <1>1. CASE RegistersOrigin(op, ans)
    BY <1>1 DEF RegistersOrigin, TypeOK
  <1>2. CASE RegistersUser(op, ans)
    BY <1>2 DEF RegistersUser, TypeOK
  <1>3. CASE CreatesChallenge(op, by, ans)
    <2>1. NewSlot \in Slots /\ NewSlot \in FreeSlots
      BY <1>3, NewSlotIsFree DEF CreatesChallenge, FreeSlots
    <2>2. prompt' \in [Slots -> Prompts]
      BY <1>3, <2>1 DEF CreatesChallenge, TypeOK
    <2>3. /\ prompt'[NewSlot].by = by
          /\ \A c \in Slots \ FreeSlots : prompt'[c] = prompt[c]
      BY <1>3, <2>1 DEF CreatesChallenge, TypeOK
    <2>. QED
      BY <1>3, <2>1, <2>2, <2>3 DEF CreatesChallenge, TypeOK
  <1>4. CASE RefusesChallenge(op, ans)
    BY <1>4 DEF RefusesChallenge, serverVars, TypeOK
  <1>. QED
    BY <1>1, <1>2, <1>3, <1>4 DEF Handles

\* Counting the challenges of a run.
LEMMA Counted ==
    ASSUME TypeOK, NEW by, Count(by)
    PROVE  /\ asked' \in [Programs -> Nat]
           /\ \A p \in Programs :
                asked'[p] = IF p = by /\ prompt' # prompt THEN asked[p] + 1 ELSE asked[p]
  BY DEF TypeOK, Count

-----------------------------------------------------------------------------
\* A new run has no challenge, no late request and nothing removed.
LEMMA StartIInv ==
    ASSUME IInv, NEW p \in Programs, Start(p)
    PROVE  IInv'
  <1>1. /\ pc' \in [Programs -> Ops \cup Ends \cup {"poll"}]
        /\ mine' \in [Programs -> Slots \cup {None}]
        /\ stale' \in [Programs -> BOOLEAN] /\ removed' \in [Programs -> BOOLEAN]
        /\ pc'[p] = "origin" /\ mine'[p] = None
        /\ \A q \in Programs \ {p} :
             pc'[q] = pc[q] /\ mine'[q] = mine[q] /\ removed'[q] = removed[q]
    BY Move DEF Start, IInv, Ops
  <1>2. /\ prompt' \in [Slots -> Prompts]
        /\ \A c \in Slots : prompt[c].by # p => prompt'[c] = prompt[c]
    BY DEF Start, Free, IInv, TypeOK
  <1>3. \A q \in Programs : mine'[q] # None => prompt'[mine'[q]] = prompt[mine[q]]
    BY <1>1, <1>2, HeldIsNotFree DEF IInv
  <1>4. /\ late' \subseteq [op : Ops, by : Programs \cup {None}]
        /\ \A r \in late' : r.by \in Programs =>
                r.by # p /\ \E s \in late : s.by = r.by /\ s.op = r.op
        /\ \A r, s \in late' : r = s
    BY QuickstartAssumption DEF Start, IInv, TypeOK, RunShape
  <1>5. asked' \in [Programs -> Nat] /\ asked' = [asked EXCEPT ![p] = 0]
    BY DEF Start, IInv, TypeOK
  <1>6. TypeOK'
    BY <1>1, <1>2, <1>3, <1>4, <1>5 DEF Start, IInv, TypeOK
  <1>7. RunShape' /\ OnePromptPerRun'
    BY <1>1, <1>4, <1>5 DEF IInv, TypeOK, RunShape, OnePromptPerRun, Ops
  <1>8. RegisteredShape' /\ OrderIsEnough'
    BY <1>1 DEF Start, IInv, RegisteredShape, OrderIsEnough
  <1>9. ClaimsAreOwn'
    BY <1>1, <1>3 DEF IInv, TypeOK, ClaimsAreOwn
  <1>. QED
    BY <1>6, <1>7, <1>8, <1>9 DEF IInv

\* A request that is answered: registered, created, refused or failed.
LEMMA AnsweredIInv ==
    ASSUME IInv, NEW p \in Programs, Answered(p)
    PROVE  IInv'
  <1>. USE DEF IInv
  <1>1. PICK ans \in Answers \ {"lost"} :
        /\ \/ ~stale[p] /\ Handles(pc[p], p, ans)
           \/ stale[p] /\ ans = "unauthorized" /\ UNCHANGED serverVars
           \/ ~calm /\ ans = "other" /\ UNCHANGED serverVars
        /\ GoTo(p, After(pc[p], ans),
                IF pc[p] = "challenge" /\ ans = "ok" THEN NewSlot ELSE None)
        /\ puzzled' = [puzzled EXCEPT ![p] =
                @ \/ (ans \in {"notFound", "origin"} /\ ~removed[p])]
    BY DEF Answered
  <1>2. pc[p] \in Ops /\ Count(p) /\ UNCHANGED <<late, calm>>
    BY DEF Answered
  \* What the server has done, if it has done anything.
  <1>3. /\ origin' \in BOOLEAN /\ user' \in {"none", "registered", "enrolled"}
        /\ prompt' \in [Slots -> Prompts]
        /\ origin => origin'
        /\ user # "none" => user' # "none"
        /\ pc[p] = "origin" /\ ans = "ok" => origin'
        /\ pc[p] = "user" /\ ans \in {"ok", "conflict"} => user' # "none"
        /\ ans = "notFound" => pc[p] = "challenge" /\ user = "none"
        /\ ans = "origin" => pc[p] = "challenge" /\ ~origin
        /\ pc[p] = "challenge" /\ ans = "ok" =>
                NewSlot \in Slots /\ prompt'[NewSlot].by = p
        /\ \A c \in Slots \ FreeSlots : prompt'[c] = prompt[c]
        /\ prompt' # prompt => pc[p] = "challenge"
    <2>1. CASE Handles(pc[p], p, ans)
      BY <1>2, <2>1, Handled DEF Ops
    <2>2. CASE UNCHANGED serverVars /\ ans \in {"unauthorized", "other"}
      BY <2>2 DEF serverVars, TypeOK
    <2>. QED
      BY <1>1, <2>1, <2>2
  \* Where the program goes.
  <1>. DEFINE next == After(pc[p], ans)
              c == IF pc[p] = "challenge" /\ ans = "ok" THEN NewSlot ELSE None
  <1>4. /\ next \in {"user", "challenge", "poll", "off"}
        /\ next = "user" => pc[p] = "origin" /\ ans = "ok"
        /\ next = "challenge" => pc[p] = "user" /\ ans \in {"ok", "conflict"}
        /\ next = "poll" <=> pc[p] = "challenge" /\ ans = "ok"
    BY <1>2 DEF After, Tolerates, Following, Ops
  <1>5. c \in Slots \cup {None}
    BY <1>3
  <1>. HIDE DEF next, c
  <1>6. /\ pc' \in [Programs -> Ops \cup Ends \cup {"poll"}]
        /\ mine' \in [Programs -> Slots \cup {None}]
        /\ stale' \in [Programs -> BOOLEAN] /\ removed' \in [Programs -> BOOLEAN]
        /\ pc'[p] = next /\ mine'[p] = IF next = "off" THEN None ELSE c
        /\ next \notin Ends => removed'[p] = removed[p]
        /\ \A q \in Programs \ {p} :
             pc'[q] = pc[q] /\ mine'[q] = mine[q] /\ removed'[q] = removed[q]
    <2>1. next \in Ops \cup Ends \cup {"poll"} /\ GoTo(p, next, c)
      BY <1>1, <1>4 DEF next, c, Ops, Ends
    <2>. QED
      BY <1>5, <2>1, Move
  <1>7. /\ asked' \in [Programs -> Nat]
        /\ \A q \in Programs \ {p} : asked'[q] = asked[q]
        /\ asked'[p] = IF prompt' # prompt THEN 1 ELSE 0
    BY <1>2, Counted DEF RunShape, TypeOK
  <1>8. mine'[p] = IF next = "poll" THEN NewSlot ELSE None
    BY <1>4, <1>6 DEF c
  <1>9. \A q \in Programs \ {p} : mine'[q] # None => prompt'[mine'[q]] = prompt[mine[q]]
    BY <1>3, <1>6, HeldIsNotFree
  <1>10. puzzled' \in [Programs -> BOOLEAN] /\ OrderIsEnough'
    <2>1. ans \in {"notFound", "origin"} => removed[p]
      BY <1>3 DEF RegisteredShape
    <2>2. puzzled' = [puzzled EXCEPT ![p] = @]
      BY <1>1, <2>1 DEF TypeOK
    <2>. QED
      BY <2>2 DEF TypeOK, OrderIsEnough
  <1>11. TypeOK'
    <2>1. \A q \in Programs :
            /\ mine'[q] # None => prompt'[mine'[q]].by = q
            /\ mine'[q] # None <=> pc'[q] \in {"poll", "authenticated"}
      BY <1>3, <1>4, <1>6, <1>8, <1>9, QuickstartAssumption DEF TypeOK
    <2>. QED
      BY <1>2, <1>3, <1>6, <1>7, <1>10, <2>1 DEF TypeOK
  <1>12. RunShape' /\ OnePromptPerRun'
    <2>1. \A q \in Programs : pc'[q] \in Ops => asked'[q] = 0
      BY <1>3, <1>4, <1>6, <1>7 DEF RunShape, Ops
    <2>2. \A r \in late : r.by # p
      BY <1>2 DEF RunShape, Ops
    <2>3. OnePromptPerRun'
      BY <1>7 DEF OnePromptPerRun
    <2>. QED
      BY <1>2, <1>6, <1>7, <2>1, <2>2, <2>3 DEF RunShape
  <1>13. RegisteredShape'
    <2>. SUFFICES ASSUME NEW q \in Programs, ~removed'[q]
                  PROVE  /\ pc'[q] \in {"user", "challenge"} => origin'
                         /\ pc'[q] = "challenge" => user' # "none"
      BY DEF RegisteredShape
    <2>1. CASE q = p
      <3>1. pc'[p] \in {"user", "challenge"} => ~removed[p]
        BY <1>6, <2>1 DEF Ends
      <3>2. pc'[p] \in {"user", "challenge"} =>
                /\ pc[p] = "user" => origin
                /\ pc[p] = "challenge" => origin
        BY <3>1 DEF RegisteredShape
      <3>3. pc'[p] \in {"user", "challenge"} => origin'
        BY <1>3, <1>4, <1>6, <3>2
      <3>4. pc'[p] = "challenge" => user' # "none"
        BY <1>3, <1>4, <1>6
      <3>. QED
        BY <2>1, <3>3, <3>4
    <2>2. CASE q # p
      <3>1. ~removed[q] /\ pc'[q] = pc[q]
        BY <1>6, <2>2
      <3>2. /\ pc[q] \in {"user", "challenge"} => origin
            /\ pc[q] = "challenge" => user # "none"
        BY <3>1 DEF RegisteredShape
      <3>. QED
        BY <1>3, <3>1, <3>2
    <2>. QED
      BY <2>1, <2>2
  <1>14. ClaimsAreOwn'
    BY <1>4, <1>6, <1>9 DEF ClaimsAreOwn, TypeOK
  <1>. QED
    BY <1>10, <1>11, <1>12, <1>13, <1>14

\* A request that is given up may have been handled, or may still arrive; its
\* run is over either way.
LEMMA UnansweredIInv ==
    ASSUME IInv, NEW p \in Programs, Unanswered(p)
    PROVE  IInv'
  <1>. USE DEF IInv
  <1>1. pc[p] \in Ops /\ Count(p) /\ UNCHANGED <<calm, puzzled>>
    BY DEF Unanswered
  \* What the server has done, if it has done anything.
  <1>2. /\ origin' \in BOOLEAN /\ user' \in {"none", "registered", "enrolled"}
        /\ prompt' \in [Slots -> Prompts]
        /\ origin => origin'
        /\ user # "none" => user' # "none"
        /\ \A c \in Slots \ FreeSlots : prompt'[c] = prompt[c]
    <2>1. CASE UNCHANGED serverVars
      BY <2>1 DEF serverVars, TypeOK
    <2>2. CASE \E ans \in Answers : Handles(pc[p], p, ans)
      BY <1>1, <2>2, Handled
    <2>. QED
      BY <2>1, <2>2 DEF Unanswered, serverVars
  \* What may still arrive is the request of this run, if it did not arrive.
  <1>3. \/ late' = late
        \/ late = {} /\ late' = {[op |-> pc[p], by |-> p]} /\ prompt' = prompt
    BY DEF Unanswered, serverVars
  <1>4. /\ late' \subseteq [op : Ops, by : Programs \cup {None}]
        /\ \A r, s \in late' : r = s
    BY <1>1, <1>3 DEF TypeOK, RunShape
  <1>5. /\ pc' \in [Programs -> Ops \cup Ends \cup {"poll"}]
        /\ mine' \in [Programs -> Slots \cup {None}]
        /\ stale' \in [Programs -> BOOLEAN] /\ removed' \in [Programs -> BOOLEAN]
        /\ pc'[p] = "off" /\ mine'[p] = None
        /\ \A q \in Programs \ {p} :
             pc'[q] = pc[q] /\ mine'[q] = mine[q] /\ removed'[q] = removed[q]
    <2>1. GoTo(p, "off", None)
      BY <1>1 DEF Unanswered, After, Tolerates, Ops
    <2>. QED
      BY <2>1, Move DEF Ends
  <1>6. /\ asked' \in [Programs -> Nat]
        /\ \A q \in Programs \ {p} : asked'[q] = asked[q]
        /\ asked'[p] = IF prompt' # prompt THEN 1 ELSE 0
    BY <1>1, Counted DEF RunShape, TypeOK
  <1>7. \A q \in Programs : mine'[q] # None =>
            q # p /\ prompt'[mine'[q]] = prompt[mine[q]]
    BY <1>2, <1>5, HeldIsNotFree
  <1>8. TypeOK'
    <2>1. \A q \in Programs :
            /\ mine'[q] # None => prompt'[mine'[q]].by = q
            /\ mine'[q] # None <=> pc'[q] \in {"poll", "authenticated"}
      BY <1>5, <1>7 DEF TypeOK
    <2>. QED
      BY <1>1, <1>2, <1>4, <1>5, <1>6, <2>1 DEF TypeOK
  <1>9. RunShape' /\ OnePromptPerRun'
    <2>1. \A q \in Programs : pc'[q] \in Ops => asked'[q] = 0
      BY <1>5, <1>6 DEF RunShape, Ops
    <2>2. ASSUME NEW r \in late', r.by \in Programs
          PROVE  pc'[r.by] = "off" /\ (r.op = "challenge" => asked'[r.by] = 0)
      <3>1. CASE r \in late
        BY <1>1, <1>5, <1>6, <2>2, <3>1 DEF RunShape, Ops
      <3>2. CASE r = [op |-> pc[p], by |-> p] /\ prompt' = prompt
        BY <1>5, <1>6, <3>2
      <3>. QED
        BY <1>3, <2>2, <3>1, <3>2
    <2>3. OnePromptPerRun'
      BY <1>6 DEF OnePromptPerRun
    <2>. QED
      BY <1>4, <2>1, <2>2, <2>3 DEF RunShape
  <1>10. RegisteredShape'
    <2>. SUFFICES ASSUME NEW q \in Programs, ~removed'[q], q # p
                  PROVE  /\ pc'[q] \in {"user", "challenge"} => origin'
                         /\ pc'[q] = "challenge" => user' # "none"
      BY <1>5 DEF RegisteredShape
    <2>1. ~removed[q] /\ pc'[q] = pc[q]
      BY <1>5
    <2>. QED
      BY <1>2, <2>1 DEF RegisteredShape
  <1>11. OrderIsEnough' /\ ClaimsAreOwn'
    BY <1>1, <1>5, <1>7 DEF OrderIsEnough, ClaimsAreOwn, TypeOK
  <1>. QED
    BY <1>8, <1>9, <1>10, <1>11

\* A request that arrives late belongs to a run that is over, or to none.
LEMMA StragglerIInv ==
    ASSUME IInv, NEW r \in late, Straggler(r)
    PROVE  IInv'
  <1>. USE DEF IInv
  <1>1. /\ r.op \in Ops /\ r.by \in Programs \cup {None}
        /\ Count(r.by) /\ late' = {}
        /\ UNCHANGED <<calm, pc, mine, stale, removed, puzzled>>
    BY DEF Straggler, TypeOK, RunShape
  <1>2. /\ origin' \in BOOLEAN /\ user' \in {"none", "registered", "enrolled"}
        /\ prompt' \in [Slots -> Prompts]
        /\ origin => origin'
        /\ user # "none" => user' # "none"
        /\ \A c \in Slots \ FreeSlots : prompt'[c] = prompt[c]
        /\ prompt' # prompt => r.op = "challenge"
    BY <1>1, Handled DEF Straggler
  <1>3. /\ asked' \in [Programs -> Nat]
        /\ \A q \in Programs :
              asked'[q] = IF q = r.by /\ prompt' # prompt THEN 1 ELSE asked[q]
    BY <1>1, <1>2, Counted DEF RunShape, TypeOK
  <1>4. \A q \in Programs : mine'[q] # None => prompt'[mine'[q]] = prompt[mine[q]]
    BY <1>1, <1>2, HeldIsNotFree
  <1>5. TypeOK'
    BY <1>1, <1>2, <1>3, <1>4 DEF TypeOK
  <1>6. RunShape' /\ OnePromptPerRun'
    BY <1>1, <1>3 DEF RunShape, OnePromptPerRun, Ops
  <1>7. RegisteredShape'
    BY <1>1, <1>2 DEF RegisteredShape
  <1>8. OrderIsEnough' /\ ClaimsAreOwn'
    BY <1>1, <1>4 DEF OrderIsEnough, ClaimsAreOwn
  <1>. QED
    BY <1>5, <1>6, <1>7, <1>8

\* The poll ends with claims only when the prompt of this run is approved.
LEMMA PollEndsIInv ==
    ASSUME IInv, NEW p \in Programs, PollEnds(p)
    PROVE  IInv'
  <1>. USE DEF IInv
  <1>1. PICK r \in {"claims", "denied", "expired", "failed", "timeout"} :
            PollResult(p, r) /\ GoTo(p, EndOfPoll(r), mine[p])
    BY DEF PollEnds
  <1>2. /\ pc[p] = "poll"
        /\ UNCHANGED <<origin, user, prompt, late, calm, puzzled, asked>>
    BY DEF PollEnds, serverVars
  <1>3. EndOfPoll(r) \in Ends
    BY DEF EndOfPoll, Ends
  <1>4. /\ pc' \in [Programs -> Ops \cup Ends \cup {"poll"}]
        /\ mine' \in [Programs -> Slots \cup {None}]
        /\ stale' \in [Programs -> BOOLEAN] /\ removed' \in [Programs -> BOOLEAN]
        /\ pc'[p] = EndOfPoll(r)
        /\ mine'[p] = IF EndOfPoll(r) = "off" THEN None ELSE mine[p]
        /\ \A q \in Programs \ {p} :
             pc'[q] = pc[q] /\ mine'[q] = mine[q] /\ removed'[q] = removed[q]
    <2>1. mine[p] \in Slots \cup {None}
      BY DEF TypeOK
    <2>. QED
      BY <1>1, <1>3, <2>1, Move
  <1>5. TypeOK'
    <2>1. \A q \in Programs :
            /\ mine'[q] # None => prompt[mine'[q]].by = q
            /\ mine'[q] # None <=> pc'[q] \in {"poll", "authenticated"}
      BY <1>2, <1>3, <1>4 DEF TypeOK, Ends
    <2>. QED
      BY <1>2, <1>4, <2>1 DEF TypeOK
  <1>6. RunShape' /\ OnePromptPerRun'
    BY <1>2, <1>3, <1>4 DEF RunShape, OnePromptPerRun, Ops, Ends
  <1>7. RegisteredShape'
    BY <1>2, <1>3, <1>4 DEF RegisteredShape, Ends
  <1>8. ClaimsAreOwn'
    <2>1. pc'[p] = "authenticated" =>
            mine'[p] = mine[p] /\ prompt[mine[p]].decision = "approved"
      BY <1>1, <1>4 DEF EndOfPoll, PollResult
    <2>. QED
      BY <1>2, <1>4, <2>1 DEF ClaimsAreOwn, TypeOK
  <1>. QED
    BY <1>2, <1>5, <1>6, <1>7, <1>8 DEF OrderIsEnough

\* A decision is taken once, so what has been approved stays so.
LEMMA DecideIInv ==
    ASSUME IInv, NEW c \in Slots, NEW d \in {"approved", "denied", "expired"},
           Decide(c, d)
    PROVE  IInv'
  <1>. USE DEF IInv
  <1>1. /\ prompt[c].decision = "pending"
        /\ prompt' = [prompt EXCEPT ![c].decision = d]
        /\ UNCHANGED <<origin, user, late, calm, pc, mine, stale, removed, puzzled, asked>>
    BY DEF Decide, programVars
  <1>2. /\ prompt' \in [Slots -> Prompts]
        /\ \A b \in Slots : prompt'[b].by = prompt[b].by
        /\ \A b \in Slots : prompt[b].decision = "approved" =>
                                prompt'[b].decision = "approved"
    BY <1>1 DEF TypeOK
  <1>3. TypeOK'
    BY <1>1, <1>2 DEF TypeOK
  <1>4. ClaimsAreOwn'
    BY <1>1, <1>2 DEF ClaimsAreOwn, TypeOK
  <1>. QED
    BY <1>1, <1>3, <1>4
    DEF RunShape, OnePromptPerRun, RegisteredShape, OrderIsEnough

\* What a program still holds is marked as swept, and not forgotten.
LEMMA SweepIInv ==
    ASSUME IInv, NEW c \in Slots, Sweep(c)
    PROVE  IInv'
  <1>. USE DEF IInv
  <1>1. /\ prompt' = [prompt EXCEPT ![c] =
              IF \E p \in Programs : mine[p] = c
              THEN [@ EXCEPT !.swept = TRUE] ELSE Free]
        /\ UNCHANGED <<origin, user, late, calm, pc, mine, stale, removed, puzzled, asked>>
    BY DEF Sweep, programVars
  <1>2. /\ prompt' \in [Slots -> Prompts]
        /\ \A p \in Programs : mine[p] # None =>
              /\ prompt'[mine[p]].by = prompt[mine[p]].by
              /\ prompt'[mine[p]].decision = prompt[mine[p]].decision
    <2>1. CASE \E p \in Programs : mine[p] = c
      <3>. DEFINE marked == [prompt[c] EXCEPT !.swept = TRUE]
      <3>1. prompt' = [prompt EXCEPT ![c] = marked]
        BY <1>1, <2>1
      <3>2. prompt[c] \in Prompts
        BY DEF TypeOK
      <3>3. /\ marked \in Prompts
            /\ marked.by = prompt[c].by /\ marked.decision = prompt[c].decision
        BY <3>2
      <3>. HIDE DEF marked
      <3>. QED
        BY <3>1, <3>3 DEF TypeOK
    <2>2. CASE ~\E p \in Programs : mine[p] = c
      <3>1. prompt' = [prompt EXCEPT ![c] = Free]
        BY <1>1, <2>2
      <3>. QED
        BY <2>2, <3>1 DEF TypeOK, Free
    <2>. QED
      BY <2>1, <2>2
  <1>3. TypeOK'
    BY <1>1, <1>2 DEF TypeOK
  <1>4. ClaimsAreOwn'
    BY <1>1, <1>2 DEF ClaimsAreOwn
  <1>. QED
    BY <1>1, <1>3, <1>4
    DEF RunShape, OnePromptPerRun, RegisteredShape, OrderIsEnough

\* A removal is seen by every run that is under way.
LEMMA RemoveIInv ==
    ASSUME IInv, Remove
    PROVE  IInv'
  <1>. USE DEF IInv
  <1>1. /\ origin' \in BOOLEAN /\ user' \in {"none", "registered", "enrolled"}
        /\ removed' = [p \in Programs |-> removed[p] \/ Running(p)]
        /\ UNCHANGED <<prompt, late, calm, pc, mine, stale, puzzled, asked>>
    BY DEF Remove, TypeOK
  <1>2. TypeOK'
    BY <1>1 DEF TypeOK
  <1>3. \A p \in Programs : pc[p] \in {"user", "challenge"} => removed'[p]
    BY <1>1 DEF Running, Ends
  <1>4. RegisteredShape'
    BY <1>1, <1>3 DEF RegisteredShape
  <1>. QED
    BY <1>1, <1>2, <1>4 DEF RunShape, OnePromptPerRun, OrderIsEnough, ClaimsAreOwn

\* The invariant is inductive: every step keeps it.
LEMMA StepIInv == IInv /\ [Next]_vars => IInv'
  <1>. SUFFICES ASSUME IInv, [Next]_vars PROVE IInv'
    OBVIOUS
  <1>1. ASSUME NEW p \in Programs,
               Start(p) \/ Answered(p) \/ Unanswered(p) \/ PollEnds(p)
        PROVE  IInv'
    BY <1>1, StartIInv, AnsweredIInv, UnansweredIInv, PollEndsIInv
  <1>2. ASSUME NEW r \in late, Straggler(r)
        PROVE  IInv'
    BY <1>2, StragglerIInv
  <1>3. CASE Enroll
    BY <1>3 DEF Enroll, programVars, IInv, TypeOK, RunShape, OnePromptPerRun,
                RegisteredShape, OrderIsEnough, ClaimsAreOwn
  <1>4. ASSUME NEW c \in Slots,
               \/ \E d \in {"approved", "denied", "expired"} : Decide(c, d)
               \/ Sweep(c)
        PROVE  IInv'
    BY <1>4, DecideIInv, SweepIInv
  <1>5. CASE Remove
    BY <1>5, RemoveIInv
  <1>6. CASE Rotate
    <2>1. late' = {} /\ stale' \in [Programs -> BOOLEAN]
      BY <1>6 DEF Rotate, Running
    <2>2. UNCHANGED <<serverVars, calm, pc, mine, removed, puzzled, asked>>
      BY <1>6 DEF Rotate
    <2>. QED
      BY <2>1, <2>2 DEF serverVars, IInv, TypeOK, RunShape, OnePromptPerRun,
                        RegisteredShape, OrderIsEnough, ClaimsAreOwn
  <1>7. CASE BecomeCalm
    BY <1>7 DEF BecomeCalm, serverVars, programVars, IInv, TypeOK, RunShape,
                OnePromptPerRun, RegisteredShape, OrderIsEnough, ClaimsAreOwn
  <1>8. CASE UNCHANGED vars
    BY <1>8 DEF vars, serverVars, programVars, IInv, TypeOK, RunShape,
                OnePromptPerRun, RegisteredShape, OrderIsEnough, ClaimsAreOwn
  <1>. QED
    BY <1>1, <1>2, <1>3, <1>4, <1>5, <1>6, <1>7, <1>8 DEF Next

\* In every run of the quickstarts of sdk-go, whatever is lost, late, swept or
\* rotated meanwhile, the invariant above holds.
THEOREM Invariance == Spec => []IInv
  BY InitIInv, StepIInv, PTL DEF Spec

-----------------------------------------------------------------------------
\* The server and main.go keep their state in the domains given; above all, a
\* program that polls holds the id of a challenge created for its own run.
THEOREM TypeCorrect == Spec => []TypeOK
  <1>. IInv => TypeOK
    BY DEF IInv
  <1>. QED
    BY Invariance, PTL

\* The documentation says that creating a challenge is not idempotent; main.go
\* ends on every error of CreateChallenge and sends nothing twice, so that a
\* run puts one prompt on the phone at most.
THEOREM OnePrompt == Spec => []OnePromptPerRun
  <1>. IInv => OnePromptPerRun
    BY DEF IInv
  <1>. QED
    BY Invariance, PTL

\* main.go registers the origin, then the user, then asks for the challenge:
\* that order is enough, also when the user exists already, for the server to
\* miss neither of them unless somebody removes it.
THEOREM OrderSuffices == Spec => []OrderIsEnough
  <1>. IInv => OrderIsEnough
    BY DEF IInv
  <1>. QED
    BY Invariance, PTL

\* main.go says "authenticated" only when PollChallenge gave it claims, and
\* then the user has approved the challenge of this run, and not of another
\* run or of an earlier one of the same program.
THEOREM OwnClaims == Spec => []ClaimsAreOwn
  <1>. IInv => ClaimsAreOwn
    BY DEF IInv
  <1>. QED
    BY Invariance, PTL
=============================================================================
