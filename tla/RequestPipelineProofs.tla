----------------------- MODULE RequestPipelineProofs -----------------------
(***************************************************************************)
(* RequestPipeline and Signing, for any of the SDKs and any timeout: how a *)
(* call ends depends on nothing but what arrived of its answer, and which  *)
(* path is signed on nothing but the id and the base URL.                  *)
(***************************************************************************)
EXTENDS RequestPipeline, TLAPS

\* Nothing is kept of an answer before its body has come or been cut, and
\* what has come decides how the call ends.
EndShape ==
    /\ phase # "idle" => got = "nothing"
    /\ got # "nothing" => out \in EndsWith(resp, got = "whole")
    /\ got = "nothing" /\ out.kind = "foreign" => sdk = "python"

IInv == TypeOK /\ EndShape

-----------------------------------------------------------------------------
\* The classes the SDKs know, and no others.
LEMMA ClassesAreKnown ==
    ASSUME NEW status, NEW code
    PROVE  /\ ByStatus(status) \in {"unauthorized", "notFound", "conflict", "plain"}
           /\ GoClass(status, code) \in {ByStatus(status), "origin"} \cap Classes
           /\ ApiErrorFromResponse(status, code) \in Classes
  BY DEF ByStatus, GoClass, ApiErrorFromResponse, Classes

\* The outcomes of a call, by how they are made.
LEMMA Kinds ==
    /\ \A class \in Classes : Api(class) \in Outcomes
    /\ \A kind \in {"value", "none", "sdk", "foreign"} : Plain(kind) \in Outcomes
    /\ \A class : Api(class).kind = "api" /\ Api(class).class = class
    /\ \A kind : Plain(kind).kind = kind
  BY DEF Api, Plain, Outcomes, Classes

\* How Go ends a call, by the status and by what has come of the body.
LEMMA GoEnding ==
    ASSUME NEW r \in Answers, NEW whole \in BOOLEAN, op \in Ops,
           NEW o \in GoEnds(r, whole)
    PROVE  /\ o \in Outcomes
           /\ r.status >= 400 =>
                /\ o \in {Api(class) : class \in {ByStatus(r.status), "origin"} \cap Classes}
                /\ whole => o = Api(GoClass(r.status, r.code))
           /\ r.status < 400 =>
                /\ o \in {Plain("none"), Plain("value"), Plain("sdk")}
                /\ o.kind = "value" => whole /\ r.body \in {"envelope", "json"}
                /\ o.kind = "none" => r.status = 204 \/ op = "void"
  <1>1. r.status \in {200, 204, 300, 401, 403, 404, 409, 502}
    BY DEF Answers, Statuses
  <1>2. CASE r.status >= 400
    <2>. DEFINE class == GoClass(r.status, IF whole THEN r.code ELSE "")
    <2>1. o = Api(class)
      <3>1. r.status # 204 /\ ~GoSucceeds(r)
        BY <1>1, <1>2 DEF GoSucceeds
      <3>. QED
        BY <1>2, <3>1, Zenon DEF GoEnds
    <2>2. class \in {ByStatus(r.status), "origin"} \cap Classes
      BY ClassesAreKnown
    <2>3. whole => class = GoClass(r.status, r.code)
      OBVIOUS
    <2>. HIDE DEF class
    <2>. QED
      BY <1>1, <1>2, <2>1, <2>2, <2>3, Kinds
  <1>3. CASE r.status < 400
    <2>1. \/ o = Plain("none") /\ (r.status = 204 \/ op = "void")
          \/ o \in GoDecodes(r, whole)
      <3>1. r.status = 204 \/ (GoSucceeds(r) /\ op \in {"void", "value"})
        BY <1>1, <1>3 DEF Ops, GoSucceeds
      <3>2. ~(r.status >= 400)
        BY <1>1, <1>3
      <3>. QED
        BY <3>1, <3>2, Zenon DEF GoEnds
    <2>2. o \in GoDecodes(r, whole) =>
            \/ o = Plain("value") /\ whole /\ r.body \in {"envelope", "json"}
            \/ o = Plain("sdk")
      BY DEF GoDecodes
    <2>. QED
      BY <1>1, <1>3, <2>1, <2>2, Kinds
  <1>. QED
    BY <1>1, <1>2, <1>3

\* Go ends in an error of its own or in none.
LEMMA GoNeverForeign ==
    ASSUME NEW r \in Answers, NEW whole \in BOOLEAN, op \in Ops,
           NEW o \in GoEnds(r, whole)
    PROVE  o.kind # "foreign"
  <1>1. r.status \in {200, 204, 300, 401, 403, 404, 409, 502}
    BY DEF Answers, Statuses
  <1>2. CASE r.status >= 400
    BY <1>2, GoEnding, Kinds
  <1>3. CASE r.status < 400
    BY <1>3, GoEnding, Kinds
  <1>. QED
    BY <1>1, <1>2, <1>3

\* How Node ends one.
LEMMA NodeEnding ==
    ASSUME NEW r \in Answers, NEW whole \in BOOLEAN,
           NEW o \in NodeEnds(r, whole)
    PROVE  /\ o \in Outcomes
           /\ r.status >= 400 =>
                /\ o.kind \in {"api", "foreign"}
                /\ whole /\ r.body = "envelope" =>
                        o = Api(ApiErrorFromResponse(r.status, r.code))
           /\ r.status < 400 =>
                /\ o \in {Plain("none"), Plain("value"), Plain("foreign")}
                /\ o.kind = "value" => whole /\ r.body \in {"envelope", "json"}
                /\ o.kind = "none" => r.status = 204
           /\ o.kind = "foreign" /\ whole => r.body # "envelope"
  <1>1. r.status \in {200, 204, 300, 401, 403, 404, 409, 502}
    BY DEF Answers, Statuses
  <1>. DEFINE api == Api(ApiErrorFromResponse(r.status, r.code))
              decodes == whole /\ r.body \in {"envelope", "json"}
  <1>2. api \in Outcomes
    BY ClassesAreKnown, Kinds
  <1>3. CASE r.status = 204
    BY <1>1, <1>3, Kinds DEF NodeEnds
  <1>4. CASE r.status # 204 /\ ~decodes
    BY <1>1, <1>4, Kinds DEF NodeEnds
  <1>5. CASE r.status >= 400 /\ decodes
    <2>1. o = api \/ (o = Plain("foreign") /\ r.body = "json")
      BY <1>1, <1>5 DEF NodeEnds
    <2>. QED
      BY <1>1, <1>2, <1>5, <2>1, Kinds
  <1>6. CASE r.status \in {200, 300} /\ decodes
    BY <1>6, Kinds DEF NodeEnds
  <1>. QED
    BY <1>1, <1>3, <1>4, <1>5, <1>6

\* How Python ends one.
LEMMA PythonEnding ==
    ASSUME NEW r \in Answers, NEW whole \in BOOLEAN,
           NEW o \in PyReads(r, whole)
    PROVE  /\ o \in Outcomes
           /\ r.status >= 400 =>
                /\ o.kind \in {"api", "foreign"}
                /\ whole /\ r.body = "envelope" =>
                        o = Api(ApiErrorFromResponse(r.status, r.code))
           /\ r.status < 400 =>
                /\ o \in {Plain("none"), Plain("value"), Plain("sdk"), Plain("foreign")}
                /\ o.kind = "value" => whole /\ r.body \in {"envelope", "json"}
                /\ o.kind = "none" => ~whole \/ r.body = "empty"
           /\ o.kind = "foreign" /\ whole => r.status >= 400 /\ r.body = "json"
  <1>1. /\ r.status \in {200, 204, 300, 401, 403, 404, 409, 502}
        /\ r.body \in {"envelope", "json", "text", "empty"}
    BY DEF Answers, Statuses
  <1>2. /\ Plain("foreign").kind = "foreign"
        /\ \A kind : Plain(kind).kind = kind
        /\ \A class : Api(class).kind = "api"
    BY Kinds
  \* What it makes of a body, be it the answer's or what is left of it.
  <1>3. ASSUME NEW s, s.status = r.status,
               s.body \in {"envelope", "json", "text", "empty"}
        PROVE  /\ PyDecodes(s) \in Outcomes
               /\ r.status >= 400 =>
                    PyDecodes(s) = IF s.body = "json" THEN Plain("foreign")
                                   ELSE Api(ApiErrorFromResponse(s.status, s.code))
               /\ r.status < 400 =>
                    PyDecodes(s) = CASE s.body = "empty" -> Plain("none")
                                     [] s.body = "text"  -> Plain("sdk")
                                     [] OTHER            -> Plain("value")
    BY <1>1, <1>3, ClassesAreKnown, Kinds DEF PyDecodes
  <1>4. CASE whole
    <2>1. o = PyDecodes(r)
      BY <1>4 DEF PyReads
    <2>. QED
      BY <1>1, <1>2, <1>3, <1>4, <2>1
  <1>5. CASE ~whole /\ o = Plain("foreign")
    BY <1>1, <1>2, <1>5, Kinds
  <1>6. ASSUME ~whole,
               NEW b \in {"text", "empty"},
               o = PyDecodes([r EXCEPT !.code = "", !.body = b])
        PROVE  /\ o \in Outcomes
               /\ r.status >= 400 => o.kind = "api"
               /\ r.status < 400 => o \in {Plain("none"), Plain("sdk")}
    <2>. DEFINE s == [r EXCEPT !.code = "", !.body = b]
    <2>1. s.status = r.status /\ s.body = b
      BY DEF Answers
    <2>2. o = PyDecodes(s)
      BY <1>6
    <2>. HIDE DEF s
    <2>. QED
      BY <1>1, <1>2, <1>3, <2>1, <2>2
  <1>7. CASE ~whole
    <2>1. \/ o = Plain("foreign")
          \/ \E b \in {"text", "empty"} : o = PyDecodes([r EXCEPT !.code = "", !.body = b])
      BY <1>7 DEF PyReads
    <2>. QED
      BY <1>1, <1>2, <1>5, <1>6, <1>7, <2>1
  <1>. QED
    BY <1>4, <1>7

-----------------------------------------------------------------------------
\* How a call ends in the SDK it was made with.
LEMMA Endings ==
    ASSUME NEW r \in Answers, NEW whole \in BOOLEAN, op \in Ops, sdk \in Sdks,
           NEW o \in EndsWith(r, whole)
    PROVE  /\ sdk = "go" => o \in GoEnds(r, whole)
           /\ sdk = "node" => o \in NodeEnds(r, whole)
           /\ sdk = "python" => o \in PyReads(r, whole)
           /\ sdk \in {"go", "node", "python"}
           /\ o \in Outcomes
           /\ o.kind \in {"value", "none"} => r.status < 400
           /\ o.kind = "value" => whole /\ r.body \in {"envelope", "json"}
           /\ o.kind = "none" => \/ r.status = 204
                                 \/ sdk = "go" /\ op = "void"
                                 \/ sdk = "python" /\ (r.body = "empty" \/ ~whole)
  <1>1. sdk \in {"go", "node", "python"}
    BY PipelineAssumption
  <1>2. /\ sdk = "go" => o \in GoEnds(r, whole)
        /\ sdk = "node" => o \in NodeEnds(r, whole)
        /\ sdk = "python" => o \in PyReads(r, whole)
    BY <1>1 DEF EndsWith
  <1>3. /\ o \in Outcomes
        /\ r.status >= 400 => o.kind \in {"api", "foreign"}
        /\ r.status < 400 /\ o.kind = "value" =>
                whole /\ r.body \in {"envelope", "json"}
        /\ r.status < 400 /\ o.kind = "none" =>
                \/ r.status = 204
                \/ sdk = "go" /\ op = "void"
                \/ sdk = "python" /\ (r.body = "empty" \/ ~whole)
    <2>1. CASE sdk = "go"
      BY <1>2, <2>1, GoEnding, Kinds
    <2>2. CASE sdk = "node"
      BY <1>2, <2>2, NodeEnding
    <2>3. CASE sdk = "python"
      BY <1>2, <2>3, PythonEnding
    <2>. QED
      BY <1>1, <2>1, <2>2, <2>3
  <1>4. r.status \in {200, 204, 300, 401, 403, 404, 409, 502}
    BY DEF Answers, Statuses
  <1>. QED
    BY <1>1, <1>2, <1>3, <1>4

\* The SDK and the method of a call do not change while it is under way.
LEMMA EndsKept ==
    ASSUME UNCHANGED <<sdk, op, resp>>
    PROVE  EndsWith(resp, got = "whole")' = EndsWith(resp, got' = "whole")
  BY DEF EndsWith, GoEnds, GoSucceeds, NodeEnds, PyReads

\* The invariant holds at first.
LEMMA InitIInv == Init => IInv
  <1>. SUFFICES ASSUME Init PROVE IInv
    OBVIOUS
  <1>1. TypeOK
    BY Kinds, PipelineAssumption DEF Init, TypeOK, ClockCap
  <1>. QED
    BY <1>1 DEF Init, IInv, EndShape, Plain

\* A call ends with its body, or with a part of it.
LEMMA EndIInv ==
    ASSUME IInv, phase = "head", NEW g \in {"cut", "whole"},
           NEW o \in EndsWith(resp, g = "whole"), End(g, o)
    PROVE  IInv'
  <1>1. /\ phase' = "idle" /\ age' = 0 /\ idle' = 0 /\ got' = g /\ out' = o
        /\ UNCHANGED <<sdk, op, target, resp>>
    BY DEF End
  <1>2. resp \in Answers
    BY DEF IInv, TypeOK
  <1>3. o \in Outcomes
    <2>1. (g = "whole") \in BOOLEAN
      OBVIOUS
    <2>. QED
      BY <1>2, <2>1, Endings DEF IInv, TypeOK
  <1>4. TypeOK'
    BY <1>1, <1>2, <1>3, PipelineAssumption DEF IInv, TypeOK, ClockCap
  <1>5. EndShape'
    BY <1>1, EndsKept DEF EndShape
  <1>. QED
    BY <1>4, <1>5 DEF IInv

\* The invariant is inductive: every step keeps it.
LEMMA StepIInv == IInv /\ [Next]_vars => IInv'
  <1>. SUFFICES ASSUME IInv, [Next]_vars PROVE IInv'
    OBVIOUS
  <1>. USE PipelineAssumption DEF IInv
  <1>1. CASE Unsent
    BY <1>1, Kinds DEF Unsent, TypeOK, EndShape, Plain
  <1>2. CASE Send
    BY <1>2, Kinds DEF Send, TypeOK, EndShape, Plain
  <1>3. CASE SendFails
    BY <1>3, Kinds DEF SendFails, End, TypeOK, EndShape, ClockCap, Plain
  <1>4. ASSUME NEW r \in Answers, Head(r)
        PROVE  IInv'
    <2>1. r.status \in {200, 204, 300, 401, 403, 404, 409, 502}
      BY DEF Answers, Statuses
    <2>2. NoAnswer.status = 0
      BY DEF NoAnswer
    <2>3. r # NoAnswer
      BY <2>1, <2>2
    <2>4. TypeOK'
      BY <1>4, <2>3 DEF Head, TypeOK, ClockCap
    <2>. QED
      BY <1>4, <2>4 DEF Head, EndShape
  <1>5. CASE Body
    BY <1>5, EndIInv DEF Body
  <1>6. CASE BodyCut
    BY <1>6, EndIInv DEF BodyCut
  <1>7. CASE Trickle
    BY <1>7 DEF Trickle, TypeOK, EndShape, ClockCap
  <1>8. CASE Tick
    BY <1>8 DEF Tick, TypeOK, EndShape, ClockCap
  <1>9. CASE UNCHANGED vars
    BY <1>9, EndsKept DEF vars, TypeOK, EndShape
  <1>. QED
    BY <1>1, <1>2, <1>3, <1>4, <1>5, <1>6, <1>7, <1>8, <1>9 DEF Next

\* Whatever is answered, and however late or short, the outcome of a call is
\* one of those that do, _do and _urllib_do give for what has arrived.
THEOREM Invariance == Spec => []IInv
  BY InitIInv, StepIInv, PTL DEF Spec

\* The state of a call: no head of an answer is ever waited for twice, and
\* each of the three clients ends in an outcome of its own error hierarchy or
\* in an exception that it lets through.
THEOREM TypeCorrect == Spec => []TypeOK
  <1>. IInv => TypeOK
    BY DEF IInv
  <1>. QED
    BY Invariance, PTL

-----------------------------------------------------------------------------
\* newAPIError looks at the status first, apiErrorFromResponse and
\* api_error_from_response at the code: for a documented answer it is the same.
LEMMA OrderDoesNotMatter ==
    ASSUME NEW r \in Answers, Documented(r)
    PROVE  /\ GoClass(r.status, r.code) = DocumentedClass(r)
           /\ ApiErrorFromResponse(r.status, r.code) = DocumentedClass(r)
           /\ r.status >= 400 /\ r.body = "envelope"
  <1>1. r.code = "UNREGISTERED_ORIGIN" => ByStatus(r.status) = "plain"
    BY DEF Documented, ByStatus
  <1>. QED
    BY <1>1
    DEF Documented, DocumentedClass, GoClass, ApiErrorFromResponse, Answers

\* The three error tables say the same: sdk-go/errors.go, sdk-node's errors.ts
\* and sdk-python's errors.py turn a documented error into the same class.
THEOREM ErrorsAgree == Spec => []SdksAgreeOnErrors
  <1>1. IInv => SdksAgreeOnErrors
    <2>. SUFFICES ASSUME IInv, got = "whole", Documented(resp)
                  PROVE  out = Api(DocumentedClass(resp))
      BY DEF SdksAgreeOnErrors
    <2>1. resp \in Answers /\ op \in Ops /\ sdk \in Sdks
      BY DEF IInv, TypeOK
    <2>2. out \in EndsWith(resp, TRUE)
      BY DEF IInv, EndShape
    <2>3. /\ sdk = "go" => out \in GoEnds(resp, TRUE)
          /\ sdk = "node" => out \in NodeEnds(resp, TRUE)
          /\ sdk = "python" => out \in PyReads(resp, TRUE)
          /\ sdk \in {"go", "node", "python"}
      BY <2>1, <2>2, Endings
    <2>4. resp.status >= 400 /\ resp.body = "envelope"
      BY <2>1, OrderDoesNotMatter
    <2>5. CASE sdk = "go"
      BY <2>1, <2>3, <2>5, GoEnding, OrderDoesNotMatter
    <2>6. CASE sdk = "node"
      <3>1. out = Api(ApiErrorFromResponse(resp.status, resp.code))
        BY <2>1, <2>3, <2>4, <2>6, NodeEnding
      <3>. QED
        BY <2>1, <3>1, OrderDoesNotMatter
    <2>7. CASE sdk = "python"
      <3>1. out = Api(ApiErrorFromResponse(resp.status, resp.code))
        BY <2>1, <2>3, <2>4, <2>7, PythonEnding
      <3>. QED
        BY <2>1, <3>1, OrderDoesNotMatter
    <2>. QED
      BY <2>3, <2>5, <2>6, <2>7
  <1>. QED
    BY <1>1, Invariance, PTL

\* decodeErr of sdk-go gives "a meaningful error with the status code" also
\* when the body of the error cannot be read or decoded.
THEOREM StatusKept == Spec => []GoKeepsTheStatus
  <1>1. IInv => GoKeepsTheStatus
    <2>. SUFFICES ASSUME IInv, sdk = "go", got # "nothing", resp.status >= 400
                  PROVE  /\ out.kind = "api"
                         /\ out.class \in {ByStatus(resp.status), "origin"}
      BY DEF GoKeepsTheStatus
    <2>1. resp \in Answers /\ op \in Ops /\ sdk \in Sdks
      BY DEF IInv, TypeOK, NoAnswer
    <2>. DEFINE whole == got = "whole"
    <2>2. out \in EndsWith(resp, whole) /\ whole \in BOOLEAN
      BY DEF IInv, EndShape
    <2>. HIDE DEF whole
    <2>3. out \in GoEnds(resp, whole)
      BY <2>1, <2>2, Endings
    <2>4. out \in {Api(class) : class \in {ByStatus(resp.status), "origin"} \cap Classes}
      BY <2>1, <2>2, <2>3, GoEnding
    <2>. QED
      BY <2>4 DEF Api
  <1>. QED
    BY <1>1, Invariance, PTL

\* The callers of the SDKs may rely on ZtxbasError for every documented answer
\* that arrives whole, and in Go for every error; errors.ts:10 and errors.py:13
\* promise it of the rest as well, where an exception of another kind can come.
THEOREM ForeignErrorsExplained == Spec => []ForeignErrorsAreExplained
  <1>1. IInv => ForeignErrorsAreExplained
    <2>. SUFFICES ASSUME IInv, out.kind = "foreign"
                  PROVE  ForeignErrorsAreExplained
      BY DEF ForeignErrorsAreExplained
    <2>1. CASE got = "nothing"
      BY <2>1 DEF IInv, EndShape, ForeignErrorsAreExplained
    <2>2. CASE got # "nothing"
      <3>. DEFINE whole == got = "whole"
      <3>1. resp \in Answers /\ op \in Ops /\ sdk \in Sdks
        BY <2>2 DEF IInv, TypeOK, NoAnswer
      <3>2. out \in EndsWith(resp, whole) /\ whole \in BOOLEAN
        BY <2>2 DEF IInv, EndShape
      <3>3. /\ sdk # "go"
            /\ sdk = "node" => (whole => resp.body # "envelope")
            /\ sdk = "python" => (whole => resp.status >= 400 /\ resp.body = "json")
            /\ sdk \in {"go", "node", "python"}
        <4>. HIDE DEF whole
        <4>1. sdk \in {"go", "node", "python"}
          BY <3>1, <3>2, Endings
        <4>2. CASE sdk = "go"
          <5>1. out \in GoEnds(resp, whole)
            BY <3>1, <3>2, <4>2, Endings
          <5>2. out.kind # "foreign"
            BY <3>1, <3>2, <5>1, GoNeverForeign
          <5>. QED
            BY <5>2
        <4>3. CASE sdk = "node"
          <5>1. out \in NodeEnds(resp, whole)
            BY <3>1, <3>2, <4>3, Endings
          <5>. QED
            BY <3>1, <3>2, <4>3, <5>1, NodeEnding
        <4>4. CASE sdk = "python"
          <5>1. out \in PyReads(resp, whole)
            BY <3>1, <3>2, <4>4, Endings
          <5>. QED
            BY <3>1, <3>2, <4>4, <5>1, PythonEnding
        <4>. QED
          BY <4>1, <4>2, <4>3, <4>4
      <3>. QED
        BY <2>2, <3>3 DEF ForeignErrorsAreExplained
    <2>. QED
      BY <2>1, <2>2
  <1>. QED
    BY <1>1, Invariance, PTL

\* client.go:149, client.ts:196, client.py:226: no method returns a result of
\* an answer from 400 on, nor a value of a body that was cut.  That a method
\* returns none is accounted for by a 204, by a method of Go that wants none,
\* or by an empty or cut body in Python, and by nothing else.
THEOREM ErrorsAreNotSuccesses == Spec => []NoErrorIsASuccess
  <1>1. IInv => NoErrorIsASuccess
    <2>. SUFFICES ASSUME IInv, out.kind \in {"value", "none"}, got # "nothing"
                  PROVE  /\ resp.status < 400
                         /\ out.kind = "value" =>
                               got = "whole" /\ resp.body \in {"envelope", "json"}
                         /\ out.kind = "none" => NoneIsExplained
      BY DEF NoErrorIsASuccess
    <2>1. resp \in Answers /\ op \in Ops /\ sdk \in Sdks
      BY DEF IInv, TypeOK, NoAnswer
    <2>. DEFINE whole == got = "whole"
    <2>2. out \in EndsWith(resp, whole) /\ whole \in BOOLEAN
      BY DEF IInv, EndShape
    <2>3. /\ resp.status < 400
          /\ out.kind = "value" => whole /\ resp.body \in {"envelope", "json"}
          /\ out.kind = "none" => \/ resp.status = 204
                                  \/ sdk = "go" /\ op = "void"
                                  \/ /\ sdk = "python"
                                     /\ resp.body = "empty" \/ ~whole
      <3>. HIDE DEF whole
      <3>. QED
        BY <2>1, <2>2, Endings
    <2>4. ~whole => got = "cut"
      BY DEF IInv, TypeOK
    <2>. QED
      BY <2>3, <2>4 DEF NoneIsExplained
  <1>. QED
    BY <1>1, Invariance, PTL

-----------------------------------------------------------------------------
\* Decoding takes off what encoding has put on, once for each time.
LEMMA DecodeEncode ==
    ASSUME NEW p \in [id : Ids, coded : Nat, based : BOOLEAN]
    PROVE  /\ Encode(p) \in [id : Ids, coded : Nat, based : BOOLEAN]
           /\ Decode(Encode(p)) = p
           /\ Encode(p).id = p.id /\ Encode(p).based = p.based
           /\ p.id = "plain" => Encode(p) = p
           /\ p.id # "plain" => Encode(p).coded = p.coded + 1
  <1>1. CASE p.id = "plain"
    BY <1>1 DEF Encode, Decode
  <1>2. CASE p.id # "plain"
    <2>1. Encode(p) = [id |-> p.id, coded |-> p.coded + 1, based |-> p.based]
      BY <1>2 DEF Encode
    <2>2. Decode(Encode(p)) = [id |-> p.id, coded |-> p.coded, based |-> p.based]
      BY <1>2, <2>1 DEF Decode
    <2>. QED
      BY <1>2, <2>1, <2>2
  <1>. QED
    BY <1>1, <1>2

\* What do and its namesakes sign and send.
LEMMA SignedAndSent ==
    ASSUME NEW t \in Targets
    PROVE  LET m == MethodPath(t, t.based)
               coded == IF t.id = "plain" THEN 0 ELSE 1
           IN  /\ m.id = t.id /\ m.coded = coded /\ m.based = t.based
               /\ m \in [id : Ids, coded : Nat, based : BOOLEAN]
               /\ MethodPath(t, FALSE) = [m EXCEPT !.based = FALSE]
               /\ Signed("go", t) = m /\ Wire("go", t) = Encode(m)
               /\ \A s : s # "go" => /\ Signed(s, t) = MethodPath(t, FALSE)
                                     /\ Wire(s, t) = m
  <1>. DEFINE m == MethodPath(t, t.based)
              coded == IF t.id = "plain" THEN 0 ELSE 1
  <1>1. t.id \in Ids /\ t.based \in BOOLEAN
    BY DEF Targets
  <1>2. ASSUME NEW b
        PROVE  MethodPath(t, b) = [id |-> t.id, coded |-> coded, based |-> b]
    BY DEF MethodPath, Encode
  <1>. HIDE DEF coded
  <1>3. m = [id |-> t.id, coded |-> coded, based |-> t.based]
    BY <1>2, Zenon
  <1>. HIDE DEF m
  <1>4. ASSUME NEW b
        PROVE  MethodPath(t, b) = [m EXCEPT !.based = b]
    <2>1. ASSUME NEW i, NEW n, NEW d
          PROVE  [id |-> i, coded |-> n, based |-> b]
                    = [[id |-> i, coded |-> n, based |-> d] EXCEPT !.based = b]
      OBVIOUS
    <2>2. [id |-> t.id, coded |-> coded, based |-> b]
            = [[id |-> t.id, coded |-> coded, based |-> t.based] EXCEPT !.based = b]
      BY <2>1, Zenon
    <2>. QED
      BY <1>2, <1>3, <2>2, Zenon
  <1>5. /\ m \in [id : Ids, coded : Nat, based : BOOLEAN]
        /\ m.id = t.id /\ m.coded = coded /\ m.based = t.based
    <2>1. ASSUME NEW i \in Ids, NEW n \in Nat, NEW b \in BOOLEAN
          PROVE  LET r == [id |-> i, coded |-> n, based |-> b]
                 IN  /\ r \in [id : Ids, coded : Nat, based : BOOLEAN]
                     /\ r.id = i /\ r.coded = n /\ r.based = b
      OBVIOUS
    <2>2. coded \in Nat
      BY DEF coded
    <2>. QED
      BY <1>1, <1>3, <2>1, <2>2, Zenon
  <1>6. Decode(Encode(m)) = m
    BY <1>5, DecodeEncode
  <1>7. /\ Signed("go", t) = m /\ Wire("go", t) = Encode(m)
        /\ \A s : s # "go" => Signed(s, t) = MethodPath(t, FALSE) /\ Wire(s, t) = m
    BY <1>6 DEF Signed, Wire, m
  <1>. QED
    BY <1>4, <1>5, <1>7 DEF m, coded

\* Whether the server takes the base URL's path off or sees it.
LEMMA ReadBased ==
    ASSUME NEW p \in [id : Ids, coded : Nat, based : BOOLEAN], NEW server \in Servers
    PROVE  /\ server.strips =>
                PathRead(server, p) = IF server.decodes
                    THEN Decode([p EXCEPT !.based = FALSE]) ELSE [p EXCEPT !.based = FALSE]
           /\ ~server.strips \/ ~p.based =>
                PathRead(server, p) = IF server.decodes THEN Decode(p) ELSE p
  <1>. DEFINE q == [p EXCEPT !.based = @ /\ ~server.strips]
  <1>1. PathRead(server, p) = IF server.decodes THEN Decode(q) ELSE q
    BY DEF PathRead
  <1>2. server.strips => q = [p EXCEPT !.based = FALSE]
    OBVIOUS
  <1>3. ~server.strips \/ ~p.based => q = p
    <2>1. CASE ~p.based
      <3>1. (p.based /\ ~server.strips) = p.based
        BY <2>1
      <3>. QED
        BY <3>1
    <2>2. CASE p.based /\ ~server.strips
      <3>1. (p.based /\ ~server.strips) = p.based
        BY <2>2
      <3>. QED
        BY <3>1
    <2>. QED
      BY <2>1, <2>2
  <1>. HIDE DEF q
  <1>. QED
    BY <1>1, <1>2, <1>3

\* The path that is signed is the one the server reads, in the cases named.
LEMMA SignedIsRead ==
    ASSUME NEW s, NEW t \in Targets, NEW server \in Servers,
           t.id = "plain" \/ server.decodes = (s = "go"),
           t.based => server.strips = (s # "go")
    PROVE  Verifies(s, t, server)
  <1>. DEFINE m == MethodPath(t, t.based)
  <1>1. t.id \in Ids /\ t.based \in BOOLEAN
    BY DEF Targets
  <1>2. m \in [id : Ids, coded : Nat, based : BOOLEAN] /\ m.id = t.id /\ m.based = t.based
    BY SignedAndSent
  <1>3. CASE s = "go"
    <2>1. Signed(s, t) = m /\ Wire(s, t) = Encode(m)
      BY <1>3, SignedAndSent
    <2>2. /\ Encode(m) \in [id : Ids, coded : Nat, based : BOOLEAN]
          /\ Encode(m).based = t.based
          /\ Decode(Encode(m)) = m
          /\ t.id = "plain" => Encode(m) = m
      BY <1>2, DecodeEncode
    <2>. HIDE DEF m
    <2>3. ~server.strips \/ ~Encode(m).based
      BY <1>3, <2>2
    <2>4. PathRead(server, Encode(m)) = IF server.decodes THEN Decode(Encode(m)) ELSE Encode(m)
      BY <2>2, <2>3, ReadBased
    <2>5. t.id = "plain" \/ server.decodes
      BY <1>3
    <2>. QED
      BY <2>1, <2>2, <2>4, <2>5 DEF Verifies
  <1>4. CASE s # "go"
    <2>1. Signed(s, t) = MethodPath(t, FALSE) /\ Wire(s, t) = m
      BY <1>4, SignedAndSent
    <2>2. MethodPath(t, FALSE) = [m EXCEPT !.based = FALSE]
      BY SignedAndSent
    <2>3. \/ server.decodes = FALSE
          \/ /\ t.id = "plain"
             /\ Decode(m) = m /\ Decode([m EXCEPT !.based = FALSE]) = [m EXCEPT !.based = FALSE]
      BY <1>2, <1>4 DEF Decode, Servers
    <2>4. PathRead(server, m) = [m EXCEPT !.based = FALSE]
      <3>1. CASE server.strips
        BY <1>2, <2>3, <3>1, ReadBased
      <3>2. CASE ~server.strips
        <4>1. t.based = FALSE
          BY <1>1, <1>4, <3>2
        <4>2. [m EXCEPT !.based = FALSE] = m
          BY <1>2, <4>1
        <4>. QED
          BY <1>2, <2>3, <3>2, <4>2, ReadBased
      <3>. QED
        BY <3>1, <3>2
    <2>. QED
      BY <2>1, <2>2, <2>4 DEF Verifies
  <1>. QED
    BY <1>3, <1>4

\* The methods that put an id in the path encode it, and sdk-go/client.go has
\* its path encoded once more: the HMAC covers the path the server reads in the
\* cases that the property names, and the id arrives encoded once too often in
\* Go alone.
THEOREM SignaturesVerify == Spec => []SignedAsRead
  <1>1. IInv => SignedAsRead
    <2>. SUFFICES ASSUME IInv PROVE SignedAsRead
      OBVIOUS
    <2>1. target \in Targets /\ target.id \in Ids /\ target.based \in BOOLEAN
      BY DEF IInv, TypeOK, Targets
    <2>2. ASSUME NEW server \in Servers,
                 target.id = "plain" \/ server.decodes = (sdk = "go"),
                 target.based => server.strips = (sdk # "go")
          PROVE  Verifies(sdk, target, server)
      BY <2>1, <2>2, SignedIsRead
    <2>. DEFINE m == MethodPath(target, target.based)
    <2>3. /\ m \in [id : Ids, coded : Nat, based : BOOLEAN] /\ m.id = target.id
          /\ m.coded = IF target.id = "plain" THEN 0 ELSE 1
      BY <2>1, SignedAndSent
    <2>4. CASE sdk = "go"
      <3>1. Decode(Wire(sdk, target)) = m
        BY <2>1, <2>3, <2>4, SignedAndSent, DecodeEncode
      <3>. QED
        BY <2>2, <2>3, <2>4, <3>1 DEF SignedAsRead, IdArrives
    <2>5. CASE sdk # "go"
      <3>1. Wire(sdk, target) = m
        BY <2>1, <2>5, SignedAndSent
      <3>2. target.id # "plain" => Decode(m).coded = 0
        BY <2>3 DEF Decode
      <3>. QED
        BY <2>2, <2>5, <3>1, <3>2 DEF SignedAsRead, IdArrives
    <2>. QED
      BY <2>4, <2>5
  <1>. QED
    BY <1>1, Invariance, PTL
=============================================================================
