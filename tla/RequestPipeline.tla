-------------------------- MODULE RequestPipeline --------------------------
(***************************************************************************)
(* One request at a time through the pipeline every API method uses: do    *)
(* and decodeErr of sdk-go/client.go, do of sdk-node/src/client.ts, _do    *)
(* and _urllib_do of sdk-python/ztxbas/client.py.  A call gets at most one *)
(* answer and is never repeated; the head of the answer and its body       *)
(* arrive apart, the body may be cut short, and each SDK measures its      *)
(* timeout differently.                                                    *)
(***************************************************************************)
EXTENDS Integers, Signing

CONSTANTS
    Sdks,        \* which of "go", "node" and "python" make calls
    Timeout,     \* DefaultTimeout, timeoutMs, timeout
    BodyIdle     \* Node's own limit on a silence within a body

ASSUME PipelineAssumption ==
    /\ Sdks \subseteq {"go", "node", "python"}
    /\ Timeout \in Nat \ {0} /\ BodyIdle \in Nat /\ BodyIdle > Timeout

VARIABLES
    sdk, op,     \* the SDK and the kind of method of the call
    target,      \* the id in its path and the base URL
    phase,       \* where the call is
    resp,        \* the answer whose head has arrived
    age, idle,   \* time since the request was sent, since the last byte came
    got,         \* how much of the answer the last call got
    out          \* how it ended

vars == <<sdk, op, target, phase, resp, age, idle, got, out>>

\* Whether the method decodes a body (respBody of do) or wants none.
Ops == {"value", "void"}

\* An answer: "envelope" is the JSON object the API documents, "json" any
\* other JSON value, null among them.  300 stands for the statuses between the
\* successes and the errors that the HTTP clients do not follow and hand on.
Statuses == {200, 204, 300, 401, 403, 404, 409, 502}
Codes == {"", "UNREGISTERED_ORIGIN", "OTHER"}
Answers ==
    {r \in [status : Statuses, code : Codes,
            body : {"envelope", "json", "text", "empty"}] :
        /\ r.code # "" => r.body = "envelope" /\ r.status >= 400
        /\ r.status = 204 => r.body = "empty"}

\* What the openapi document and the error tables of the READMEs name.
Documented(r) ==
    /\ r.body = "envelope" /\ r.code # ""
    /\ r.code = "UNREGISTERED_ORIGIN" => r.status = 403

Classes == {"unauthorized", "notFound", "conflict", "origin", "plain"}
Api(class) == [kind |-> "api", class |-> class]
Plain(kind) == [kind |-> kind, class |-> "plain"]

\* "value" and "none" are successes; "sdk" is any other error of the SDK;
\* "foreign" is an exception that is not a ZtxbasError.
Outcomes == [kind : {"api", "value", "none", "sdk", "foreign"}, class : Classes]
NoAnswer == [status |-> 0, code |-> "", body |-> "empty"]

ClockCap == BodyIdle + 1

TypeOK ==
    /\ sdk \in Sdks /\ op \in Ops /\ target \in Targets
    /\ phase \in {"idle", "sent", "head"}
    /\ resp \in Answers \cup {NoAnswer}
    /\ phase = "head" => resp # NoAnswer
    /\ age \in 0..ClockCap /\ idle \in 0..ClockCap
    /\ got \in {"nothing", "cut", "whole"}
    /\ got # "nothing" => resp # NoAnswer
    /\ out \in Outcomes

Init ==
    /\ sdk \in Sdks /\ op \in Ops /\ target \in Targets
    /\ phase = "idle"
    /\ resp = NoAnswer
    /\ age = 0 /\ idle = 0
    /\ got = "nothing"
    /\ out = Plain("none")

-----------------------------------------------------------------------------
\* Mutant: an error class the SDKs do not have.
ByStatusForbidden(status) ==
    CASE status = 401 -> "unauthorized"
      [] status = 403 -> "forbidden"
      [] status = 404 -> "notFound"
      [] status = 409 -> "conflict"
      [] OTHER -> "plain"

\* The error class of a status, unless the code says otherwise.
ByStatus(status) ==
    CASE status = 401 -> "unauthorized"
      [] status = 404 -> "notFound"
      [] status = 409 -> "conflict"
      [] OTHER -> "plain"

\* Mutant: the code is looked at only in a 409.
GoClassMisplaced(status, code) ==
    IF status = 409 /\ code = "UNREGISTERED_ORIGIN"
    THEN "origin" ELSE ByStatus(status)

\* newAPIError looks at the status first, apiErrorFromResponse at the code.
GoClass(status, code) ==
    IF ByStatus(status) = "plain" /\ code = "UNREGISTERED_ORIGIN"
    THEN "origin" ELSE ByStatus(status)
ApiErrorFromResponse(status, code) ==
    IF code = "UNREGISTERED_ORIGIN" THEN "origin" ELSE ByStatus(status)

\* Go, the body of a success that is wanted: null decodes into any struct,
\* other JSON values than objects do not.
GoDecodes(r, whole) ==
    (IF whole /\ r.body \in {"envelope", "json"} THEN {Plain("value")} ELSE {})
    \cup IF whole /\ r.body = "envelope" THEN {} ELSE {Plain("sdk")}

\* What is left when do has returned nil for a 204 and an error from 400 on.
GoSucceeds(r) == r.status # 204 /\ r.status < 400

\* Mutant: an error body that cannot be read is an error of its own.
GoEndsOnReadError(r, whole) ==
    CASE r.status = 204 -> {Plain("none")}
      [] r.status >= 400 /\ whole -> {Api(GoClass(r.status, r.code))}
      [] r.status >= 400 /\ ~whole -> {Plain("sdk")}
      [] GoSucceeds(r) /\ op = "void" -> {Plain("none")}
      [] GoSucceeds(r) /\ op = "value" -> GoDecodes(r, whole)

\* Go: errors of reading or decoding an error body are ignored, and a body
\* nobody wants is not read.
GoEnds(r, whole) ==
    CASE r.status = 204 -> {Plain("none")}
      [] r.status >= 400 ->
            {Api(GoClass(r.status, IF whole THEN r.code ELSE ""))}
      [] GoSucceeds(r) /\ op = "void" -> {Plain("none")}
      [] GoSucceeds(r) /\ op = "value" -> GoDecodes(r, whole)

\* Node: when json() fails, or gives null, the body is used up, so that the
\* text() which follows throws a TypeError; below 400 json() is unguarded.
NodeEnds(r, whole) ==
    LET decodes == whole /\ r.body \in {"envelope", "json"}
        api == Api(ApiErrorFromResponse(r.status, r.code))
    IN  CASE r.status = 204 -> {Plain("none")}
          [] r.status # 204 /\ ~decodes -> {Plain("foreign")}
          [] r.status >= 400 /\ decodes ->
                {api} \cup IF r.body = "json" THEN {Plain("foreign")} ELSE {}
          [] OTHER -> {Plain("value")}

\* Mutant: an answer without a body is None whatever its status.
PyDecodesEmptyFirst(r) ==
    CASE r.body = "empty" -> Plain("none")
      [] r.status >= 400 /\ r.body = "json" -> Plain("foreign")
      [] r.status >= 400 /\ r.body \in {"envelope", "text"} ->
            Api(ApiErrorFromResponse(r.status, r.code))
      [] OTHER -> Plain(IF r.body = "text" THEN "sdk" ELSE "value")

\* Python, the body that read() returned (of a 3xx too, which urllib raises and
\* _urllib_do returns): env.get is called on whatever JSON value an error
\* holds, and below 400 an empty body is None.
PyDecodes(r) ==
    CASE r.status < 400 /\ r.body = "empty" -> Plain("none")
      [] r.status >= 400 /\ r.body = "json" -> Plain("foreign")
      [] r.status >= 400 /\ r.body # "json" ->
            Api(ApiErrorFromResponse(r.status, r.code))
      [] OTHER -> Plain(IF r.body = "text" THEN "sdk" ELSE "value")

\* A read that fails raises past the handlers of _urllib_do; one that comes
\* back short gives a body that does not decode, or an empty one.
PyReads(r, whole) ==
    IF whole
    THEN {PyDecodes(r)}
    ELSE {Plain("foreign")} \cup
         {PyDecodes([r EXCEPT !.code = "", !.body = b]) : b \in {"text", "empty"}}

\* How a call may end when its body has arrived whole, or else was cut.
EndsWith(r, whole) ==
    CASE sdk = "go"     -> GoEnds(r, whole)
      [] sdk = "node"   -> NodeEnds(r, whole)
      [] sdk = "python" -> PyReads(r, whole)

-----------------------------------------------------------------------------
End(g, o) ==
    /\ phase' = "idle"
    /\ age' = 0 /\ idle' = 0
    /\ got' = g
    /\ out' = o
    /\ UNCHANGED <<sdk, op, target, resp>>

\* No request can be built: the random source fails, or the caller's ctx is
\* nil.  Only Go has errors of its own for that.
Unsent ==
    /\ phase = "idle"
    /\ sdk' = "go" /\ sdk' \in Sdks /\ op' \in Ops /\ target' \in Targets
    /\ resp' = NoAnswer
    /\ got' = "nothing"
    /\ out' = Plain("sdk")
    /\ UNCHANGED <<phase, age, idle>>

\* A method is called: its request is signed and sent.
Send ==
    /\ phase = "idle"
    /\ sdk' \in Sdks /\ op' \in Ops /\ target' \in Targets
    /\ phase' = "sent"
    /\ resp' = NoAnswer
    /\ got' = "nothing"
    /\ out' = Plain("none")
    /\ UNCHANGED <<age, idle>>

\* Mutant: nothing catches what fetch rejects with.
SendFailsUncaught ==
    /\ phase = "sent"
    /\ \/ sdk # "node" /\ End("nothing", Plain("sdk"))
       \/ sdk # "go" /\ End("nothing", Plain("foreign"))

\* No answer: refused, reset, timed out.  urllib wraps only what goes wrong
\* until the request is sent; waiting for the head, it raises past the
\* handlers of _urllib_do.
SendFails ==
    /\ phase = "sent"
    /\ \/ End("nothing", Plain("sdk"))
       \/ sdk = "python" /\ End("nothing", Plain("foreign"))

\* The head of the answer arrives.
Head(r) ==
    /\ phase = "sent"
    /\ phase' = "head"
    /\ resp' = r
    /\ idle' = 0
    /\ UNCHANGED <<sdk, op, target, age, got, out>>

\* The whole body has arrived, or the rest of it never does.
Body ==
    /\ phase = "head"
    /\ \E o \in EndsWith(resp, TRUE) : End("whole", o)
BodyCut ==
    /\ phase = "head" /\ resp.body # "empty"
    /\ \E o \in EndsWith(resp, FALSE) : End("cut", o)

\* Some bytes of the head or of the body arrive.
Trickle ==
    /\ phase # "idle"
    /\ idle' = 0
    /\ UNCHANGED <<sdk, op, target, phase, resp, age, got, out>>

\* Mutant: the Go client's timeout ends with the head.
MayWaitForBody ==
    CASE sdk = "go"     -> IF phase = "sent" THEN age < Timeout
                                             ELSE idle < BodyIdle
      [] sdk = "node"   -> IF phase = "sent" THEN age < Timeout
                                             ELSE idle < BodyIdle
      [] sdk = "python" -> idle < Timeout

\* Go's timeout covers the body; Node's is cleared when the head has come;
\* Python's is a timeout on every read of the socket.
MayWait ==
    CASE sdk = "go"     -> age < Timeout
      [] sdk = "node"   -> IF phase = "sent" THEN age < Timeout
                                             ELSE idle < BodyIdle
      [] sdk = "python" -> idle < Timeout

Tick ==
    /\ phase # "idle"
    /\ MayWait
    /\ age' = IF age < ClockCap THEN age + 1 ELSE age
    /\ idle' = IF idle < ClockCap THEN idle + 1 ELSE idle
    /\ UNCHANGED <<sdk, op, target, phase, resp, got, out>>

Next ==
    \/ Unsent \/ Send \/ SendFails
    \/ \E r \in Answers : Head(r)
    \/ Body \/ BodyCut
    \/ Trickle \/ Tick

\* Time passes, and a call that may wait no longer ends.  Nothing is assumed
\* of the server: it may trickle bytes for ever.
Spec ==
    /\ Init /\ [][Next]_vars
    /\ WF_vars(Tick)
    /\ WF_vars(~MayWait /\ (SendFails \/ Body \/ BodyCut))

-----------------------------------------------------------------------------
\* The documented error of a response, as the three SDKs describe it.
DocumentedClass(r) ==
    IF r.code = "UNREGISTERED_ORIGIN" THEN "origin" ELSE ByStatus(r.status)

\* A documented error answer that arrives whole ends in the same error class
\* in the three SDKs, although they look at the code and the status in
\* different orders.
SdksAgreeOnErrors ==
    got = "whole" /\ Documented(resp) => out = Api(DocumentedClass(resp))

\* decodeErr: "we still return a meaningful error with the status code".  Once
\* the head of an error has arrived, a Go call ends in the APIError of its
\* status, whether the body is JSON or not, cut short or too late.
GoKeepsTheStatus ==
    sdk = "go" /\ got # "nothing" /\ resp.status >= 400 =>
        /\ out.kind = "api"
        /\ out.class \in {ByStatus(resp.status), "origin"}

\* When a method may return no value: on a 204; in Go, if it wants none; in
\* Python also on an empty body, be it sent so or cut to nothing.
NoneIsExplained ==
    \/ resp.status = 204
    \/ sdk = "go" /\ op = "void"
    \/ sdk = "python" /\ (resp.body = "empty" \/ got = "cut")

\* No SDK takes a 4xx or 5xx for a success, and the value a method returns is
\* of a body that arrived whole.  A method that returns none has a reason to;
\* in Python the reason may be that a success was cut to nothing, so that None
\* is no evidence of an answer that was meant to be empty.
NoErrorIsASuccess ==
    got # "nothing" /\ out.kind \in {"value", "none"} =>
        /\ resp.status < 400
        /\ out.kind = "value" => got = "whole" /\ resp.body \in {"envelope", "json"}
        /\ out.kind = "none" => NoneIsExplained

\* errors.ts:10, "Base class for every SDK-thrown error", and errors.py:13 as far
\* as they are true: an exception that is no ZtxbasError reaches the caller only
\* in Node, for a body that is cut or not the documented object, and in Python,
\* for a read that fails or an error whose JSON is no object.  So the documented
\* answers of the API, when they arrive whole, never end in one.
ForeignErrorsAreExplained ==
    out.kind = "foreign" =>
        \/ /\ sdk = "node" /\ got # "nothing"
           /\ got = "whole" => resp.body # "envelope"
        \/ /\ sdk = "python"
           /\ got = "whole" => resp.status >= 400 /\ resp.body = "json"

\* sdk-go/origins.go: "a defensive escape keeps the HMAC canonical path
\* predictable".  The path a request is signed for is the one the server reads:
\* for a plain id and a base URL without a path at every server; for any id at
\* a server that reads the decoded path if the SDK is Go, the request line if
\* it is Node or Python; and with a path in the base URL, at a server that sees
\* it if the SDK is Go, and does not if it is Node or Python.  The id arrives
\* as it was given, but for one that needs encoding in Go.
SignedAsRead ==
    /\ \A server \in Servers :
        /\ target.id = "plain" \/ server.decodes = (sdk = "go")
        /\ target.based => server.strips = (sdk # "go")
        => Verifies(sdk, target, server)
    /\ sdk = "go" => (IdArrives(sdk, target) = (target.id = "plain"))
    /\ sdk # "go" => IdArrives(sdk, target)

\* A Go call ends, even if the server trickles its answer for ever.
GoCallsEnd == sdk = "go" /\ phase # "idle" ~> phase = "idle"
=============================================================================
