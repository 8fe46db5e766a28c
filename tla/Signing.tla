------------------------------ MODULE Signing ------------------------------
(***************************************************************************)
(* The path of a request: the one the SDK signs, the one it sends, and the *)
(* one the server computes the HMAC of (sdk-go/client.go and sign.go,      *)
(* sdk-node/src/client.ts and sign.ts, sdk-python/ztxbas/client.py and     *)
(* sign.py).  The other fields of the canonical form (method, timestamp,   *)
(* nonce, body) are sent as they are signed in all three.                  *)
(*                                                                         *)
(* Of a path only two things are told apart: the segment that holds the id *)
(* of a challenge or of an origin, with the number of times it has been    *)
(* percent-encoded, and whether it begins with the path of the base URL.   *)
(***************************************************************************)
EXTENDS Naturals

\* An id of letters and digits, which no encoding changes, or one with a
\* slash, a percent sign or the like.  The base URL has a path, or has none.
Ids == {"plain", "reserved"}
Targets == [id : Ids, based : BOOLEAN]

Paths == [id : Ids, coded : 0..2, based : BOOLEAN]

Encode(p) == IF p.id = "plain" THEN p ELSE [p EXCEPT !.coded = @ + 1]
Decode(p) == IF p.id = "plain" THEN p ELSE [p EXCEPT !.coded = @ - 1]

\* The path that a method gives to do, with its id encoded by PathEscape,
\* encodeURIComponent or quote; base: do has put the base URL's path before it.
MethodPath(t, base) == Encode([id |-> t.id, coded |-> 0, based |-> base])

\* The path on the wire.  In Go target.Path is encoded again by String(); in
\* Node and Python it is appended to the base URL as it is.
Wire(sdk, t) ==
    IF sdk = "go" THEN Encode(MethodPath(t, t.based)) ELSE MethodPath(t, t.based)

\* Mutant: Go signs the path as it is sent.
SignedEncoded(sdk, t) ==
    IF sdk = "go" THEN Wire(sdk, t) ELSE MethodPath(t, FALSE)

\* The path that is signed: in Go req.URL.Path, which NewRequest has decoded
\* from the wire's; in Node and Python the path do was given.
Signed(sdk, t) ==
    IF sdk = "go" THEN Decode(Wire(sdk, t)) ELSE MethodPath(t, FALSE)

\* How a server may compute its path: from the request line or decoded, behind
\* a proxy that takes the base URL's path off or in front of any.
Servers == [decodes : BOOLEAN, strips : BOOLEAN]

PathRead(server, p) ==
    LET q == [p EXCEPT !.based = @ /\ ~server.strips]
    IN  IF server.decodes THEN Decode(q) ELSE q

Verifies(sdk, t, server) == Signed(sdk, t) = PathRead(server, Wire(sdk, t))

\* The id that the server's handler is given.
IdArrives(sdk, t) == t.id = "plain" \/ Decode(Wire(sdk, t)).coded = 0
=============================================================================
