---------------------------- MODULE JwksEndpoint ----------------------------
(***************************************************************************)
(* The server side of JWT verification, as the three SDKs see it, and the  *)
(* clocks of the host the SDK runs on.  The server is not part of the      *)
(* repository: what is said of it here is what the SDKs rely on.           *)
(*                                                                         *)
(* GET /.well-known/jwks.json returns a document, a set of entries with a  *)
(* kid.  The operator rotates the signing key, so the document changes;    *)
(* a kid is a hash of the public key, so a kid names one key for ever.     *)
(*                                                                         *)
(* Time is discrete.  A document is constant during a time unit and may    *)
(* change when the clock advances.                                         *)
(***************************************************************************)
EXTENDS Integers

CONSTANTS
    Kids,        \* key identifiers
    Documents,   \* the JWKS documents the server may publish
    Rotation,    \* Rotation[d]: the documents that may follow document d
    Start,       \* when the SDK's process starts (the server is up since 0)
    MaxTime,     \* bound: the clock stops here
    MaxBack      \* bound: how far the host's wall clock is ever set back

\* An entry's kind: a P-256 key, some other key type, or a P-256 entry whose
\* coordinates do not decode to a point of the curve.
Kinds == {"p256", "other", "broken"}

ASSUME EndpointAssumption ==
    /\ Start \in Nat
    /\ MaxTime \in Nat
    /\ MaxBack \in Nat
    /\ Documents # {}
    /\ Documents \subseteq SUBSET [kid : Kids, kind : Kinds]
    /\ Rotation \in [Documents -> SUBSET Documents]

VARIABLES
    now,         \* true time (a monotonic clock reads it)
    back,        \* by how much the host's wall clock has been set back
    published,   \* the document the endpoint serves
    since        \* since[k]: when k last joined or left the document

endpointVars == <<now, back, published, since>>

\* What the host's wall clock reads (time.Now().Unix, Date.now, time.time).
Wall == now - back

\* The kids a verifier can use out of a document.
Usable(doc) == {e.kid : e \in {d \in doc : d.kind = "p256"}}

\* The latest time at which k was a usable key of the document, resp. was not.
LastIn(k)  == IF k \in Usable(published) THEN now ELSE since[k] - 1
LastOut(k) == IF k \in Usable(published) THEN since[k] - 1 ELSE now

EndpointTypeOK ==
    /\ now \in Nat
    /\ back \in 0..MaxBack
    /\ published \in Documents
    /\ since \in [Kids -> Nat]
    /\ \A k \in Kids : since[k] <= now

EndpointInit ==
    /\ now = Start
    /\ back = 0
    /\ published \in Documents
    /\ since = [k \in Kids |-> 0]

\* Time passes; the operator may have rotated the signing key.
Advance(doc) ==
    /\ now < MaxTime
    /\ doc \in Rotation[published] \cup {published}
    /\ now' = now + 1
    /\ published' = doc
    /\ since' = [k \in Kids |->
                    IF (k \in Usable(doc)) = (k \in Usable(published))
                    THEN since[k] ELSE now + 1]
    /\ UNCHANGED back

\* The host's wall clock is set back by one unit (NTP, an operator).
SetClockBack ==
    /\ back < MaxBack
    /\ back' = back + 1
    /\ UNCHANGED <<now, published, since>>
=============================================================================
