------------------------- MODULE JwksEndpointProofs -------------------------
(***************************************************************************)
(* Facts about the endpoint and the clocks that the proofs about the       *)
(* verifiers share.                                                        *)
(***************************************************************************)
EXTENDS JwksEndpoint, TLAPS

\* ks is what a verifier reads in a document that the server published at
\* some time no earlier than t.
Vouched(ks, t) ==
    \A k \in Kids : IF k \in ks THEN t <= LastIn(k) ELSE t <= LastOut(k)

\* The usable keys of a document are key identifiers.
LEMMA UsableKids == \A doc \in Documents : Usable(doc) \subseteq Kids
  BY EndpointAssumption DEF Usable

\* The endpoint starts in its types.
LEMMA EndpointInitTypes == EndpointInit => EndpointTypeOK
  BY EndpointAssumption DEF EndpointInit, EndpointTypeOK

\* The last sightings of a key are integers, never in the future.
LEMMA Sightings ==
    ASSUME EndpointTypeOK, NEW k \in Kids
    PROVE  /\ LastIn(k) \in Int /\ LastIn(k) <= now
           /\ LastOut(k) \in Int /\ LastOut(k) <= now
  BY DEF EndpointTypeOK, LastIn, LastOut

\* The document of the moment is vouched for now.
LEMMA PublishedVouched == EndpointTypeOK => Vouched(Usable(published), now)
  <1>. SUFFICES ASSUME EndpointTypeOK, NEW k \in Kids
                PROVE  IF k \in Usable(published) THEN now <= LastIn(k)
                                                  ELSE now <= LastOut(k)
    BY DEF Vouched
  <1>. QED
    BY DEF EndpointTypeOK, LastIn, LastOut

\* When the clock advances, no key's last presence or absence moves back.
LEMMA AdvanceMonotone ==
    ASSUME EndpointTypeOK, NEW doc \in Documents, Advance(doc)
    PROVE  /\ EndpointTypeOK'
           /\ now' = now + 1 /\ back' = back
           /\ \A k \in Kids : /\ LastIn(k) <= LastIn(k)'
                              /\ LastOut(k) <= LastOut(k)'
  <1>1. EndpointTypeOK'
    BY DEF EndpointTypeOK, Advance
  <1>2. ASSUME NEW k \in Kids
        PROVE  LastIn(k) <= LastIn(k)' /\ LastOut(k) <= LastOut(k)'
    BY DEF EndpointTypeOK, Advance, LastIn, LastOut
  <1>. QED
    BY <1>1, <1>2 DEF Advance

\* Setting the wall clock back says nothing about the server.
LEMMA ClockBackKeeps ==
    ASSUME EndpointTypeOK, SetClockBack
    PROVE  /\ EndpointTypeOK' /\ now' = now
           /\ \A k \in Kids : LastIn(k)' = LastIn(k) /\ LastOut(k)' = LastOut(k)
  BY EndpointAssumption DEF EndpointTypeOK, SetClockBack, LastIn, LastOut

\* A step of a verifier leaves the endpoint alone, lets time pass or sets
\* the clock back; in any case the endpoint's history only grows.
EndpointStep ==
    \/ UNCHANGED endpointVars
    \/ \E doc \in Documents : Advance(doc)
    \/ SetClockBack

\* The endpoint keeps its types, and time does not go back.
LEMMA HistoryGrows ==
    ASSUME EndpointTypeOK, EndpointStep
    PROVE  /\ EndpointTypeOK'
           /\ now <= now'
           /\ \A k \in Kids : LastIn(k) <= LastIn(k)' /\ LastOut(k) <= LastOut(k)'
  <1>1. CASE UNCHANGED endpointVars
    <2>1. EndpointTypeOK' /\ now' = now
      BY <1>1 DEF endpointVars, EndpointTypeOK
    <2>2. ASSUME NEW k \in Kids
          PROVE  LastIn(k)' = LastIn(k) /\ LastOut(k)' = LastOut(k)
      BY <1>1 DEF endpointVars, LastIn, LastOut
    <2>. QED
      BY <2>1, <2>2, Sightings DEF EndpointTypeOK
  <1>2. ASSUME NEW doc \in Documents, Advance(doc)
        PROVE  /\ EndpointTypeOK' /\ now <= now'
               /\ \A k \in Kids : /\ LastIn(k) <= LastIn(k)'
                                  /\ LastOut(k) <= LastOut(k)'
    BY <1>2, AdvanceMonotone DEF EndpointTypeOK
  <1>3. CASE SetClockBack
    BY <1>3, ClockBackKeeps, Sightings DEF EndpointTypeOK
  <1>. QED
    BY <1>1, <1>2, <1>3 DEF EndpointStep

\* Once vouched for, always vouched for, whatever the endpoint does.
LEMMA VouchedKept ==
    ASSUME EndpointTypeOK, EndpointStep, NEW ks, NEW t \in Int, Vouched(ks, t)
    PROVE  \A k \in Kids : IF k \in ks THEN t <= LastIn(k)' ELSE t <= LastOut(k)'
  <1>. TAKE k \in Kids
  <1>1. /\ EndpointTypeOK'
        /\ LastIn(k) <= LastIn(k)' /\ LastOut(k) <= LastOut(k)'
    BY HistoryGrows
  <1>2. LastIn(k) \in Int /\ LastOut(k) \in Int
    BY Sightings
  <1>3. LastIn(k)' \in Int /\ LastOut(k)' \in Int
    BY <1>1 DEF EndpointTypeOK, LastIn, LastOut
  <1>. QED
    BY <1>1, <1>2, <1>3 DEF Vouched

\* And for any earlier time as well.
LEMMA VouchedEarlier ==
    ASSUME EndpointTypeOK, NEW ks, NEW t \in Int, NEW u \in Int,
           u <= t, Vouched(ks, t)
    PROVE  Vouched(ks, u)
  <1>. SUFFICES ASSUME NEW k \in Kids
                PROVE  IF k \in ks THEN u <= LastIn(k) ELSE u <= LastOut(k)
    BY DEF Vouched
  <1>1. LastIn(k) \in Int /\ LastOut(k) \in Int
    BY Sightings
  <1>. QED
    BY <1>1 DEF Vouched
=============================================================================
