-------------------------- MODULE FactMergeProofs --------------------------
(***************************************************************************)
(* What the merge of endpoint drafts does for every sequence of drafts:    *)
(* it has no order, it loses nothing, and it keeps identities apart.       *)
(***************************************************************************)
EXTENDS FactMerge, FiniteSetTheorems, WellFoundedInduction, TLAPS

Sightings == [file : Nat, start : Nat, end : Nat, role : {"inventory", "registration"}]

(* A draft has one piece of evidence and the resolution of its operation.  *)
EndpointDrafts(Values, Refs) ==
  {d \in [operation  : [method : Values, path : Values, destinations : {{}}],
          refs       : SUBSET Refs,
          provenance : SUBSET {"openapi", "router"},
          resolution : {"resolved", "ambiguous", "unresolved"},
          evidence   : {{e} : e \in Sightings}] :
     d.resolution = DeriveResolution(d.operation, FALSE)}

Orders(n) ==
  {p \in [1..n -> 1..n] : /\ \A i, j \in 1..n : p[i] = p[j] => i = j
                          /\ \A j \in 1..n : \E i \in 1..n : p[i] = j}

Reordered(drafts, order) == [i \in DOMAIN drafts |-> drafts[order[i]]]

-----------------------------------------------------------------------------

(* A set of indices has a least one.                                       *)
LEMMA LeastIndex ==
  ASSUME NEW n \in Nat, NEW S \in SUBSET (1..n), S # {}
  PROVE  \E i \in S : \A j \in S : i <= j
<1> DEFINE T == {1..i : i \in S}
<1> DEFINE R == StrictSubsetOrdering(1..n)
<1>1. FiniteSubsetsOf(1..n) = SUBSET (1..n)
  <2>1. IsFiniteSet(1..n)
    BY FS_Interval
  <2> QED BY <2>1, FS_FiniteSubsetsOfFinite
<1>2. IsWellFoundedOn(R, SUBSET (1..n))
  BY <1>1, FS_StrictSubsetOrderingWellFounded
<1>3. T \subseteq SUBSET (1..n) /\ T # {}
  <2>1. \A i \in S : 1..i \subseteq 1..n
    OBVIOUS
  <2>2. \E i \in S : 1..i \in T
    OBVIOUS
  <2> QED BY <2>1, <2>2
<1>4. PICK x \in T : \A y \in T : ~(<<y, x>> \in R)
  <2> HIDE DEF R, T
  <2> QED BY <1>2, <1>3, WFMin
<1>5. PICK i \in S : x = 1..i
  OBVIOUS
<1>6. ASSUME NEW j \in S, j < i PROVE FALSE
  <2>1. 1..j \in T /\ 1..j \subseteq 1..i /\ 1..j # 1..i
    BY <1>6
  <2>2. <<1..j, 1..i>> \in R
    BY <2>1 DEF StrictSubsetOrdering
  <2> QED BY <1>4, <1>5, <2>1, <2>2
<1> QED BY <1>6

(* A group holds the index it was formed for, and its head.                *)
LEMMA GroupsHaveHeads ==
  ASSUME NEW Values, NEW Refs, NEW drafts \in Seq(EndpointDrafts(Values, Refs)),
         NEW i \in DOMAIN drafts
  PROVE  /\ i \in GroupOf(drafts, i)
         /\ HeadOf(GroupOf(drafts, i)) \in GroupOf(drafts, i)
<1> DEFINE group == GroupOf(drafts, i)
<1>1. i \in group /\ group \subseteq 1..Len(drafts) /\ Len(drafts) \in Nat
  BY DEF GroupOf
<1>2. \E k \in group : \A j \in group : k <= j
  <2> HIDE DEF group
  <2> QED BY <1>1, LeastIndex
<1>3. HeadOf(group) \in group
  <2> HIDE DEF group
  <2> QED BY <1>2 DEF HeadOf
<1> QED BY <1>1, <1>3

(* Drafts of one identity have one operation, and with it one resolution.  *)
LEMMA CoreIsOperation ==
  ASSUME NEW Values, NEW Refs, NEW a \in EndpointDrafts(Values, Refs),
         NEW b \in EndpointDrafts(Values, Refs), EndpointCore(a) = EndpointCore(b)
  PROVE  a.operation = b.operation /\ a.resolution = b.resolution
<1>1. a.operation.method = b.operation.method /\ a.operation.path = b.operation.path
  BY DEF EndpointCore
<1>2. a.operation = b.operation
  BY <1>1 DEF EndpointDrafts
<1> QED BY <1>2 DEF EndpointDrafts

(* What a merged group holds, field by field.                              *)
MergedAt(drafts, i, group) ==
  [operation  |-> drafts[i].operation,
   refs       |-> UNION {drafts[j].refs : j \in group},
   provenance |-> UNION {drafts[j].provenance : j \in group},
   resolution |-> IF HasDuplicateContractOperation(drafts, group) THEN "conflicting"
                  ELSE drafts[i].resolution,
   evidence   |-> UNION {drafts[j].evidence : j \in group}]

(* The head of a group stands for any of its members.                      *)
LEMMA MergedFields ==
  ASSUME NEW Values, NEW Refs, NEW drafts \in Seq(EndpointDrafts(Values, Refs)),
         NEW i \in DOMAIN drafts
  PROVE  MergeGroup(drafts, GroupOf(drafts, i)) = MergedAt(drafts, i, GroupOf(drafts, i))
<1> DEFINE group == GroupOf(drafts, i)
<1> DEFINE h == HeadOf(group)
<1>1. h \in DOMAIN drafts /\ EndpointCore(drafts[h]) = EndpointCore(drafts[i])
  BY GroupsHaveHeads DEF GroupOf
<1>2. /\ drafts[h] \in EndpointDrafts(Values, Refs) /\ drafts[i] \in EndpointDrafts(Values, Refs)
  BY <1>1
<1>3. drafts[h].operation = drafts[i].operation /\ drafts[h].resolution = drafts[i].resolution
  BY <1>1, <1>2, CoreIsOperation
<1>4. drafts[h] = [operation |-> drafts[h].operation, refs |-> drafts[h].refs,
                   provenance |-> drafts[h].provenance, resolution |-> drafts[h].resolution,
                   evidence |-> drafts[h].evidence]
  BY <1>2 DEF EndpointDrafts
<1> DEFINE refs == UNION {drafts[j].refs : j \in group}
<1> DEFINE provenance == UNION {drafts[j].provenance : j \in group}
<1> DEFINE evidence == UNION {drafts[j].evidence : j \in group}
<1> DEFINE resolution == IF HasDuplicateContractOperation(drafts, group) THEN "conflicting"
                         ELSE drafts[h].resolution
<1>5. MergeGroup(drafts, group) =
        [drafts[h] EXCEPT !.refs = refs, !.provenance = provenance, !.evidence = evidence,
                          !.resolution = resolution]
  BY Zenon DEF MergeGroup
<1>6. MergedAt(drafts, i, group) =
        [operation |-> drafts[h].operation, refs |-> refs, provenance |-> provenance,
         resolution |-> resolution, evidence |-> evidence]
  BY <1>3, Zenon DEF MergedAt
<1> HIDE DEF h, refs, provenance, evidence, resolution
<1>7. [drafts[h] EXCEPT !.refs = refs, !.provenance = provenance, !.evidence = evidence,
                        !.resolution = resolution]
        = [operation |-> drafts[h].operation, refs |-> refs, provenance |-> provenance,
           resolution |-> resolution, evidence |-> evidence]
  <2> DEFINE r == drafts[h]
  <2> DEFINE o == r.operation
  <2> DEFINE a == r.refs
  <2> DEFINE b == r.provenance
  <2> DEFINE c == r.resolution
  <2> DEFINE d == r.evidence
  <2>1. r = [operation |-> o, refs |-> a, provenance |-> b, resolution |-> c, evidence |-> d]
    BY <1>4
  <2> HIDE DEF r, o, a, b, c, d
  <2> DEFINE r1 == [operation |-> o, refs |-> refs, provenance |-> b, resolution |-> c,
                    evidence |-> d]
  <2> DEFINE r2 == [operation |-> o, refs |-> refs, provenance |-> provenance,
                    resolution |-> c, evidence |-> d]
  <2> DEFINE r3 == [operation |-> o, refs |-> refs, provenance |-> provenance,
                    resolution |-> c, evidence |-> evidence]
  <2> DEFINE r4 == [operation |-> o, refs |-> refs, provenance |-> provenance,
                    resolution |-> resolution, evidence |-> evidence]
  <2>2. [r EXCEPT !.refs = refs] = r1
    BY <2>1
  <2>3. [r1 EXCEPT !.provenance = provenance] = r2
    OBVIOUS
  <2>4. [r2 EXCEPT !.evidence = evidence] = r3
    OBVIOUS
  <2>5. [r3 EXCEPT !.resolution = resolution] = r4
    OBVIOUS
  <2> HIDE DEF r1, r2, r3, r4
  <2>6. [r EXCEPT !.refs = refs, !.provenance = provenance, !.evidence = evidence,
                  !.resolution = resolution] = r4
    BY <2>2, <2>3, <2>4, <2>5, Zenon
  <2> QED BY <2>6 DEF r, o, r4
<1> QED BY <1>5, <1>6, <1>7

-----------------------------------------------------------------------------
(* The order of the drafts.                                                *)

LEMMA ReorderedDrafts ==
  ASSUME NEW Values, NEW Refs, NEW drafts \in Seq(EndpointDrafts(Values, Refs)),
         NEW order \in Orders(Len(drafts))
  PROVE  /\ Reordered(drafts, order) \in Seq(EndpointDrafts(Values, Refs))
         /\ DOMAIN Reordered(drafts, order) = DOMAIN drafts
         /\ \A i \in DOMAIN drafts : /\ order[i] \in DOMAIN drafts
                                     /\ Reordered(drafts, order)[i] = drafts[order[i]]
<1>1. DOMAIN drafts = 1..Len(drafts) /\ Len(drafts) \in Nat
  OBVIOUS
<1>2. order \in [1..Len(drafts) -> 1..Len(drafts)]
  BY DEF Orders
<1>3. Reordered(drafts, order) \in [1..Len(drafts) -> EndpointDrafts(Values, Refs)]
  BY <1>1, <1>2 DEF Reordered
<1> QED BY <1>1, <1>2, <1>3 DEF Reordered

(* A group of the reordered drafts is the group of the same drafts.        *)
LEMMA ReorderedGroup ==
  ASSUME NEW Values, NEW Refs, NEW drafts \in Seq(EndpointDrafts(Values, Refs)),
         NEW order \in Orders(Len(drafts)), NEW i \in DOMAIN drafts
  PROVE  /\ \A j \in DOMAIN drafts :
              j \in GroupOf(Reordered(drafts, order), i) <=> order[j] \in GroupOf(drafts, order[i])
         /\ \A k \in GroupOf(drafts, order[i]) :
              \E j \in GroupOf(Reordered(drafts, order), i) : order[j] = k
         /\ GroupOf(Reordered(drafts, order), i) \subseteq DOMAIN drafts
<1> DEFINE other == Reordered(drafts, order)
<1>0. /\ DOMAIN other = DOMAIN drafts
      /\ \A j \in DOMAIN drafts : order[j] \in DOMAIN drafts /\ other[j] = drafts[order[j]]
  BY ReorderedDrafts
<1> HIDE DEF other
<1>1. \A j \in DOMAIN drafts : j \in GroupOf(other, i) <=> order[j] \in GroupOf(drafts, order[i])
  BY <1>0 DEF GroupOf
<1>2. \A k \in DOMAIN drafts : \E j \in DOMAIN drafts : order[j] = k
  BY DOMAIN drafts = 1..Len(drafts) DEF Orders
<1>3. GroupOf(other, i) \subseteq DOMAIN drafts /\ GroupOf(drafts, order[i]) \subseteq DOMAIN drafts
  BY <1>0 DEF GroupOf
<1> QED BY <1>1, <1>2, <1>3 DEF other

LEMMA MergedAlike ==
  ASSUME NEW Values, NEW Refs, NEW drafts \in Seq(EndpointDrafts(Values, Refs)),
         NEW order \in Orders(Len(drafts)), NEW i \in DOMAIN drafts
  PROVE  MergeGroup(Reordered(drafts, order), GroupOf(Reordered(drafts, order), i))
           = MergeGroup(drafts, GroupOf(drafts, order[i]))
<1> DEFINE other == Reordered(drafts, order)
<1> DEFINE there == GroupOf(other, i)
<1> DEFINE here == GroupOf(drafts, order[i])
<1>1. /\ \A j \in there : j \in DOMAIN drafts /\ order[j] \in here /\ other[j] = drafts[order[j]]
      /\ \A k \in here : \E j \in there : order[j] = k
      /\ i \in DOMAIN drafts /\ order[i] \in DOMAIN drafts /\ other[i] = drafts[order[i]]
      /\ DOMAIN other = DOMAIN drafts /\ other \in Seq(EndpointDrafts(Values, Refs))
  <2>1. /\ DOMAIN other = DOMAIN drafts /\ other \in Seq(EndpointDrafts(Values, Refs))
        /\ \A j \in DOMAIN drafts : order[j] \in DOMAIN drafts /\ other[j] = drafts[order[j]]
    BY ReorderedDrafts
  <2>2. /\ \A j \in DOMAIN drafts : j \in there <=> order[j] \in here
        /\ \A k \in here : \E j \in there : order[j] = k
        /\ there \subseteq DOMAIN drafts
    BY ReorderedGroup
  <2> HIDE DEF other, there, here
  <2> QED BY <2>1, <2>2
<1>2. \A j, k \in there : order[j] = order[k] => j = k
  <2>1. DOMAIN drafts = 1..Len(drafts)
    OBVIOUS
  <2>2. \A j, k \in DOMAIN drafts : order[j] = order[k] => j = k
    BY <2>1 DEF Orders
  <2> HIDE DEF other, there, here
  <2> QED BY <1>1, <2>2
<1>3. MergeGroup(other, there) = MergedAt(other, i, there)
  BY <1>1, MergedFields
<1>4. MergeGroup(drafts, here) = MergedAt(drafts, order[i], here)
  BY <1>1, MergedFields
<1> HIDE DEF other, there, here
<1>5. HasDuplicateContractOperation(other, there) <=> HasDuplicateContractOperation(drafts, here)
  BY <1>1, <1>2 DEF HasDuplicateContractOperation
<1>6. /\ {other[j].refs : j \in there} = {drafts[j].refs : j \in here}
      /\ {other[j].provenance : j \in there} = {drafts[j].provenance : j \in here}
      /\ {other[j].evidence : j \in there} = {drafts[j].evidence : j \in here}
  BY <1>1
<1>7. MergedAt(other, i, there) = MergedAt(drafts, order[i], here)
  BY <1>1, <1>5, <1>6 DEF MergedAt
<1> QED BY <1>3, <1>4, <1>7 DEF other, there, here

(* The facts do not depend on the order in which the halves, and the       *)
(* detectors within a half, hand in their drafts.                          *)
THEOREM OrderIsIrrelevant ==
  ASSUME NEW Values, NEW Refs, NEW drafts \in Seq(EndpointDrafts(Values, Refs)),
         NEW order \in Orders(Len(drafts))
  PROVE  FinalizeEndpoints(Reordered(drafts, order)) = FinalizeEndpoints(drafts)
<1> DEFINE other == Reordered(drafts, order)
<1>1. DOMAIN other = DOMAIN drafts /\ \A i \in DOMAIN drafts : order[i] \in DOMAIN drafts
  BY ReorderedDrafts
<1>2. \A k \in DOMAIN drafts : \E i \in DOMAIN drafts : order[i] = k
  BY DOMAIN drafts = 1..Len(drafts) DEF Orders
<1>3. \A i \in DOMAIN drafts :
        MergeGroup(other, GroupOf(other, i)) = MergeGroup(drafts, GroupOf(drafts, order[i]))
  BY MergedAlike
<1> HIDE DEF other
<1>4. FinalizeEndpoints(other) \subseteq FinalizeEndpoints(drafts)
  BY <1>1, <1>3 DEF FinalizeEndpoints
<1>5. ASSUME NEW k \in DOMAIN drafts
      PROVE  MergeGroup(drafts, GroupOf(drafts, k)) \in FinalizeEndpoints(other)
  <2>1. PICK i \in DOMAIN drafts : order[i] = k
    BY <1>2
  <2> QED BY <1>1, <1>3, <2>1 DEF FinalizeEndpoints
<1>6. FinalizeEndpoints(drafts) \subseteq FinalizeEndpoints(other)
  BY <1>5 DEF FinalizeEndpoints
<1> QED BY <1>4, <1>6 DEF other

-----------------------------------------------------------------------------
(* Identity.                                                               *)

StandsAt(evidence, anchor) == {AnchorOf(e) : e \in evidence} = {anchor}

(* The first anchor is a matter of the anchors alone.                      *)
LEMMA AnchorOfOne ==
  ASSUME NEW e \in Sightings, NEW evidence, StandsAt(evidence, AnchorOf(e))
  PROVE  FirstAnchor(evidence) = AnchorOf(e)
<1> DEFINE a == AnchorOf(e)
<1>1. Precedes(a, a)
  BY DEF Precedes, AnchorOf, Sightings
<1>2. FirstAnchor(evidence) = CHOOSE x \in {a} : \A y \in {a} : Precedes(x, y)
  BY DEF FirstAnchor, StandsAt
<1> HIDE DEF a
<1>3. (CHOOSE x \in {a} : \A y \in {a} : Precedes(x, y)) = a
  BY <1>1
<1> QED BY <1>2, <1>3 DEF a

(* A draft is one sighting: a registration, or an operation of a document. *)
LEMMA SingleSighting ==
  ASSUME NEW Values, NEW Refs, NEW drafts \in Seq(EndpointDrafts(Values, Refs)),
         NEW i \in DOMAIN drafts
  PROVE  \E e \in Sightings : drafts[i].evidence = {e}
<1>1. drafts[i] \in EndpointDrafts(Values, Refs)
  OBVIOUS
<1> QED BY <1>1 DEF EndpointDrafts

(* All the evidence of an unproven fact stands at one anchor.              *)
LEMMA OneAnchorPerUnproven ==
  ASSUME NEW Values, NEW Refs, NEW drafts \in Seq(EndpointDrafts(Values, Refs)),
         NEW i \in DOMAIN drafts
  PROVE  HasUnknownIdentity(drafts[i].operation) =>
           \A j \in GroupOf(drafts, i) : \A e \in drafts[i].evidence :
              StandsAt(drafts[j].evidence, AnchorOf(e))
<1> SUFFICES ASSUME HasUnknownIdentity(drafts[i].operation), NEW j \in GroupOf(drafts, i)
             PROVE  \A e \in drafts[i].evidence : StandsAt(drafts[j].evidence, AnchorOf(e))
  OBVIOUS
<1>1. /\ j \in DOMAIN drafts /\ EndpointCore(drafts[j]) = EndpointCore(drafts[i])
      /\ drafts[i] \in EndpointDrafts(Values, Refs) /\ drafts[j] \in EndpointDrafts(Values, Refs)
  BY DEF GroupOf
<1>2. drafts[j].operation = drafts[i].operation
  BY <1>1, CoreIsOperation
<1>3. FirstAnchor(drafts[j].evidence) = FirstAnchor(drafts[i].evidence)
  BY <1>1, <1>2 DEF EndpointCore
<1>4. PICK d \in Sightings : drafts[i].evidence = {d}
  BY <1>1 DEF EndpointDrafts
<1>5. PICK f \in Sightings : drafts[j].evidence = {f}
  BY <1>1 DEF EndpointDrafts
<1>6. FirstAnchor(drafts[i].evidence) = AnchorOf(d)
  BY <1>4, AnchorOfOne DEF StandsAt
<1>7. FirstAnchor(drafts[j].evidence) = AnchorOf(f)
  BY <1>5, AnchorOfOne DEF StandsAt
<1> QED BY <1>3, <1>4, <1>5, <1>6, <1>7 DEF StandsAt

(* Merging changes nothing that identifies a fact.                         *)
LEMMA MergingKeepsCore ==
  ASSUME NEW Values, NEW Refs, NEW drafts \in Seq(EndpointDrafts(Values, Refs)),
         NEW i \in DOMAIN drafts
  PROVE  EndpointCore(MergeGroup(drafts, GroupOf(drafts, i))) = EndpointCore(drafts[i])
<1> DEFINE group == GroupOf(drafts, i)
<1> DEFINE fact == MergeGroup(drafts, group)
<1>1. /\ fact.operation = drafts[i].operation
      /\ fact.evidence = UNION {drafts[j].evidence : j \in group}
  BY MergedFields DEF MergedAt
<1>2. CASE ~HasUnknownIdentity(drafts[i].operation)
  BY <1>1, <1>2 DEF EndpointCore
<1>3. CASE HasUnknownIdentity(drafts[i].operation)
  <2>1. PICK e \in Sightings : drafts[i].evidence = {e}
    BY SingleSighting
  <2>2. \A j \in group : \A x \in drafts[i].evidence : StandsAt(drafts[j].evidence, AnchorOf(x))
    BY <1>3, OneAnchorPerUnproven
  <2>3. i \in group
    BY GroupsHaveHeads
  <2>4. StandsAt(fact.evidence, AnchorOf(e))
    <3>1. AnchorOf(e) \in {AnchorOf(x) : x \in fact.evidence}
      <4> HIDE DEF group, fact
      <4> QED BY <1>1, <2>1, <2>3 DEF StandsAt
    <3>2. ASSUME NEW x \in fact.evidence PROVE AnchorOf(x) = AnchorOf(e)
      <4> HIDE DEF group, fact
      <4>1. PICK j \in group : x \in drafts[j].evidence
        BY <1>1, <3>2
      <4> QED BY <2>1, <2>2, <4>1 DEF StandsAt
    <3> HIDE DEF group, fact
    <3> QED BY <3>1, <3>2 DEF StandsAt
  <2>5. FirstAnchor(fact.evidence) = AnchorOf(e) /\ FirstAnchor(drafts[i].evidence) = AnchorOf(e)
    <3> HIDE DEF fact
    <3> QED BY <2>1, <2>4, AnchorOfOne DEF StandsAt
  <2> QED BY <1>1, <2>5 DEF EndpointCore
<1> QED BY <1>2, <1>3

(* "Enriching a fact never splits it" and no two facts share an identity:  *)
(* the id of a fact, a digest of its core, names one fact of the artifact. *)
THEOREM IdentitiesAreUnique ==
  ASSUME NEW Values, NEW Refs, NEW drafts \in Seq(EndpointDrafts(Values, Refs)),
         NEW f \in FinalizeEndpoints(drafts), NEW g \in FinalizeEndpoints(drafts),
         EndpointCore(f) = EndpointCore(g)
  PROVE  f = g
<1>1. PICK i \in DOMAIN drafts : f = MergeGroup(drafts, GroupOf(drafts, i))
  BY DEF FinalizeEndpoints
<1>2. PICK j \in DOMAIN drafts : g = MergeGroup(drafts, GroupOf(drafts, j))
  BY DEF FinalizeEndpoints
<1>3. EndpointCore(drafts[i]) = EndpointCore(drafts[j])
  BY <1>1, <1>2, MergingKeepsCore
<1>4. GroupOf(drafts, i) = GroupOf(drafts, j)
  BY <1>3 DEF GroupOf
<1> QED BY <1>1, <1>2, <1>4

(* "Merging never loses one": every draft is in the fact of its identity,  *)
(* with its contract operations, its half and its evidence.                *)
THEOREM NoDraftIsLost ==
  ASSUME NEW Values, NEW Refs, NEW drafts \in Seq(EndpointDrafts(Values, Refs)),
         NEW i \in DOMAIN drafts
  PROVE  \E f \in FinalizeEndpoints(drafts) :
            /\ EndpointCore(f) = EndpointCore(drafts[i]) /\ f.operation = drafts[i].operation
            /\ drafts[i].refs \subseteq f.refs
            /\ drafts[i].provenance \subseteq f.provenance
            /\ drafts[i].evidence \subseteq f.evidence
<1> DEFINE group == GroupOf(drafts, i)
<1> DEFINE fact == MergeGroup(drafts, group)
<1>1. fact \in FinalizeEndpoints(drafts)
  BY DEF FinalizeEndpoints
<1>2. EndpointCore(fact) = EndpointCore(drafts[i])
  BY MergingKeepsCore
<1>3. /\ fact.operation = drafts[i].operation
      /\ fact.refs = UNION {drafts[j].refs : j \in group}
      /\ fact.provenance = UNION {drafts[j].provenance : j \in group}
      /\ fact.evidence = UNION {drafts[j].evidence : j \in group}
  BY MergedFields DEF MergedAt
<1>4. i \in group
  BY GroupsHaveHeads
<1> HIDE DEF fact, group
<1> QED BY <1>1, <1>2, <1>3, <1>4

(* Two registrations without a proven route stay two facts: all that is    *)
(* known of an unproven fact stands at one place in the sources.           *)
THEOREM UnprovenStandAlone ==
  ASSUME NEW Values, NEW Refs, NEW drafts \in Seq(EndpointDrafts(Values, Refs)),
         NEW f \in FinalizeEndpoints(drafts), HasUnknownIdentity(f.operation)
  PROVE  \A d, e \in f.evidence : AnchorOf(d) = AnchorOf(e)
<1>1. PICK i \in DOMAIN drafts : f = MergeGroup(drafts, GroupOf(drafts, i))
  BY DEF FinalizeEndpoints
<1> DEFINE group == GroupOf(drafts, i)
<1>2. /\ f.operation = drafts[i].operation
      /\ f.evidence = UNION {drafts[j].evidence : j \in group}
  BY <1>1, MergedFields DEF MergedAt
<1>3. PICK a \in Sightings : drafts[i].evidence = {a}
  BY SingleSighting
<1>4. \A j \in group : \A x \in drafts[i].evidence : StandsAt(drafts[j].evidence, AnchorOf(x))
  <2>1. HasUnknownIdentity(drafts[i].operation)
    BY <1>2
  <2> QED BY <2>1, OneAnchorPerUnproven
<1> HIDE DEF group
<1> QED BY <1>2, <1>3, <1>4 DEF StandsAt

(* A fact is conflicting exactly when two drafts of its identity name one  *)
(* contract operation.                                                     *)
THEOREM ConflictIsDuplicate ==
  ASSUME NEW Values, NEW Refs, NEW drafts \in Seq(EndpointDrafts(Values, Refs)),
         NEW f \in FinalizeEndpoints(drafts)
  PROVE  f.resolution = "conflicting" <=>
           \E i, j \in DOMAIN drafts : /\ i # j /\ drafts[i].refs \cap drafts[j].refs # {}
                                       /\ EndpointCore(drafts[i]) = EndpointCore(f)
                                       /\ EndpointCore(drafts[j]) = EndpointCore(f)
<1>1. PICK k \in DOMAIN drafts : f = MergeGroup(drafts, GroupOf(drafts, k))
  BY DEF FinalizeEndpoints
<1> DEFINE group == GroupOf(drafts, k)
<1>2. EndpointCore(f) = EndpointCore(drafts[k])
  BY <1>1, MergingKeepsCore
<1>3. f = MergedAt(drafts, k, group)
  BY <1>1, MergedFields
<1>4. drafts[k].resolution # "conflicting"
  <2>1. drafts[k] \in EndpointDrafts(Values, Refs)
    OBVIOUS
  <2> QED BY <2>1 DEF EndpointDrafts
<1>5. f.resolution = "conflicting" <=> HasDuplicateContractOperation(drafts, group)
  <2> HIDE DEF group
  <2>1. CASE HasDuplicateContractOperation(drafts, group)
    BY <1>3, <2>1 DEF MergedAt
  <2>2. CASE ~HasDuplicateContractOperation(drafts, group)
    BY <1>3, <1>4, <2>2 DEF MergedAt
  <2> QED BY <2>1, <2>2
<1> QED BY <1>2, <1>5 DEF HasDuplicateContractOperation, GroupOf
=============================================================================
