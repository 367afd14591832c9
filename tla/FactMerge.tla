----------------------------- MODULE FactMerge -----------------------------
(***************************************************************************)
(* From drafts to facts: the identity of a fact, the inbound merge table,  *)
(* the resolution ladder, and what the report says of the merged set: the  *)
(* cross-check of the two halves, the coverage and the diagnostics.        *)
(*                                                                         *)
(* A draft of an endpoint is an extraction: an operation (method, path and *)
(* destinations, none for an endpoint), the contract operations it names,  *)
(* the halves it comes from and its evidence.  Every draft of the program  *)
(* has an unproven handler, so a merge has no handler to choose.           *)
(***************************************************************************)
EXTENDS ValueIr

InLibrary == {"operation_in_library", "operation_in_library_root"}

-----------------------------------------------------------------------------
(* The resolution ladder.                                                  *)

HasUnknownIdentity(operation) ==
  ContainsUnknown(operation.method) \/ ContainsUnknown(operation.path)

(* A destination is unproven by its kind: the value it refers to is not    *)
(* looked into.                                                            *)
HasUnknownRequired(operation, requiresDestination) ==
  \/ HasUnknownIdentity(operation)
  \/ requiresDestination /\ \E d \in operation.destinations : d.kind = "unknown"

DeriveResolution(operation, requiresDestination) ==
  IF HasUnknownRequired(operation, requiresDestination) THEN "unresolved"
  ELSE IF Cardinality(operation.destinations) > 1 THEN "ambiguous"
  ELSE "resolved"

-----------------------------------------------------------------------------
(* Identity.                                                               *)

AnchorOf(evidence) == [file |-> evidence.file, start |-> evidence.start, end |-> evidence.end]

Precedes(a, b) ==
  \/ a.file < b.file
  \/ a.file = b.file /\ a.start < b.start
  \/ a.file = b.file /\ a.start = b.start /\ a.end <= b.end

(* Evidence is ordered by where it stands.                                 *)
FirstAnchor(evidence) ==
  LET anchors == {AnchorOf(e) : e \in evidence}
  IN  CHOOSE a \in anchors : \A b \in anchors : Precedes(a, b)

EndpointCoreOfRoute(draft) ==
  [method |-> draft.operation.method, path |-> draft.operation.path, anchor |-> {}]

(* The anchor keeps apart two registrations that have no route to tell     *)
(* them apart.                                                             *)
EndpointCore(draft) ==
  [method |-> draft.operation.method,
   path   |-> draft.operation.path,
   anchor |-> IF HasUnknownIdentity(draft.operation) THEN {FirstAnchor(draft.evidence)} ELSE {}]

OutboundCore(draft) ==
  [owner    |-> draft.owner,
   method   |-> draft.operation.method,
   path     |-> draft.operation.path,
   variants |-> {[kind |-> d.kind, ref |-> d.ref] : d \in draft.operation.destinations},
   site     |-> draft.site]

(* What a reader of the sources drafts for a registration at a call.       *)
EndpointDraft(method, path, anchor) ==
  LET operation == [method |-> method, path |-> path, destinations |-> {}]
  IN  [operation |-> operation, refs |-> {}, provenance |-> {"router"},
       resolution |-> DeriveResolution(operation, FALSE),
       evidence |-> {[file |-> anchor.file, start |-> anchor.start, end |-> anchor.end,
                      role |-> "registration"]}]

-----------------------------------------------------------------------------
(* The inbound merge table.                                                *)

GroupOf(drafts, i) == {j \in DOMAIN drafts : EndpointCore(drafts[j]) = EndpointCore(drafts[i])}

HeadOf(group) == CHOOSE i \in group : \A j \in group : i <= j

HasSharedContract(drafts, group) ==
  \E i, j \in group : i # j /\ \E r \in drafts[i].refs, q \in drafts[j].refs : r.contract = q.contract

HasDuplicateContractOperation(drafts, group) ==
  \E i, j \in group : i # j /\ drafts[i].refs \cap drafts[j].refs # {}

MergeGroupOfHead(drafts, group) ==
  [drafts[HeadOf(group)] EXCEPT !.refs     = UNION {drafts[i].refs : i \in group},
                                !.evidence = UNION {drafts[i].evidence : i \in group}]

MergeGroupCommonHalves(drafts, group) ==
  [drafts[HeadOf(group)] EXCEPT
     !.provenance = {p \in @ : \A i \in group : p \in drafts[i].provenance},
     !.evidence   = UNION {drafts[i].evidence : i \in group}]

MergeGroup(drafts, group) ==
  [drafts[HeadOf(group)] EXCEPT
     !.refs       = UNION {drafts[i].refs : i \in group},
     !.provenance = UNION {drafts[i].provenance : i \in group},
     !.evidence   = UNION {drafts[i].evidence : i \in group},
     !.resolution = IF HasDuplicateContractOperation(drafts, group) THEN "conflicting" ELSE @]

FinalizeEndpoints(drafts) == {MergeGroup(drafts, GroupOf(drafts, i)) : i \in DOMAIN drafts}

-----------------------------------------------------------------------------
(* The report.                                                             *)

MissingHalfOfResolved(fact, hasInventory) ==
  IF fact.resolution # "resolved" THEN {}
  ELSE IF fact.provenance = {"openapi"} THEN {"openapi_route_not_in_code"}
  ELSE IF fact.provenance = {"router"} /\ hasInventory THEN {"router_route_not_in_openapi"}
  ELSE {}

(* A fact of one half is a route the other half did not account for.       *)
MissingHalf(fact, hasInventory) ==
  IF HasUnknownIdentity(fact.operation) THEN {}
  ELSE IF fact.provenance = {"openapi"} THEN {"openapi_route_not_in_code"}
  ELSE IF fact.provenance = {"router"} /\ hasInventory THEN {"router_route_not_in_openapi"}
  ELSE {}

LiteralOf(value) ==
  IF value.kind = "literal" /\ value.parts # <<>> THEN value.parts[1].is ELSE <<>>

NoShape(arity) == [arity |-> arity, receiver |-> <<>>]

RouteDiagnostic(fact, code) ==
  [code |-> code, callee |-> LiteralOf(fact.operation.method) \o LiteralOf(fact.operation.path),
   shape |-> NoShape(0), evidence |-> {}]

CrossCheck(endpoints, hasInventory) ==
  UNION {{RouteDiagnostic(fact, code) : code \in MissingHalf(fact, hasInventory)} :
           fact \in endpoints}

Declared(endpoints) == {fact \in endpoints : "openapi" \in fact.provenance}

HolesOf(operation) ==
  Reasons(operation.method) \cup Reasons(operation.path)
    \cup UNION {Reasons(d.ref) : d \in operation.destinations}

IsDeferredToLinker(fact) ==
  /\ fact.resolution # "resolved"
  /\ HolesOf(fact.operation) # {}
  /\ HolesOf(fact.operation) \subseteq InLibrary

(* An axis nothing declares is unmeasured, written here as no record.      *)
InboundCoverage(endpoints, hasInventory) ==
  IF ~hasInventory THEN {}
  ELSE {[declared   |-> Cardinality(Declared(endpoints)),
         registered |-> Cardinality({f \in Declared(endpoints) : "router" \in f.provenance})]}

OutboundCoverage(operations, hasOutboundShape) ==
  LET local == SelectSeq(operations, LAMBDA f : ~IsDeferredToLinker(f))
  IN  IF ~hasOutboundShape THEN {}
      ELSE {[classified |-> Len(local),
             resolved   |-> Len(SelectSeq(local, LAMBDA f : f.resolution = "resolved")),
             inLibrary  |-> Len(operations) - Len(local)]}

(* Sites merge by what they call and how; the count of a diagnostic is the *)
(* number of its anchors.                                                  *)
MergeDiagnostics(sites) ==
  {[code |-> s.code, callee |-> s.callee, shape |-> s.shape,
    evidence |-> {t.anchor : t \in {u \in sites : /\ u.code = s.code
                                                  /\ u.callee = s.callee
                                                  /\ u.shape = s.shape}}] : s \in sites}
=============================================================================
