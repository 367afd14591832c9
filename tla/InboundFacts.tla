---------------------------- MODULE InboundFacts ----------------------------
(***************************************************************************)
(* What a detection promises of its endpoints, whatever reads the sources: *)
(* the declared inventory is ingested, readers add a draft for each        *)
(* registration they find, both halves are merged, cross-checked and       *)
(* counted.  What the readers find is left open here; Detection gives one  *)
(* such reading of Python and Go.                                          *)
(***************************************************************************)
EXTENDS FactMerge

CONSTANT Units
  \* specs      the documents found, a sequence of [locator, readable, operations]
  \* serves     the served contracts, a sequence of [spec, contract, mount]

DeclaredOperation == [path : Seq(STRING), member : DOMAIN Upper, id : STRING]

ASSUME UnitsDeclare ==
  \A u \in Units :
    /\ u.specs \in Seq([locator : STRING, readable : BOOLEAN, operations : Seq(DeclaredOperation)])
    /\ u.serves \in Seq([spec : STRING, contract : STRING, mount : Seq(STRING)])

(* The members of a path item are spelled in one case.                     *)
ASSUME SpellingsDiffer ==
  \A m, n \in DOMAIN Upper : Upper[m] = Upper[n] => m = n

VARIABLES
  unit, stage, next,     \* next indexes what the stage walks over
  drafts, inbound,       \* extracted endpoints, diagnosed sites
  endpoints,             \* the merged endpoint facts
  diagnostics, coverage

inboundVars == <<unit, stage, next, drafts, inbound, endpoints, diagnostics, coverage>>

HasInventory == unit.serves # <<>>

-----------------------------------------------------------------------------
(* The inventory.                                                          *)

(* An operation id that a document repeats names none of them.             *)
WithUniqueIds(declared) ==
  [i \in DOMAIN declared |->
     IF \E j \in DOMAIN declared : i # j /\ declared[i].id = declared[j].id
       THEN [declared[i] EXCEPT !.id = "none"] ELSE declared[i]]

InventoryDraft(declared, entry, file) ==
  LET method    == MethodNamed(declared.member)
      path      == Literal(CanonicalPath(<<entry.mount, declared.path>>))
      operation == [method |-> method, path |-> path, destinations |-> {}]
      route     == IF declared.id = "none" THEN <<method, path>> ELSE <<>>
  IN  [operation |-> operation,
       refs |-> {[contract |-> entry.contract, id |-> declared.id, route |-> route]},
       provenance |-> {"openapi"},
       resolution |-> DeriveResolution(operation, FALSE),
       evidence |-> {[file |-> file, start |-> 0, end |-> 0, role |-> "inventory"]}]

(* The document of an entry, by the order of the documents; 0 is none.     *)
DocumentOf(entry) ==
  LET found == {i \in DOMAIN unit.specs : unit.specs[i].locator = entry.spec}
  IN  IF found = {} THEN 0 ELSE CHOOSE i \in found : \A j \in found : i <= j

SpecUnreadable(entry) ==
  [code |-> "openapi_spec_unreadable", callee |-> <<entry.spec>>,
   shape |-> NoShape(0), evidence |-> {}]

-----------------------------------------------------------------------------
(* The stages.                                                             *)

InboundInit ==
  /\ unit \in Units
  /\ stage = "inventory" /\ next = 1
  /\ drafts = <<>> /\ inbound = {} /\ endpoints = {} /\ diagnostics = {}
  /\ coverage = [inbound |-> {}, outbound |-> {}]

(* One served contract: a document that is missing or unreadable is named, *)
(* a readable one adds a draft for each operation.                         *)
IngestEntry ==
  /\ stage = "inventory" /\ next \in DOMAIN unit.serves
  /\ LET entry    == unit.serves[next]
         document == DocumentOf(entry)
         readable == document # 0 /\ unit.specs[document].readable
         declared == WithUniqueIds(unit.specs[document].operations)
     IN  IF readable
           THEN /\ drafts' = drafts \o
                     [i \in DOMAIN declared |-> InventoryDraft(declared[i], entry, document)]
                /\ UNCHANGED diagnostics
           ELSE /\ diagnostics' = diagnostics \cup {SpecUnreadable(entry)}
                /\ UNCHANGED drafts
  /\ next' = next + 1
  /\ UNCHANGED <<unit, stage, inbound, endpoints, coverage>>

BeginReading ==
  /\ stage = "inventory" /\ next \notin DOMAIN unit.serves
  /\ stage' = "serving" /\ next' \in Nat
  /\ UNCHANGED <<unit, drafts, inbound, endpoints, diagnostics, coverage>>

IsRegistration(draft) ==
  \E e \in draft.evidence :
    /\ AnchorOf(e) \in [file : Nat, start : Nat, end : Nat]
    /\ draft = EndpointDraft(draft.operation.method, draft.operation.path, AnchorOf(e))

(* The codes of the cross-check, which no site of the sources carries.     *)
MissingHalfCodes == {"openapi_route_not_in_code", "router_route_not_in_openapi"}

(* A reader adds drafts of registrations behind those there are, and names *)
(* sites of its own.                                                       *)
Extract ==
  /\ stage \in {"serving", "registrations"} /\ stage' \in {"serving", "registrations"}
  /\ drafts' \in Seq(ToSet(drafts')) /\ IsPrefix(drafts, drafts')
  /\ \A i \in DOMAIN drafts' \ DOMAIN drafts : IsRegistration(drafts'[i])
  /\ \A site \in inbound' \ inbound : site.code \notin MissingHalfCodes
  /\ next' \in Nat
  /\ UNCHANGED <<unit, endpoints, diagnostics, coverage>>

(* Every draft of either half goes into one merge.                         *)
Merge ==
  /\ stage = "registrations" /\ stage' = "sites"
  /\ endpoints' = FinalizeEndpoints(drafts)
  /\ diagnostics' = diagnostics \cup MergeDiagnostics(inbound)
  /\ next' \in Nat
  /\ UNCHANGED <<unit, drafts, inbound, coverage>>

ReadRequests ==
  /\ stage \in {"sites", "methods"} /\ stage' \in {"sites", "methods"}
  /\ next' \in Nat
  /\ UNCHANGED <<unit, drafts, inbound, endpoints, diagnostics, coverage>>

(* The cross-check and the coverage look at the merged facts alone; the    *)
(* rest of the report is about the requests.                               *)
ReportFacts ==
  /\ stage = "methods" /\ stage' = "reported"
  /\ LET missing == CrossCheck(endpoints, HasInventory)
     IN  /\ diagnostics \cup missing \subseteq diagnostics'
         /\ \A d \in diagnostics' \ (diagnostics \cup missing) : d.code \notin MissingHalfCodes
  /\ coverage'.inbound = InboundCoverage(endpoints, HasInventory)
  /\ next' \in Nat
  /\ UNCHANGED <<unit, drafts, inbound, endpoints>>

InboundNext ==
  IngestEntry \/ BeginReading \/ Extract \/ Merge \/ ReadRequests \/ ReportFacts

InboundSpec == InboundInit /\ [][InboundNext]_inboundVars

-----------------------------------------------------------------------------
(* What is promised of the report.                                         *)

Reported == stage = "reported"

(* The operations the served documents declare, each with the entry that   *)
(* serves it.                                                              *)
DeclaredOperations ==
  LET served == {e \in DOMAIN unit.serves :
                   /\ DocumentOf(unit.serves[e]) # 0
                   /\ unit.specs[DocumentOf(unit.serves[e])].readable}
  IN  UNION {{<<e, i>> : i \in DOMAIN unit.specs[DocumentOf(unit.serves[e])].operations} :
               e \in served}

OperationAt(e, i) == unit.specs[DocumentOf(unit.serves[e])].operations[i]

RouteAt(e, i) ==
  <<OperationAt(e, i).member,
    CanonicalPath(<<unit.serves[e].mount, OperationAt(e, i).path>>)>>

(* An id that its own document repeats names no operation.                 *)
IdAt(e, i) ==
  LET Repeated(j) == j # i /\ OperationAt(e, j).id = OperationAt(e, i).id
  IN  IF \E j \in DOMAIN unit.specs[DocumentOf(unit.serves[e])].operations : Repeated(j)
        THEN "none" ELSE OperationAt(e, i).id

(* No declared route is lost between the documents and the report: the     *)
(* denominator of the coverage is the number of routes the served          *)
(* documents declare, and each is registered in code or reported as not.   *)
DeclaredIsCountedOrReported ==
  Reported /\ HasInventory =>
    \A c \in coverage.inbound :
      /\ c.declared = Cardinality({RouteAt(o[1], o[2]) : o \in DeclaredOperations})
      /\ c.declared = c.registered
           + Cardinality({d \in diagnostics : d.code = "openapi_route_not_in_code"})

(* A route is conflicting exactly when one contract declares it twice by   *)
(* one name: the same operation id, or the route itself where the document *)
(* gives no usable id.                                                     *)
ConflictIsDoubleDeclaration ==
  Reported =>
    \A f \in endpoints :
      f.resolution = "conflicting" <=>
        \E o, p \in DeclaredOperations :
          /\ o # p
          /\ RouteAt(o[1], o[2]) = RouteAt(p[1], p[2])
          /\ unit.serves[o[1]].contract = unit.serves[p[1]].contract
          /\ IdAt(o[1], o[2]) = IdAt(p[1], p[2])
          /\ f.operation.method = MethodNamed(RouteAt(o[1], o[2])[1])
          /\ f.operation.path = Literal(RouteAt(o[1], o[2])[2])

(* The facts are a function of the set of extractions: whichever half is   *)
(* extracted first, the merge is the same.                                 *)
OrderOfDraftsIsIrrelevant ==
  Reported => endpoints = FinalizeEndpoints(Reverse(drafts))

(* Two registrations without a proven route stay two facts: each unproven  *)
(* fact stands at the one registration it was read from, and none of them  *)
(* disappears.                                                             *)
UnprovenNeverMerge ==
  Reported =>
    LET unproven == {f \in endpoints : HasUnknownIdentity(f.operation)}
        extracted == {d \in ToSet(drafts) : HasUnknownIdentity(d.operation)}
    IN  /\ \A f \in unproven : Cardinality(f.evidence) = 1
        /\ Cardinality(unproven) = Cardinality({<<d.operation, d.evidence>> : d \in extracted})
=============================================================================
