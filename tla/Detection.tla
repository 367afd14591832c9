----------------------------- MODULE Detection -----------------------------
(***************************************************************************)
(* The detection use case over a unit of Python and Go sources: the        *)
(* declared inventory, the registrations the Python code makes, the merge  *)
(* of both, the requests the code sends, and the report.  The unit is      *)
(* chosen once; the use case is a pure function of it, taken here one      *)
(* contract, one serving call, one registration, one call site and one Go  *)
(* method at a time.  Go routes are the business of GoRouterScope.         *)
(***************************************************************************)
EXTENDS InboundFacts, PythonInbound, PythonOutbound, GoOutbound

(* Beside what InboundFacts reads, a unit has                              *)
(*   sources    the Python sources, in order                               *)
(*   goSources  the Go sources, in order                                   *)
(*   routers    the declared router types                                  *)
(*   detect     [sinks, registry, moduleIds, consumes]                     *)

VARIABLES
  anchored,                   \* the registrations a served class holds
  operations, goOperations,   \* the outbound facts of either language
  consumed, candidates,       \* offsets read through def-use, unclaimed sites
  selectors                   \* claimed sites with an unresolved selector

vars == <<modules, files, unit, stage, next, drafts, anchored, inbound, endpoints, operations,
          goOperations, consumed, candidates, selectors, diagnostics, coverage>>

HasOutboundShape == unit.detect.sinks # <<>> \/ unit.detect.consumes # <<>>

-----------------------------------------------------------------------------
(* What a stage walks over.                                                *)

(* Every call of the unit, module by module.                               *)
AllCalls ==
  FlattenSeq([m \in DOMAIN modules |->
    LET calls == Calls(m)
    IN  [i \in DOMAIN calls |-> [view |-> m, call |-> calls[i].call, scope |-> calls[i].scope]]])

ServingCalls == SelectSeq(AllCalls, LAMBDA c : IsServing(c.call, c.view))

Registering == SelectSeq(AllCalls, LAMBDA c : MatchingRouter(c.call, c.view, unit.routers) # {})

Sites == FlattenSeq([m \in DOMAIN modules |-> CallSites(m)])

-----------------------------------------------------------------------------

Init ==
  /\ InboundInit
  /\ modules = <<>> /\ files = <<>> /\ anchored = {}
  /\ operations = <<>> /\ goOperations = <<>>
  /\ consumed = {} /\ candidates = {} /\ selectors = {}

Ingest ==
  /\ IngestEntry
  /\ UNCHANGED <<modules, files, anchored, operations, goOperations, consumed, candidates,
                 selectors>>

(* Nothing is parsed for the inbound half where no router is declared.     *)
BeginInbound ==
  /\ stage = "inventory" /\ next \notin DOMAIN unit.serves
  /\ modules' = IF unit.routers = <<>> THEN <<>> ELSE ParseModules(unit.sources)
  /\ stage' = "serving" /\ next' = 1
  /\ UNCHANGED <<files, goOperations, unit, drafts, anchored, inbound, endpoints, operations,
                 consumed, candidates, selectors, diagnostics, coverage>>

(* A serving call anchors what the served classes hold; one whose          *)
(* application resolves nowhere is named.                                  *)
ReadServing ==
  /\ stage = "serving" /\ next \in DOMAIN ServingCalls
  /\ LET serving == ServingCalls[next]
         served  == ServedClasses(serving, serving.view)
     IN  /\ anchored' = anchored \cup UNION {Registrations(class) : class \in served}
         /\ inbound' = inbound \cup
              (IF served = {} THEN {UnresolvedServing(serving, serving.view)} ELSE {})
  /\ next' = next + 1
  /\ UNCHANGED <<files, goOperations, modules, unit, stage, drafts, endpoints, operations,
                 consumed, candidates, selectors, diagnostics, coverage>>

BeginRegistrations ==
  /\ stage = "serving" /\ next \notin DOMAIN ServingCalls
  /\ stage' = "registrations" /\ next' = 1
  /\ UNCHANGED <<files, goOperations, modules, unit, drafts, anchored, inbound, endpoints,
                 operations, consumed, candidates, selectors, diagnostics, coverage>>

(* A registration nothing served holds is named, and drafted without a     *)
(* path.                                                                   *)
ReadRegistration ==
  /\ stage = "registrations" /\ next \in DOMAIN Registering
  /\ LET registration == Registering[next]
         call   == registration.call
         view   == registration.view
         router == CHOOSE r \in MatchingRouter(call, view, unit.routers) : TRUE
         held   == SiteKey(view, call) \in anchored
     IN  /\ drafts' = drafts \o DraftsFor(call, view, router, held)
         /\ inbound' = inbound \cup (IF held THEN {} ELSE {UnanchoredSite(call, view, router)})
  /\ next' = next + 1
  /\ UNCHANGED <<files, goOperations, modules, unit, stage, anchored, endpoints, operations,
                 consumed, candidates, selectors, diagnostics, coverage>>

(* A detector that merges its own drafts and leaves two facts of a route.  *)
MergeHalvesApart ==
  LET Half(from) == SelectSeq(drafts, LAMBDA d : d.provenance = {from})
  IN  /\ stage = "registrations" /\ next \notin DOMAIN Registering
      /\ endpoints' = FinalizeEndpoints(Half("openapi")) \cup FinalizeEndpoints(Half("router"))
      /\ diagnostics' = diagnostics \cup MergeDiagnostics(inbound)
      /\ modules' = IF HasOutboundShape THEN ParseModules(unit.sources) ELSE <<>>
      /\ stage' = "sites" /\ next' = 1
      /\ UNCHANGED <<files, goOperations, unit, drafts, anchored, inbound, operations, consumed,
                     candidates, selectors, coverage>>

(* Both halves are merged by identity before the outbound half is read.    *)
MergeHalves ==
  /\ stage = "registrations" /\ next \notin DOMAIN Registering
  /\ endpoints' = FinalizeEndpoints(drafts)
  /\ diagnostics' = diagnostics \cup MergeDiagnostics(inbound)
  /\ modules' = IF HasOutboundShape THEN ParseModules(unit.sources) ELSE <<>>
  /\ stage' = "sites" /\ next' = 1
  /\ UNCHANGED <<files, goOperations, unit, drafts, anchored, inbound, operations, consumed,
                 candidates, selectors, coverage>>

(* What a site adds: the draft of the tier that claims it, or a candidate. *)
Read(site, found) ==
  /\ operations' = operations \o SetToSeq(found)
  /\ consumed' = consumed \cup ReadOffsets(site, unit.detect)
  /\ selectors' = selectors \cup UnresolvedSelectors(site, unit.detect)
  /\ candidates' = candidates \cup
       {[start |-> site.call.start, site |-> c] : c \in Candidates(site, unit.detect, found)}

Classified(site) == Read(site, Classify(site, unit.detect))

ReadSite ==
  /\ stage = "sites" /\ next \in DOMAIN Sites
  /\ Classified(Sighted(Sites[next], unit.detect.registry))
  /\ next' = next + 1
  /\ UNCHANGED <<files, goOperations, modules, unit, stage, drafts, anchored, inbound, endpoints,
                 diagnostics, coverage>>

(* The Go half parses the unit again.                                      *)
BeginMethods ==
  /\ stage = "sites" /\ next \notin DOMAIN Sites
  /\ files' = IF unit.detect.sinks = <<>> THEN <<>> ELSE ParseGoFiles(unit.goSources)
  /\ stage' = "methods" /\ next' = 1
  /\ UNCHANGED <<modules, unit, drafts, anchored, inbound, endpoints, operations, goOperations,
                 consumed, candidates, selectors, diagnostics, coverage>>

ReadMethod ==
  /\ stage = "methods" /\ next \in DOMAIN GoMethods
  /\ goOperations' = goOperations \o
       FactsOfMethod(GoMethods[next].declaration, GoMethods[next].file, unit.detect.sinks)
  /\ next' = next + 1
  /\ UNCHANGED <<modules, files, unit, stage, drafts, anchored, inbound, endpoints, operations,
                 consumed, candidates, selectors, diagnostics, coverage>>

(* Candidates that a claimed site read are withdrawn after the walk.       *)
Unclassified == {c.site : c \in {d \in candidates : d.start \notin consumed}}

Report ==
  /\ stage = "methods" /\ next \notin DOMAIN GoMethods
  /\ diagnostics' = diagnostics \cup MergeDiagnostics(Unclassified \cup selectors)
                      \cup CrossCheck(endpoints, HasInventory)
  /\ coverage' = [inbound |-> InboundCoverage(endpoints, HasInventory),
                  outbound |-> OutboundCoverage(operations \o goOperations, HasOutboundShape)]
  /\ stage' = "reported" /\ next' = 1
  /\ UNCHANGED <<modules, files, unit, drafts, anchored, inbound, endpoints, operations,
                 goOperations, consumed, candidates, selectors>>

Next ==
  \/ Ingest \/ BeginInbound \/ ReadServing \/ BeginRegistrations \/ ReadRegistration
  \/ MergeHalves \/ ReadSite \/ BeginMethods \/ ReadMethod \/ Report

Spec == Init /\ [][Next]_vars
=============================================================================
