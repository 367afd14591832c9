--------------------------- MODULE OutboundLadder ---------------------------
(***************************************************************************)
(* What the two languages share of a declared send: the binding of a       *)
(* selector, the ladder its destination is taken from, and the draft of a  *)
(* claimed site.  A step that yields nothing is {}.                        *)
(***************************************************************************)
EXTENDS FactMerge

OrElse(found, others) == IF found # {} THEN found ELSE others

CallOfMember(sink, member) == SelectSeq(sink.calls, LAMBDA c : c.member = member)

(* A member may bind a selector of its own.                                *)
Binding(match, key) == IF match.call[key] # <<>> THEN match.call[key] ELSE match.sink[key]

-----------------------------------------------------------------------------

Destination(ref, binding) ==
  [kind |-> IF ref.kind = "config_ref" THEN "config_ref" ELSE "literal",
   ref |-> ref, binding |-> binding]

Undetermined(reason) == [kind |-> "unknown", ref |-> Unknown(reason), binding |-> "none"]

(* The values that constructions bind, those that are known.               *)
Constructed(values, binding) == {Destination(v, binding) : v \in {u \in values : u.kind # "unknown"}}

Exhausted(readable) == Undetermined(IF readable THEN "open_world_dispatch" ELSE "cross_boundary")

(* The first step that yields a value wins.                                *)
Ladder(selector, instance, owner, declaration, readable) ==
  IF selector = <<>> THEN {Undetermined("operation_mapping_unresolved")}
  ELSE OrElse(instance, OrElse(owner, OrElse(declaration, {Exhausted(readable)})))

(* A hard-coded absolute URL is its own destination.                       *)
DestinationsOfUrl(url, others) ==
  IF IsAbsolute(url) THEN {Destination(UrlOrigin(url), "instance")} ELSE others

-----------------------------------------------------------------------------

SiteAnchor(site) == [file |-> site.view, start |-> site.call.start, end |-> site.call.end]

OutboundDraft(site, provenance, method, path, destinations, join) ==
  LET operation == [method |-> method, path |-> path, destinations |-> destinations]
  IN  [owner |-> site.owner, operation |-> operation, site |-> SiteAnchor(site),
       provenance |-> {provenance}, join |-> join,
       resolution |-> DeriveResolution(operation, TRUE)]
=============================================================================
