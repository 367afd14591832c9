-------------------------- MODULE DetectionClaims --------------------------
(***************************************************************************)
(* What the use case promises of the facts it reports, each stated over    *)
(* the unit and not over the walk that found them.                         *)
(***************************************************************************)
EXTENDS Detection, GoExecution

Offsets == Nat

(* The types of the state: drafts and facts carry a resolution of the      *)
(* ladder, provenance names a half, and a site is anchored in a module.    *)
TypeOK ==
  /\ unit \in Units
  /\ stage \in {"inventory", "serving", "registrations", "sites", "methods", "reported"}
  /\ next \in Nat \ {0}
  /\ \A d \in ToSet(drafts) \cup endpoints :
       /\ d.resolution \in {"resolved", "ambiguous", "unresolved", "conflicting"}
       /\ d.provenance \subseteq {"openapi", "router"} /\ d.provenance # {}
       /\ d.evidence # {}
  /\ \A f \in ToSet(operations) :
       /\ f.resolution \in {"resolved", "ambiguous", "unresolved"}
       /\ f.operation.destinations # {}
       /\ f.site.file \in DOMAIN modules
  /\ \A f \in ToSet(goOperations) :
       /\ f.resolution \in {"resolved", "ambiguous", "unresolved"}
       /\ f.operation.destinations # {}
       /\ f.site.file \in DOMAIN files
  /\ anchored \subseteq (1..Len(unit.sources)) \X Offsets
  /\ consumed \subseteq Offsets

(* The use case is one of the detections InboundFacts describes: its       *)
(* readers only add drafts of registrations and sites of their own, the    *)
(* merge sees every draft of both halves, and the report takes nothing     *)
(* away from the cross-check.                                              *)
ImplementsInboundFacts == InboundSpec

-----------------------------------------------------------------------------
(* What a served application holds, by the language's own rules.           *)

BasesOf(class) ==
  FlattenSeq([i \in DOMAIN class.declared.bases |->
    SetToSeq(ResolveClass(BaseText(class.declared.bases[i]), class.view))])

RECURSIVE Superclasses(_, _), C3Merge(_), C3(_)

Superclasses(frontier, seen) ==
  IF frontier \subseteq seen THEN seen
  ELSE Superclasses(UNION {ToSet(BasesOf(c)) : c \in frontier \ seen}, seen \cup frontier)

(* The method resolution order: a class stands before its bases and keeps  *)
(* their order.                                                            *)
C3Merge(lists) ==
  LET rest == SelectSeq(lists, LAMBDA l : l # <<>>)
      Free(class) == \A i \in DOMAIN rest : class \notin ToSet(Tail(rest[i]))
      free == SelectSeq(rest, LAMBDA l : Free(Head(l)))
      Without(l) == IF l # <<>> /\ Head(l) = Head(free[1]) THEN Tail(l) ELSE l
  IN  IF rest = <<>> \/ free = <<>> THEN <<>>
      ELSE <<Head(free[1])>> \o C3Merge([i \in DOMAIN rest |-> Without(rest[i])])

C3(class) ==
  <<class>> \o C3Merge(Append([i \in DOMAIN BasesOf(class) |-> C3(BasesOf(class)[i])],
                              BasesOf(class)))

AllClasses ==
  UNION {{[view |-> m, declared |-> modules[m].classes[n]] : n \in DOMAIN modules[m].classes} :
           m \in DOMAIN modules}

HasDiamond ==
  \E c \in AllClasses : \E i, j \in DOMAIN BasesOf(c) :
    i # j /\ Superclasses({BasesOf(c)[i]}, {}) \cap Superclasses({BasesOf(c)[j]}, {}) # {}

(* The value a class reads for an attribute.                               *)
ReadBy(class, name) ==
  LET binding == SelectSeq(C3(class), LAMBDA c : name \in DOMAIN c.declared.constants)
  IN  IF binding = <<>> THEN {}
      ELSE {[view |-> binding[1].view, node |-> binding[1].declared.constants[name]]}

Contents(bound) ==
  IF bound.node.type = "attribute" /\ bound.node.object.type = "identifier"
    THEN UNION {ReadBy(c, bound.node.attribute) :
                  c \in ResolveClass(<<bound.node.object.name>>, bound.view)}
    ELSE OperandsOf(bound)

RECURSIVE HeldBy(_, _)

HeldBy(frontier, seen) ==
  IF frontier \subseteq seen THEN seen
  ELSE HeldBy(UNION {Contents(b) : b \in {f \in frontier \ seen : f.node.type # "call"}},
              seen \cup frontier)

Served ==
  UNION {ServedClasses(ServingCalls[i], ServingCalls[i].view) : i \in DOMAIN ServingCalls}

HeldByServed ==
  LET names == UNION {DOMAIN c.declared.constants : c \in AllClasses}
      read  == UNION {ReadBy(c, n) : c \in Served, n \in names}
  IN  {SiteKey(b.view, b.node) : b \in {h \in HeldBy(read, {}) : h.node.type = "call"}}

(* A registration is anchored exactly when a served application holds it   *)
(* as the language reads its attributes, except where a class inherits     *)
(* from one ancestor along two paths.                                      *)
HeldRoutesAreAnchored ==
  stage = "registrations" /\ next = 1 /\ ~HasDiamond => anchored = HeldByServed

(* The classes and origins a name leads to.                                *)
StepsFrom(cursor) ==
  LET declared == ClassOf(cursor.name, cursor.view)
  IN  IF declared = {} THEN FollowImport(cursor.name, cursor.view)
      ELSE UNION {{[name |-> b.name, view |-> cursor.view] : b \in ToSet(c.bases)} : c \in declared}

RECURSIVE ReachedFrom(_, _)

ReachedFrom(frontier, seen) ==
  IF frontier \subseteq seen THEN seen
  ELSE ReachedFrom(UNION {StepsFrom(c) : c \in frontier \ seen}, seen \cup frontier)

KeysCollide(cursors) ==
  \E a, b \in cursors : a # b /\ AncestorKey(AncestorAt(a.name, a.view))
                                   = AncestorKey(AncestorAt(b.name, b.view))

(* The hierarchy of a class is all that its bases and their imports lead   *)
(* to, nothing less: a walk ends early only past the depth bound or where  *)
(* two different classes answer to one key.                                *)
HierarchyIsWhole ==
  \A c \in AllClasses :
    LET start == [name |-> <<c.declared.name>>, view |-> c.view]
        reached == ReachedFrom({start}, {})
        walked == {[name |-> a.name, view |-> a.view] : a \in ToSet(Ancestry(start.name, start.view))}
    IN  /\ walked \subseteq reached
        /\ walked = reached \/ KeysCollide(reached) \/ Cardinality(reached) > HierarchyDepth + 1

(* A verb published for a registration is a member of a class its handler  *)
(* inherits from, and every such member has its endpoint; the hierarchies  *)
(* they are read from are whole.                                           *)
VerbsAreThoseOfTheHierarchy ==
  stage = "registrations" /\ next \notin DOMAIN Registering =>
    /\ HierarchyIsWhole
    /\ \A i \in DOMAIN Registering :
      LET r == Registering[i]
          router == CHOOSE c \in MatchingRouter(r.call, r.view, unit.routers) : TRUE
          handler == ArgumentFor(router.verbFrom, r.call)
          classes == IF handler.type # "identifier" THEN {}
                     ELSE Superclasses(ResolveClass(<<handler.name>>, r.view), {})
          members == UNION {DOMAIN c.declared.methods \cap HttpVerbs : c \in classes}
          here == {d \in ToSet(drafts) : \E e \in d.evidence :
                     e.role = "registration" /\ e.file = r.view /\ e.start = r.call.start}
      IN  here # {} =>
            {d.operation.method : d \in here} =
              IF members = {} THEN {Unknown("cross_boundary")} ELSE {MethodNamed(v) : v \in members}

-----------------------------------------------------------------------------
(* What the code sends.                                                    *)

SightedSites ==
  LET sites == Sites IN [i \in DOMAIN sites |-> Sighted(sites[i], unit.detect.registry)]

(* Whether a tier claims a site, by what it calls and on what.             *)
ClaimOf(site) ==
  LET detect == unit.detect
      OfLibrary(t) == ModuleIdsOf(Ancestry(t.name, t.view), detect.moduleIds) # {}
  IN  IF \E e \in ToSet(detect.consumes) : IsPrefix(e, CalleeOrigin(site)) THEN "generated"
      ELSE IF ClaimsTransport(site) THEN "transport"
      ELSE IF SinkMatch(site, detect) # {} THEN "declared"
      ELSE IF \E reached \in LibraryCallee(site, detect.registry) : OfLibrary(reached.class) THEN "declared"
      ELSE "none"

(* A claimed site is emitted once, by the first tier that claims it,       *)
(* however little of it was proven, and nothing else is.                   *)
EveryClaimIsEmitted ==
  Reported =>
    LET claimed == SelectSeq(SightedSites, LAMBDA s : ClaimOf(s) # "none")
    IN  /\ Len(operations) = Len(claimed)
        /\ \A i \in DOMAIN claimed :
             /\ operations[i].site = SiteAnchor(claimed[i])
             /\ operations[i].owner = claimed[i].owner
             /\ operations[i].provenance = {ClaimOf(claimed[i])}

(* The nodes a claimed site was read from.                                 *)
IsReadBy(node, reader) ==
  \/ ClaimOf(reader) = "transport" /\ BuiltRequest(reader) = node
  \/ /\ ClaimOf(reader) = "declared"
     /\ \E m \in SinkMatch(reader, unit.detect) :
          PathArgument(reader, m) = node /\ IsThroughPathVia(node, m.sink)

(* A call that leaves the unit through a transport package or a declared   *)
(* sink and that nothing claims is in the report, unless a claimed site    *)
(* was read from it or from a node that starts at the same offset.         *)
VanishedSitesCollide ==
  Reported =>
    \A site \in ToSet(SightedSites) :
      LET missing == ~\E d \in diagnostics : /\ d.code = "external_call_unclassified"
                                             /\ SiteAnchor(site) \in d.evidence
      IN  ClaimOf(site) = "none" /\ InsideUniverse(site, unit.detect) /\ missing =>
            \E reader \in ToSet(SightedSites), other \in ToSet(Sites) :
              other.call.start = site.call.start /\ IsReadBy(other.call, reader)

(* The definitions a call is written in, from the outermost inwards.       *)
DefinitionsAround(site) ==
  {d \in ToSet(DefinitionsIn(modules[site.file].body, "")) :
     \E c \in ToSet(ScopedCalls(d.body, d.body)) : c.call.start = site.start /\ c.call.end = site.end}

(* One call is one fact, and one identity: two facts stand at one call     *)
(* only where it is written in a definition nested in another, and share   *)
(* their identity only where the inner one repeats the outer one's name.   *)
SharedCallIsNested ==
  Reported =>
    \A i, j \in DOMAIN operations :
      LET around == DefinitionsAround(operations[i].site)
      IN  i # j =>
            /\ operations[i].site = operations[j].site => Cardinality(around) > 1
            /\ OutboundCore(operations[i]) = OutboundCore(operations[j]) =>
                 \E d, e \in around : d # e /\ d.class = e.class /\ d.name = e.name

-----------------------------------------------------------------------------
(* What Go code sends.                                                     *)

(* The method read last, the sinks it sends through and what it published. *)
MethodRead == GoMethods[next - 1]

JustRead == stage = "methods" /\ next > 1

PublishedBy(m) ==
  {o \in ToSet(goOperations) :
     /\ o.site.file = m.file
     /\ \E c \in ToSet(CallsIn(m.declaration.body)) : SiteAnchor([view |-> m.file, call |-> c]) = o.site}

(* The calls of a method on its receiver that a sink lists.                *)
ListedSends(m, sink) ==
  IF m.declaration.receiver.name = "" THEN {} ELSE ToSet(SendsOf(m.declaration, sink))

IsSentAs(value, sent) == sent.kind = "text" /\ value = Literal(sent.segments)

(* A method or a path published as a literal is what every run that makes  *)
(* the call sends: where the record is filled before it, outside blocks    *)
(* and under one name, comes from a function that only returns a literal,  *)
(* and names the same constants to the reader as to the writer.            *)
PublishedIsSent ==
  JustRead =>
    LET m == MethodRead
        method == m.declaration
    IN  \A o \in PublishedBy(m), sink \in ToSet(unit.detect.sinks) :
          \A call \in {c \in ListedSends(m, sink) : c.start = o.site.start} :
            LET match == [sink |-> sink, call |-> CallOfMember(sink, call.function.path[1])[1]]
                Sent(key) == HandedTo(Binding(match, key), call, method, m.file)
                Followed(key) == Binding(match, key) # <<>> /\ IsFollowable(Binding(match, key), call, method, m.file)
            IN  /\ o.operation.method.kind = "literal" /\ Followed("method") =>
                     \A sent \in Sent("method") : IsSentAs(o.operation.method, sent)
                /\ o.operation.path.kind = "literal" /\ Followed("pathArg") =>
                     \A sent \in Sent("pathArg") :
                       /\ sent.kind = "text"
                       /\ o.operation.path = CanonicalPathIr(UrlPath(Literal(sent.segments)))

(* A listed call on the receiver is published exactly when the receiver's  *)
(* type is composed of the declared base, however many packages lie        *)
(* between: the walk is misled only past its bound and where a declaring   *)
(* file's qualifiers mean something else to the file that sends.           *)
ComposedSendsArePublished ==
  JustRead =>
    LET m == MethodRead
        composition == Composition(m.declaration.receiver.type, m.file)
        claimed == SelectSeq(unit.detect.sinks, LAMBDA s : ComposesSink(composition, s))
        sends == IF claimed = <<>> THEN {} ELSE ListedSends(m, claimed[1])
    IN  IsWrittenAsIn(composition, m.file) /\ Cardinality(composition) <= MaxEmbedding + 1 =>
          {o.site : o \in PublishedBy(m)} = {SiteAnchor([view |-> m.file, call |-> c]) : c \in sends}

(* A construction names its configuration through the imports of the file  *)
(* that wrote it.                                                          *)
ConfigIsNamedByItsWriter ==
  JustRead =>
    LET m == MethodRead
        constructions == ToSet(OwnConstructions(m.declaration.receiver.type, m.file))
        Given(sink) ==
          {GoConfigFold(c.call.arguments[sink.target[1].index], c.parameters, c.file) :
             c \in {k \in constructions : sink.target[1].index \in DOMAIN k.call.arguments}}
    IN  \A sink \in ToSet(unit.detect.sinks) :
          \A o \in {p \in PublishedBy(m) : \E d \in p.operation.destinations : d.binding = "owner_construction"} :
            {d.ref : d \in o.operation.destinations} = {v \in Given(sink) : v.kind # "unknown"}
=============================================================================
