-------------------------- MODULE PythonOutbound --------------------------
(***************************************************************************)
(* Requests sent from Python.  A call site is claimed by the first of four *)
(* tiers that applies: a module a consumed contract generated, a transport *)
(* package, a declared sink, a declared library.  A claimed site is        *)
(* emitted even where its method, path or destination stayed unproven.     *)
(***************************************************************************)
EXTENDS PythonUnit, OutboundLadder

CONSTANTS
  TransportPackages,  \* root names of the HTTP client libraries
  SendingMembers,     \* the members of such a package that send
  Builders,           \* the constructors that build a request without sending
  ServerHalf,         \* the dotted name of the package that serves, aiohttp.web
  MaxProofSteps       \* local names followed on one proof path

ASSUME MaxProofStepsAssumption == MaxProofSteps \in Nat

-----------------------------------------------------------------------------
(* Call sites.                                                             *)

RECURSIVE DefinitionsIn(_, _)

(* Every definition with the class it sits in, however deep.               *)
DefinitionsIn(body, class) ==
  FlattenSeq([i \in DOMAIN body |->
    CASE body[i].type = "function" ->
           <<[class |-> class, name |-> body[i].name, body |-> body[i].body]>>
             \o DefinitionsIn(body[i].body, class)
      [] body[i].type = "class" -> DefinitionsIn(body[i].body, body[i].name)
      [] body[i].type = "block" -> DefinitionsIn(body[i].body, class)
      [] OTHER -> <<>>])

(* Every call of every definition: one in a nested definition is a site of *)
(* each definition around it.                                              *)
SitesOf(definition, view) ==
  LET scoped == ScopedCalls(definition.body, definition.body)
  IN  [i \in DOMAIN scoped |->
         [call |-> scoped[i].call, scope |-> scoped[i].scope, view |-> view,
          owner |-> [class |-> definition.class, name |-> definition.name]]]

CallSites(view) ==
  LET definitions == DefinitionsIn(modules[view].body, "")
  IN  FlattenSeq([i \in DOMAIN definitions |-> SitesOf(definitions[i], view)])

Member(site) == IF site.call.function.type = "attribute" THEN site.call.function.attribute ELSE ""

Receiver(site) == IF site.call.function.type = "attribute" THEN site.call.function.object ELSE NoNode

OnSelf(site) == Receiver(site).type = "identifier" /\ Receiver(site).name = "self"

(* The first assignment of a call to the name in the innermost function.   *)
LocalBinding(site, name) ==
  LET bound == SelectSeq(Assignments(site.scope),
                         LAMBDA a : a.target = <<name>> /\ a.value.type = "call")
  IN  IF bound = <<>> THEN NoNode ELSE bound[1].value

-----------------------------------------------------------------------------
(* Provenance of a callee.                                                 *)

DottedOrigin(dotted, view) ==
  LET origin == RootOrigin(<<dotted[1]>>, view)
  IN  IF origin = <<>> THEN <<>> ELSE origin \o Tail(dotted)

CalleeOrigin(site) == site.origin

IsTransportPackage(origin) ==
  origin # <<>> /\ origin[1] \in TransportPackages /\ ~IsPrefix(ServerHalf, origin)

IsRequestBuilder(origin) == IsTransportPackage(origin) /\ Last(origin) \in Builders

-----------------------------------------------------------------------------
(* The container a registry declares.                                      *)

Containers(entry) ==
  {<<m, name>> \in UNION {{m} \X DOMAIN modules[m].classes : m \in DOMAIN modules} :
     OriginMatches(entry.containerType, Append(DottedModuleName(m), name))}

(* The attributes of the container and of its bases, nearest first; each   *)
(* keeps the module that annotated it.                                     *)
AttributeOf(ancestors, attribute) ==
  LET Annotates(a) == \E c \in a.declared : attribute \in DOMAIN c.attributes
  IN  UNION {{[name |-> c.attributes[attribute], view |-> ancestors[i].view] : c \in ancestors[i].declared} :
               i \in {k \in DOMAIN ancestors : /\ Annotates(ancestors[k])
                                               /\ \A j \in 1..(k - 1) : ~Annotates(ancestors[j])}}

(* The first module that declares the container.                           *)
ContainerAttribute(containers, attribute) ==
  UNION {AttributeOf(Ancestry(<<c[2]>>, c[1]), attribute) :
           c \in {d \in containers : \A other \in containers : d[1] <= other[1]}}

(* The last entry of an access is the one that stands.                     *)
RegistryTypeOf(text, registry) ==
  UNION {ContainerAttribute(Containers(registry[i]), Last(text)) :
           i \in {k \in DOMAIN registry : /\ Len(text) > 1 /\ Front(text) = registry[k].access
                                          /\ \A j \in DOMAIN registry :
                                               registry[j].access = registry[k].access => j <= k}}

(* The type of a receiver written as an access of a declared container.    *)
RegistryType(receiver, registry) == RegistryTypeOf(TextOf(receiver), registry)

-----------------------------------------------------------------------------
(* The type of a receiver and the sink it belongs to.                      *)

InstanceOf(site) ==
  IF Receiver(site).type = "identifier" THEN LocalBinding(site, Receiver(site).name) ELSE NoNode

(* The enclosing class, the type a local construction names, or the type   *)
(* of a declared container.                                                *)
ReceiverType(site, registry) ==
  IF OnSelf(site)
    THEN {[name |-> <<IF site.owner.class = "" THEN site.owner.name ELSE site.owner.class>>,
           view |-> site.view]}
  ELSE IF InstanceOf(site) # NoNode
    THEN {[name |-> TextOf(InstanceOf(site).function), view |-> site.view]}
  ELSE IF Receiver(site) = NoNode THEN {}
  ELSE RegistryType(Receiver(site), registry)

AncestryOfTypes(types) == IF types = {} THEN <<>>
                          ELSE LET type == CHOOSE t \in types : TRUE IN Ancestry(type.name, type.view)

SightedOf(site, types) ==
  [call |-> site.call, scope |-> site.scope, view |-> site.view, owner |-> site.owner,
   origin |-> DottedOrigin(TextOf(site.call.function), site.view),
   types |-> types, ancestors |-> AncestryOfTypes(types)]

(* A site with all that is read of its callee: where the name comes from,  *)
(* the type of the receiver and the hierarchy of that type.                *)
Sighted(site, registry) == SightedOf(site, ReceiverType(site, registry))

(* Where the hierarchy meets the declared base type.                       *)
BoundariesOf(ancestors, sink) ==
  {i \in DOMAIN ancestors : /\ ancestors[i].origin # <<>>
                            /\ OriginMatches(sink.baseType, ancestors[i].origin)}

SinkOf(ancestors, sinks) ==
  LET claimed == SelectSeq(sinks, LAMBDA s : BoundariesOf(ancestors, s) # {})
  IN  IF claimed = <<>> THEN {} ELSE {claimed[1]}

Declares(ancestor, member) == \E c \in ancestor.declared : member \in DOMAIN c.methods

(* A member the classes below the boundary declare is their own business.  *)
CrossesSinkBoundary(ancestors, sinks, member) ==
  \E sink \in SinkOf(ancestors, sinks) :
    \A i \in DOMAIN ancestors :
      Declares(ancestors[i], member) /\ (\A j \in 1..(i - 1) : ~Declares(ancestors[j], member))
        => \E b \in BoundariesOf(ancestors, sink) :
             b <= i /\ \A other \in BoundariesOf(ancestors, sink) : b <= other

(* A sink lists its sending members.                                       *)
SinkMatch(site, detect) ==
  {[sink |-> s, call |-> CallOfMember(s, Member(site))[1]] :
     s \in {t \in SinkOf(site.ancestors, detect.sinks) :
              Member(site) # "" /\ CallOfMember(t, Member(site)) # <<>>}}

-----------------------------------------------------------------------------
(* The destination ladder.                                                 *)

(* An argument is folded with the imports of the module that sends.        *)
FromConstructions(constructions, selector, view, binding) ==
  LET nodes == {Argument(c, selector[1]) : c \in constructions} \ {NoNode}
  IN  IF selector[1].kind = "class_const" THEN {}
      ELSE Constructed({FoldValue(n, view) : n \in nodes}, binding)

(* The most derived class whose binding of the selector has a value, each  *)
(* folded with the imports of the module that declares it.                 *)
FromDeclaration(selector, ancestors) ==
  LET Values(a) == {FoldValue(c.constants[selector[1].name], a.view) :
                      c \in {d \in a.declared : selector[1].name \in DOMAIN d.constants}}
      Proven(a) == {v \in Values(a) : v.kind # "unknown"}
      valued == SelectSeq(ancestors, LAMBDA a : Proven(a) # {})
  IN  IF selector[1].kind # "class_const" \/ valued = <<>> THEN {}
      ELSE {Destination(v, "owner_declaration") : v \in Proven(valued[1])}

(* The constructions of a class name, wherever in the unit it is written.  *)
ConstructionsOf(name) ==
  {c \in UNION {{s.call : s \in ToSet(ScopedCalls(modules[m].body, <<>>))} : m \in DOMAIN modules} :
     c.function.type = "identifier" /\ <<c.function.name>> = name}

(* Whether any ancestor is declared inside the unit.                       *)
IsReadable(ancestors) == \E a \in ToSet(ancestors) : a.declared # {}

ResolveDestinations(selector, instance, isOwnInstance, constructions, ancestors, view) ==
  Ladder(selector,
         FromConstructions({instance} \ {NoNode}, selector, view, "instance"),
         IF isOwnInstance THEN FromConstructions(constructions, selector, view, "owner_construction")
                          ELSE {},
         FromDeclaration(selector, ancestors), IsReadable(ancestors))

(* On a half with a module id an unproven destination belongs to whoever   *)
(* configures the library.                                                 *)
InLibraryDestinations(destinations) ==
  {IF d.kind = "unknown" THEN Undetermined("operation_in_library_root") ELSE d : d \in destinations}

DestinationsOf(site, match, detect) ==
  LET name == IF site.types = {} THEN <<>> ELSE (CHOOSE t \in site.types : TRUE).name
  IN  ResolveDestinations(Binding(match, "target"), InstanceOf(site), OnSelf(site),
                          ConstructionsOf(name), site.ancestors, site.view)

-----------------------------------------------------------------------------
(* The path of a declared send.                                            *)

RECURSIVE ProvenPath(_, _, _, _)

(* The most derived class that declares the attribute read on self.        *)
ClassConstant(node, site) ==
  LET binding == SelectSeq(site.ancestors, LAMBDA a :
                   \E c \in a.declared : node.attribute \in DOMAIN c.constants)
  IN  IF TextOf(node.object) # <<"self">> \/ binding = <<>> THEN NoNode
      ELSE (CHOOSE c \in binding[1].declared : TRUE).constants[node.attribute]

TemplateOfCall(call) ==
  IF call.function.type = "attribute" /\ call.function.attribute = "format"
    THEN call.function.object ELSE NoNode

(* A formatting call is read as its template, a name as the call bound to  *)
(* it, an attribute of self as the constant a class declares.              *)
ProvenPath(node, site, seen, steps) ==
  CASE node.type = "none" -> Unknown("dynamic")
    [] node \in seen -> Unknown("recursive")
    [] node \notin seen /\ node.type = "call" ->
         ProvenPath(TemplateOfCall(node), site, seen \cup {node}, steps)
    [] node \notin seen /\ node.type = "attribute" ->
         FoldValue(ClassConstant(node, site), site.view)
    [] node \notin seen /\ node.type = "identifier" ->
         IF steps >= MaxProofSteps THEN Unknown("depth_exceeded")
         ELSE ProvenPath(LocalBinding(site, node.name), site, seen \cup {node}, steps + 1)
    [] OTHER -> FoldValue(node, site.view)

(* Whether the path is handed to the helper the sink declares.             *)
IsThroughPathVia(node, sink) ==
  /\ sink.pathVia # "none" /\ node.type = "call"
  /\ TextOf(node.function) = <<"self", sink.pathVia>>

(* The helper composes its argument onto the sink's target.                *)
ThroughPathVia(node, sink) ==
  IF IsThroughPathVia(node, sink)
    THEN IF /\ sink.pathViaArgument \in DOMAIN node.arguments
            /\ node.arguments[sink.pathViaArgument].keyword = ""
           THEN node.arguments[sink.pathViaArgument].value ELSE NoNode
    ELSE node

-----------------------------------------------------------------------------
(* The tiers.  Each is {} or the one draft of the site.                    *)

InLibraryOperation == Unknown("operation_in_library")

GeneratedTier(site, consumes) ==
  {OutboundDraft(site, "generated", InLibraryOperation, InLibraryOperation,
                 {Undetermined("operation_in_library")}, {}) :
     entry \in {e \in ToSet(consumes) : CalleeOrigin(site) # <<>> /\ IsPrefix(e, CalleeOrigin(site))}}

(* A send handed a name bound to a request that a transport package built. *)
BuiltRequest(site) ==
  LET handed == IF site.call.arguments = <<>> THEN NoNode ELSE site.call.arguments[1].value
      bound  == IF /\ Member(site) = "send" /\ handed.type = "identifier"
                   /\ site.call.arguments[1].keyword = ""
                  THEN LocalBinding(site, handed.name) ELSE NoNode
  IN  IF bound = NoNode THEN NoNode
      ELSE IF IsRequestBuilder(DottedOrigin(TextOf(bound.function), site.view)) THEN bound
      ELSE NoNode

ClaimsTransport(site) ==
  \/ BuiltRequest(site) # NoNode
  \/ IsTransportPackage(CalleeOrigin(site)) /\ Member(site) \in SendingMembers

(* The keyword, or the positional argument where it is absent.             *)
KeywordOr(call, keyword, positional) ==
  IF keyword \in DOMAIN Keywords(call) THEN Keywords(call)[keyword]
  ELSE IF positional \in DOMAIN Positional(call) THEN Positional(call)[positional].value
  ELSE NoNode

TransportMethod(site) ==
  LET built == BuiltRequest(site)
  IN  IF built # NoNode THEN FoldValue(KeywordOr(built, "method", 1), site.view)
      ELSE IF Member(site) = "request" THEN Unknown("dynamic")
      ELSE MethodNamed(Member(site))

TransportUrl(site) ==
  LET source == IF BuiltRequest(site) # NoNode THEN BuiltRequest(site) ELSE site.call
  IN  FoldValue(KeywordOr(source, "url", Len(Positional(source))), site.view)

TransportDraft(site, url) ==
  OutboundDraft(site, "transport", TransportMethod(site), CanonicalPathIr(UrlPath(url)),
                DestinationsOfUrl(url, {Undetermined("open_world_dispatch")}), {})

TransportTier(site) ==
  IF ClaimsTransport(site) THEN {TransportDraft(site, TransportUrl(site))} ELSE {}

(* The module a type belongs to, named by its origin or by where the unit  *)
(* declares it.                                                            *)
ModuleIdsOf(ancestors, moduleIds) ==
  LET claimed == SelectSeq(moduleIds, LAMBDA mapping :
                   \E a \in ToSet(ancestors) : \E name \in {a.origin, a.qualified} \ {<<>>} :
                     OriginMatches(mapping.class, name))
  IN  IF claimed = <<>> THEN {} ELSE {claimed[1].moduleId}

MemberAnchors(ancestors, member) ==
  LET declaring == SelectSeq(ancestors, LAMBDA a : Declares(a, member))
  IN  IF declaring = <<>> THEN {}
      ELSE {[file |-> declaring[1].view, start |-> c.methods[member].start,
             end |-> c.methods[member].end] : c \in declaring[1].declared}

(* Only a send on self is a member of the library's own operation.         *)
LibraryHalf(site, detect) ==
  {[moduleId |-> id, callee |-> MemberAnchors(site.ancestors, site.owner.name)] :
     id \in IF OnSelf(site) /\ site.owner.class # ""
              THEN ModuleIdsOf(site.ancestors, detect.moduleIds) ELSE {}}

DeclaredMethod(site, match) ==
  IF Binding(match, "method") # <<>> THEN Unknown("dynamic") ELSE MethodNamed(Member(site))

PathArgument(site, match) == ArgumentFor(Binding(match, "pathArg"), site.call)

DeclaredTier(site, detect) ==
  {LET join == LibraryHalf(site, detect)
       destinations == DestinationsOf(site, match, detect)
       path == ProvenPath(ThroughPathVia(PathArgument(site, match), match.sink), site,
                          {}, 0)
   IN  OutboundDraft(site, "declared", DeclaredMethod(site, match), CanonicalPathIr(path),
                     IF join = {} THEN destinations ELSE InLibraryDestinations(destinations), join) :
     match \in SinkMatch(site, detect)}

(* The type a declared container binds, with the member that is called; a  *)
(* member selected at run time is not known.                               *)
LibraryCallee(site, registry) ==
  LET function == site.call.function
      isDynamic == /\ function.type = "call" /\ TextOf(function.function) = <<"getattr">>
                   /\ function.arguments # <<>>
      callee == IF isDynamic THEN {}
                ELSE {[file |-> site.view, start |-> function.start, end |-> function.end]}
      owner == IF isDynamic THEN function.arguments[1].value ELSE Receiver(site)
  IN  IF owner = NoNode THEN {}
      ELSE {[class |-> t, callee |-> callee] : t \in RegistryType(owner, registry)}

LibraryDrafts(site, callee, ancestors, detect) ==
  LET sinks == SinkOf(ancestors, detect.sinks)
      selector == IF sinks = {} THEN <<>> ELSE (CHOOSE s \in sinks : TRUE).target
      destinations == ResolveDestinations(selector, NoNode, FALSE, {}, ancestors, site.view)
  IN  {OutboundDraft(site, "declared", InLibraryOperation, InLibraryOperation,
                     InLibraryDestinations(destinations), {[moduleId |-> id, callee |-> callee]}) :
         id \in ModuleIdsOf(ancestors, detect.moduleIds)}

LibraryTier(site, detect) ==
  UNION {LibraryDrafts(site, reached.callee, Ancestry(reached.class.name, reached.class.view), detect) :
           reached \in LibraryCallee(site, detect.registry)}

ClassifyProven(site, detect) ==
  {d \in GeneratedTier(site, detect.consumes) \cup TransportTier(site)
           \cup DeclaredTier(site, detect) \cup LibraryTier(site, detect) :
     d.resolution # "unresolved"}

ClassifyEveryTier(site, detect) ==
  GeneratedTier(site, detect.consumes) \cup TransportTier(site)
    \cup DeclaredTier(site, detect) \cup LibraryTier(site, detect)

(* The first tier that claims the site.                                    *)
Classify(site, detect) ==
  OrElse(GeneratedTier(site, detect.consumes),
         OrElse(TransportTier(site), OrElse(DeclaredTier(site, detect), LibraryTier(site, detect))))

-----------------------------------------------------------------------------
(* What a claimed site leaves behind, and the sites nothing claims.        *)

(* The offsets of the nodes a claimed site read: the request it was handed *)
(* and the helper its path went through.                                   *)
ReadOffsets(site, detect) ==
  IF GeneratedTier(site, detect.consumes) # {} THEN {}
  ELSE IF ClaimsTransport(site) THEN {b.start : b \in {BuiltRequest(site)} \ {NoNode}}
  ELSE {PathArgument(site, match).start :
          match \in {m \in SinkMatch(site, detect) : IsThroughPathVia(PathArgument(site, m), m.sink)}}

DiagnosticSite(site, code) ==
  [code |-> code,
   callee |-> IF CalleeOrigin(site) = <<>> THEN TextOf(site.call.function) ELSE CalleeOrigin(site),
   shape |-> [arity |-> Len(site.call.arguments),
              receiver |-> IF site.types = {} THEN <<>> ELSE (CHOOSE t \in site.types : TRUE).name],
   anchor |-> SiteAnchor(site)]

(* A declared sink whose path selector reaches no argument.                *)
UnresolvedSelectors(site, detect) ==
  IF GeneratedTier(site, detect.consumes) # {} \/ ClaimsTransport(site) THEN {}
  ELSE {DiagnosticSite(site, "selector_unresolved") :
          match \in {m \in SinkMatch(site, detect) :
                       Binding(m, "pathArg") # <<>> /\ PathArgument(site, m) = NoNode}}

(* The candidate universe: a call inside a transport package, or one that  *)
(* leaves a declared sink.                                                 *)
InsideUniverse(site, detect) ==
  \/ IsTransportPackage(CalleeOrigin(site))
  \/ /\ Member(site) # ""
     /\ CrossesSinkBoundary(site.ancestors, detect.sinks, Member(site))

CandidatesOfSinks(site, detect, drafts) ==
  IF drafts # {} \/ IsTransportPackage(CalleeOrigin(site))
       \/ ~InsideUniverse(site, detect) THEN {}
  ELSE {DiagnosticSite(site, "external_call_unclassified")}

(* A site no tier drafted is a candidate where it is of the universe.      *)
Candidates(site, detect, drafts) ==
  IF drafts # {} \/ ~InsideUniverse(site, detect) THEN {}
  ELSE {DiagnosticSite(site, "external_call_unclassified")}
=============================================================================
