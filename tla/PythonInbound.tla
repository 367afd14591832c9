--------------------------- MODULE PythonInbound ---------------------------
(***************************************************************************)
(* Routes registered in Python.  A registration is a call of a declared    *)
(* router type; it is anchored when a served application transitively      *)
(* holds it, and only then does it publish its path.                       *)
(***************************************************************************)
EXTENDS PythonUnit

CONSTANTS
  ServeEntryPoint,    \* the dotted name of the serving call, aiohttp.web.run_app
  HttpVerbs           \* the member names of a handler that answer a request

-----------------------------------------------------------------------------
(* Classes.                                                                *)

(* A name is resolved by its whole text: a subscripted base is no name.    *)
BaseText(base) == IF base.generic THEN Append(base.name, "[]") ELSE base.name

ResolveClass(name, view) ==
  IF ClassOf(name, view) # {}
    THEN {[view |-> view, declared |-> c] : c \in ClassOf(name, view)}
    ELSE UNION {{[view |-> found.view, declared |-> c] : c \in ClassOf(found.name, found.view)} :
                  found \in FollowImport(name, view)}

RECURSIVE Linearize(_, _)

(* Depth first, each class where it is first met.                          *)
Linearize(class, order) ==
  IF class \in ToSet(order) THEN order
  ELSE FoldLeft(LAMBDA sofar, base :
                  FoldLeft(LAMBDA inner, c : Linearize(c, inner), sofar,
                           SetToSeq(ResolveClass(BaseText(base), class.view))),
                Append(order, class), class.declared.bases)

ResolutionOrder(class) == Linearize(class, <<>>)

(* The attributes of classes in order: the first that binds one wins.      *)
FirstBindings(order) ==
  LET Binds(i, name) == name \in DOMAIN order[i].declared.constants
      names == UNION {DOMAIN c.declared.constants : c \in ToSet(order)}
      First(name) == CHOOSE i \in DOMAIN order :
                       Binds(i, name) /\ \A j \in 1..(i - 1) : ~Binds(j, name)
  IN  [name \in names |-> [view |-> order[First(name)].view,
                           node |-> order[First(name)].declared.constants[name]]]

AttributesOfLast(class) == FirstBindings(Reverse(ResolutionOrder(class)))

(* The attributes a class reads.                                           *)
AttributesOf(class) == FirstBindings(ResolutionOrder(class))

-----------------------------------------------------------------------------
(* What an application holds.                                              *)

ModuleConstant(name, view) ==
  IF name \in DOMAIN modules[view].constants
    THEN {[view |-> view, node |-> modules[view].constants[name]]}
    ELSE {[view |-> found.view, node |-> modules[found.view].constants[found.name[1]]] :
            found \in {f \in FollowImport(<<name>>, view) :
                         f.name[1] \in DOMAIN modules[f.view].constants}}

(* Only an attribute of a name is read, as that class reads it.            *)
ClassAttribute(bound) ==
  IF bound.node.object.type # "identifier" THEN {}
  ELSE {attributes[bound.node.attribute] :
          attributes \in {a \in {AttributesOf(o) : o \in ResolveClass(<<bound.node.object.name>>, bound.view)} :
                            bound.node.attribute \in DOMAIN a}}

OperandsOf(bound) ==
  LET node == bound.node
  IN  CASE node.type = "sequence" ->
             {[view |-> bound.view, node |-> e] : e \in ToSet(node.elements)}
        [] node.type = "binary_operator" ->
             {[view |-> bound.view, node |-> e] : e \in {node.left, node.right}}
        [] node.type = "identifier" -> ModuleConstant(node.name, bound.view)
        [] node.type = "attribute" -> ClassAttribute(bound)
        [] OTHER -> {}

RECURSIVE Folded(_, _)

(* Every node an attribute folds to; a call is read no further.            *)
Folded(frontier, seen) ==
  IF frontier \subseteq seen THEN seen
  ELSE Folded(UNION {OperandsOf(b) : b \in {f \in frontier \ seen : f.node.type # "call"}},
              seen \cup frontier)

SiteKey(view, call) == <<view, call.start>>

HeldSites(attributes) ==
  {SiteKey(b.view, b.node) :
     b \in {h \in Folded({attributes[name] : name \in DOMAIN attributes}, {}) : h.node.type = "call"}}

Registrations(class) == HeldSites(AttributesOf(class))

-----------------------------------------------------------------------------
(* Serving calls.                                                          *)

RECURSIVE ServingOrigin(_, _)

ServingOrigin(node, view) ==
  CASE node.type = "identifier" ->
         IF IsShadowed(<<node.name>>, view) THEN <<>> ELSE RootOrigin(<<node.name>>, view)
    [] node.type = "attribute" ->
         LET base == ServingOrigin(node.object, view)
         IN  IF base = <<>> THEN <<>> ELSE Append(base, node.attribute)
    [] OTHER -> <<>>

IsServing(call, view) ==
  LET origin == ServingOrigin(call.function, view)
  IN  origin # <<>> /\ OriginMatches(ServeEntryPoint, origin)

Calls(view) == ScopedCalls(modules[view].body, modules[view].body)

ConstructedClass(call, view) ==
  IF call.function.type = "identifier" THEN ResolveClass(<<call.function.name>>, view) ELSE {}

(* Every class the scope binds the name to: no branch wins over another.   *)
BoundClasses(name, scope, view) ==
  UNION {ConstructedClass(a.value, view) :
           a \in {b \in ToSet(Assignments(scope)) : b.target = <<name>> /\ b.value.type = "call"}}

ServedClasses(scoped, view) ==
  LET target == Argument(scoped.call, [kind |-> "position", index |-> 1])
  IN  CASE target.type = "call" -> ConstructedClass(target, view)
        [] target.type = "identifier" -> BoundClasses(target.name, scoped.scope, view)
        [] OTHER -> {}

UnresolvedServing(scoped, view) ==
  [code |-> "serve_root_unresolved", callee |-> ServeEntryPoint,
   shape |-> NoShape(1),
   anchor |-> [file |-> view, start |-> scoped.call.start, end |-> scoped.call.end]]

-----------------------------------------------------------------------------
(* Registrations.                                                          *)

(* The origin of a type the module imports, or of the first base of a      *)
(* class it declares that has one.                                         *)
OriginOfType(name, view) ==
  LET imported == ImportOrigin(<<name>>, view)
      Bases == IF ClassOf(<<name>>, view) = {} THEN <<>>
               ELSE (CHOOSE c \in ClassOf(<<name>>, view) : TRUE).bases
      origins == SelectSeq([i \in DOMAIN Bases |-> ImportOrigin(BaseText(Bases[i]), view)],
                           LAMBDA origin : origin # <<>>)
  IN  IF imported # <<>> /\ ~IsShadowed(<<name>>, view) THEN imported
      ELSE IF origins = <<>> THEN <<>> ELSE origins[1]

(* The first declared router the callee's type is.                         *)
MatchingRouter(call, view, routers) ==
  LET origin == IF call.function.type = "identifier"
                  THEN OriginOfType(call.function.name, view) ELSE <<>>
      matching == SelectSeq(routers, LAMBDA r : origin # <<>> /\ OriginMatches(r.dsl, origin))
  IN  IF matching = <<>> THEN {} ELSE {matching[1]}

RECURSIVE CollectVerbs(_, _, _)

(* The members of the handler and of what it inherits from, bounded by the *)
(* length of the path and not by what was seen.                            *)
CollectVerbs(name, view, depth) ==
  LET declared == ClassOf(name, view)
  IN  IF depth > HierarchyDepth THEN {}
      ELSE IF declared = {}
        THEN UNION {CollectVerbs(f.name, f.view, depth + 1) : f \in FollowImport(name, view)}
      ELSE UNION {(DOMAIN c.methods \cap HttpVerbs)
                    \cup UNION {CollectVerbs(BaseText(b), view, depth + 1) : b \in ToSet(c.bases)} :
                    c \in declared}

VerbsOfHandlerAlone(node, view) ==
  IF node.type = "identifier"
    THEN UNION {DOMAIN c.declared.methods \cap HttpVerbs : c \in ResolveClass(<<node.name>>, view)}
    ELSE {}

VerbsOfHandler(node, view) ==
  IF node.type = "identifier" THEN CollectVerbs(<<node.name>>, view, 0) ELSE {}

(* The prefix is a string constant of the registering class itself.        *)
PrefixOf(call, view, router) ==
  LET constants == UNION {{c.constants[router.prefixFrom]} :
                            c \in {d \in ClassOf(<<call.function.name>>, view) :
                                     router.prefixFrom \in DOMAIN d.constants}}
      strings == {c \in constants : c.type = "string"}
  IN  IF strings = {} THEN <<>> ELSE StringLiteral(CHOOSE c \in strings : TRUE)

(* A handler that answers several verbs is several endpoints; one that     *)
(* answers none has its verb unproven.                                     *)
DraftsFor(call, view, router, isAnchored) ==
  LET pathNode == ArgumentFor(router.pathArg, call)
      path     == IF isAnchored
                    THEN Literal(CanonicalPath(<<PrefixOf(call, view, router), StringLiteral(pathNode)>>))
                    ELSE Unknown("unanchored_router")
      verbs    == VerbsOfHandler(ArgumentFor(router.verbFrom, call), view)
      methods  == IF verbs = {} THEN {Unknown("cross_boundary")} ELSE {MethodNamed(v) : v \in verbs}
      anchor   == [file |-> view, start |-> call.start, end |-> call.end]
  IN  IF pathNode.type # "string" THEN <<>>
      ELSE SetToSeq({EndpointDraft(m, path, anchor) : m \in methods})

UnanchoredSite(call, view, router) ==
  [code |-> "unanchored_router", callee |-> router.dsl,
   shape |-> NoShape(2),
   anchor |-> [file |-> view, start |-> call.start, end |-> call.end]]
=============================================================================
