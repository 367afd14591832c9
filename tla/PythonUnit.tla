---------------------------- MODULE PythonUnit ----------------------------
(***************************************************************************)
(* The Python half of the analysis unit: the syntax trees of its modules,  *)
(* what is indexed of a module when it is parsed, and how a name is        *)
(* followed from one module to another.                                    *)
(*                                                                         *)
(* A node is a record with its type and the offsets where it starts and    *)
(* ends.  A binary operator is a sum: any other operation is a node of     *)
(* another type, which nothing reads.  A dotted name is a sequence of      *)
(* names.  An absent node is NoNode, an absent origin <<>>, an absent      *)
(* declaration {} and an absent module 0.                                  *)
(***************************************************************************)
EXTENDS FactMerge

CONSTANTS
  HierarchyDepth          \* MAX_DEPTH of the two walks over a hierarchy

ASSUME HierarchyDepthAssumption == HierarchyDepth \in Nat

VARIABLE modules          \* the indexed modules, in the order of the sources

NoNode == [type |-> "none"]

-----------------------------------------------------------------------------
(* The syntax tree.                                                        *)

RECURSIVE CallsOf(_), Statements(_), ScopedCalls(_, _), TextOf(_)

(* Every call inside an expression, in document order.                     *)
CallsOf(node) ==
  CASE node.type = "call" ->
         <<node>> \o CallsOf(node.function)
           \o FlattenSeq([i \in DOMAIN node.arguments |-> CallsOf(node.arguments[i].value)])
    [] node.type = "attribute" -> CallsOf(node.object)
    [] node.type = "binary_operator" -> CallsOf(node.left) \o CallsOf(node.right)
    [] node.type = "sequence" ->
         FlattenSeq([i \in DOMAIN node.elements |-> CallsOf(node.elements[i])])
    [] node.type = "string" ->
         FlattenSeq([i \in DOMAIN node.parts |->
           IF node.parts[i].type = "interpolation" THEN CallsOf(node.parts[i].of) ELSE <<>>])
    [] OTHER -> <<>>

(* The statements that hold a body; a block is an if, a with or a try.     *)
Bodies == {"class", "function", "block"}

(* Every statement of a body and of the bodies in it, in document order.   *)
Statements(body) ==
  FlattenSeq([i \in DOMAIN body |->
    <<body[i]>> \o (IF body[i].type \in Bodies THEN Statements(body[i].body) ELSE <<>>)])

Only(types, statements) == SelectSeq(statements, LAMBDA s : s.type \in types)

Assignments(body) == Only({"assignment"}, Statements(body))

(* The calls of a body with the body of the function around them, or the   *)
(* module where there is none.                                             *)
ScopedCalls(body, scope) ==
  FlattenSeq([i \in DOMAIN body |->
    CASE body[i].type = "function" -> ScopedCalls(body[i].body, body[i].body)
      [] body[i].type \in {"class", "block"} -> ScopedCalls(body[i].body, scope)
      [] body[i].type \in {"assignment", "expression"} ->
           LET calls == CallsOf(body[i].value)
           IN  [k \in DOMAIN calls |-> [call |-> calls[k], scope |-> scope]]
      [] OTHER -> <<>>])

(* The text of a node, cut at its dots.  The text of a call of one name is *)
(* no name; that of a call of a dotted name still begins with that name.   *)
TextOf(node) ==
  CASE node.type = "identifier" -> <<node.name>>
    [] node.type = "attribute" -> Append(TextOf(node.object), node.attribute)
    [] node.type = "call" ->
         IF Len(TextOf(node.function)) = 1 THEN <<"()">> ELSE Append(TextOf(node.function), "()")
    [] OTHER -> <<"()">>

Positional(call) == SelectSeq(call.arguments, LAMBDA a : a.keyword = "")

LastOf(entries, i) == \A j \in DOMAIN entries : entries[j].key = entries[i].key => j <= i

(* A map filled in order: the last entry of a key stays.                   *)
MapOf(entries) ==
  [k \in {entries[i].key : i \in DOMAIN entries} |->
     entries[CHOOSE i \in DOMAIN entries : entries[i].key = k /\ LastOf(entries, i)].value]

Keywords(call) ==
  LET named == SelectSeq(call.arguments, LAMBDA a : a.keyword # "")
  IN  MapOf([i \in DOMAIN named |-> [key |-> named[i].keyword, value |-> named[i].value]])

(* A selector is a sequence of steps; an argument step names a position or *)
(* a keyword.                                                              *)
Argument(call, step) ==
  LET positional == Positional(call)
      keywords   == Keywords(call)
  IN  IF step.kind = "position"
        THEN IF step.index \in DOMAIN positional THEN positional[step.index].value ELSE NoNode
      ELSE IF step.kind = "keyword" /\ step.name \in DOMAIN keywords THEN keywords[step.name]
      ELSE NoNode

ArgumentFor(selector, call) ==
  IF Len(selector) = 1 THEN Argument(call, selector[1]) ELSE NoNode

StringLiteral(node) ==
  IF \E i \in DOMAIN node.parts : node.parts[i].type = "string_content"
    THEN node.parts[CHOOSE i \in DOMAIN node.parts :
                      /\ node.parts[i].type = "string_content"
                      /\ \A j \in 1..(i - 1) : node.parts[j].type # "string_content"].text
    ELSE <<>>

-----------------------------------------------------------------------------
(* The indexes of one module.                                              *)

(* A plain name on the left binds it; anything else binds nothing.         *)
NamedAssignments(body) == SelectSeq(Only({"assignment"}, body), LAMBDA s : Len(s.target) = 1)

Constants(body) ==
  LET bound == SelectSeq(NamedAssignments(body), LAMBDA s : s.value # NoNode)
  IN  MapOf([i \in DOMAIN bound |-> [key |-> bound[i].target[1], value |-> bound[i].value]])

Attributes(body) ==
  LET annotated == SelectSeq(NamedAssignments(body), LAMBDA s : s.annotation # <<>>)
  IN  MapOf([i \in DOMAIN annotated |-> [key |-> annotated[i].target[1],
                                         value |-> annotated[i].annotation]])

Methods(body) ==
  LET defined == Only({"function"}, body)
  IN  MapOf([i \in DOMAIN defined |->
               [key |-> defined[i].name, value |-> [start |-> defined[i].start,
                                                    end |-> defined[i].end]]])

(* A decorated class is declared all the same.                             *)
ClassesOf(body) ==
  LET defined == Only({"class"}, body)
  IN  MapOf([i \in DOMAIN defined |->
        [key |-> defined[i].name,
         value |-> [name |-> defined[i].name, bases |-> defined[i].bases,
                    constants |-> Constants(defined[i].body),
                    methods |-> Methods(defined[i].body),
                    attributes |-> Attributes(defined[i].body)]]])

OriginsOf(body) ==
  LET imports == Only({"import_from"}, Statements(body))
  IN  MapOf([i \in DOMAIN imports |-> [key |-> imports[i].local,
                                       value |-> Append(imports[i].module, imports[i].name)]])

PackagesOf(body) ==
  LET imports == Only({"import"}, Statements(body))
  IN  MapOf([i \in DOMAIN imports |-> [key |-> imports[i].local, value |-> imports[i].module]])

(* A definition of the module binds its name over any import, unless a     *)
(* decorator wraps it.                                                     *)
LocalDefinitions(body) ==
  {body[i].name : i \in {j \in DOMAIN body : /\ body[j].type \in {"class", "function"}
                                             /\ ~body[j].decorated}}
    \cup {s.target[1] : s \in ToSet(NamedAssignments(body))}

ModuleView(source) ==
  [path |-> source.path, body |-> source.body,
   origins |-> OriginsOf(source.body), packages |-> PackagesOf(source.body),
   shadowed |-> LocalDefinitions(source.body), classes |-> ClassesOf(source.body),
   constants |-> Constants(source.body)]

ParseModules(sources) ==
  LET parsed == SelectSeq(sources, LAMBDA s : s.parses)
  IN  [i \in DOMAIN parsed |-> ModuleView(parsed[i])]

-----------------------------------------------------------------------------
(* Names.                                                                  *)

OriginMatches(configured, origin) == IsSuffix(configured, origin)

(* The longest suffix of a module's name that a source answers to.         *)
ResolveModule(dotted) ==
  LET Suffix(k) == SubSeq(dotted, k, Len(dotted))
      At(path) == {m \in DOMAIN modules : modules[m].path = path}
      Known(k) == At(Suffix(k)) \cup At(Append(Suffix(k), "__init__"))
      starts == {k \in 1..Len(dotted) : Known(k) # {}}
      longest == CHOOSE k \in starts : \A other \in starts : k <= other
  IN  IF starts = {} THEN 0
      ELSE IF At(Suffix(longest)) # {} THEN CHOOSE m \in At(Suffix(longest)) : TRUE
      ELSE CHOOSE m \in Known(longest) : TRUE

DottedModuleName(view) ==
  LET path == modules[view].path
  IN  IF Len(path) > 1 /\ Last(path) = "__init__" THEN Front(path) ELSE path

ImportOrigin(name, view) ==
  IF Len(name) = 1 /\ name[1] \in DOMAIN modules[view].origins
    THEN modules[view].origins[name[1]] ELSE <<>>

PackageOf(name, view) ==
  IF name \in DOMAIN modules[view].packages THEN modules[view].packages[name] ELSE <<>>

IsShadowed(name, view) == Len(name) = 1 /\ name[1] \in modules[view].shadowed

(* What a leading name stands for: an imported symbol before a module.     *)
RootOrigin(name, view) ==
  IF ImportOrigin(name, view) # <<>> THEN ImportOrigin(name, view) ELSE PackageOf(name, view)

ClassOf(name, view) ==
  IF Len(name) = 1 /\ name[1] \in DOMAIN modules[view].classes
    THEN {modules[view].classes[name[1]]} ELSE {}

FollowImport(name, view) ==
  LET origin == ImportOrigin(name, view)
      found  == IF origin = <<>> THEN 0 ELSE ResolveModule(Front(origin))
  IN  IF found = 0 THEN {} ELSE {[name |-> <<Last(origin)>>, view |-> found]}

-----------------------------------------------------------------------------
(* The hierarchy of a class.                                               *)

AncestorAt(name, view) ==
  LET declared == ClassOf(name, view)
  IN  [name      |-> name,
       view      |-> view,
       origin    |-> IF IsShadowed(name, view) THEN <<>> ELSE ImportOrigin(name, view),
       qualified |-> IF declared = {} THEN <<>> ELSE DottedModuleName(view) \o name,
       declared  |-> declared]

(* An ancestor is known by its origin, and where it has none by its bare   *)
(* name, whatever module the name is read in.                              *)
AncestorKey(ancestor) == IF ancestor.origin # <<>> THEN ancestor.origin ELSE ancestor.name

RECURSIVE Walk(_, _, _)

Walk(name, view, found) ==
  LET ancestor == AncestorAt(name, view)
      here     == Append(found, ancestor)
      Base(sofar, base) == Walk(base.name, view, sofar)
  IN  IF \/ Len(found) > HierarchyDepth
         \/ AncestorKey(ancestor) \in {AncestorKey(a) : a \in ToSet(found)}
        THEN found
      ELSE IF ancestor.declared = {}
        THEN FoldLeft(LAMBDA sofar, next : Walk(next.name, next.view, sofar),
                      here, SetToSeq(FollowImport(name, view)))
      ELSE FoldLeft(Base, here, (CHOOSE c \in ancestor.declared : TRUE).bases)

(* The classes a name resolves to, most derived first.                     *)
Ancestry(name, view) == Walk(name, view, <<>>)

-----------------------------------------------------------------------------
(* The value of an expression.                                             *)

RECURSIVE FoldValue(_, _)

(* A dotted read rooted at an imported name is a configuration locator.    *)
FoldAttribute(node, view) ==
  LET text   == TextOf(node)
      origin == RootOrigin(<<text[1]>>, view)
  IN  IF "()" \in ToSet(text) \/ origin = <<>> \/ IsShadowed(<<text[1]>>, view) THEN Unknown("dynamic")
      ELSE ConfigRef(origin \o Tail(text))

(* A bare name in a string is a path parameter.                            *)
StringPart(part, view) ==
  IF part.type = "string_content" THEN <<Text(part.text)>>
  ELSE IF part.of.type = "identifier" THEN <<Text(<<"{}">>)>>
  ELSE FoldValue(part.of, view).parts

FoldString(node, view) ==
  IF \A i \in DOMAIN node.parts : node.parts[i].type = "string_content"
    THEN Literal(StringLiteral(node))
    ELSE TemplateOf(FlattenSeq([i \in DOMAIN node.parts |-> StringPart(node.parts[i], view)]))

FoldValue(node, view) ==
  CASE node.type = "string" -> FoldString(node, view)
    [] node.type = "attribute" -> FoldAttribute(node, view)
    [] node.type = "binary_operator" ->
         ConcatValues(FoldValue(node.left, view), FoldValue(node.right, view))
    [] OTHER -> Unknown("dynamic")
=============================================================================
