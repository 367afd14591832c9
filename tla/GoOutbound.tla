----------------------------- MODULE GoOutbound -----------------------------
(***************************************************************************)
(* Requests sent from Go.  A method of a type that embeds the declared     *)
(* base type sends through its receiver; the method and the path of the    *)
(* request are fields of a record the method filled.                       *)
(*                                                                         *)
(* A statement binds a name ("bind"), writes a field of a record           *)
(* ("write"), evaluates a value ("do", "return") or holds statements       *)
(* ("block").  A value is a string, an identifier, a selector (a root name *)
(* and the fields read from it), a sum of such, a composite literal, the   *)
(* address of a value or a call.  An absent value is NoValue.              *)
(***************************************************************************)
EXTENDS OutboundLadder, TLC

CONSTANTS
  MaxConstantEdges,   \* MAX_CONSTANT_EDGES, the constants followed on one path
  MaxEmbedding,       \* the types one walk over embeddings may have found
  MajorVersions       \* import path segments that are a major version: v2

ASSUME GoBoundsAssumption == MaxConstantEdges \in Nat /\ MaxEmbedding \in Nat

VARIABLE files        \* the parsed Go files, in the order of the sources

NoValue == [type |-> "none"]

ParseGoFiles(sources) == SelectSeq(sources, LAMBDA s : s.parses)

-----------------------------------------------------------------------------
(* The syntax of a file.                                                   *)

(* Every statement of a body and of the blocks in it, in document order.   *)
GoStatements(body) ==
  FlattenSeq([i \in DOMAIN body |-> IF body[i].type = "block" THEN body[i].body ELSE <<body[i]>>])

CallsIn(body) ==
  LET calling == SelectSeq(GoStatements(body), LAMBDA s : s.value.type = "call")
  IN  [i \in DOMAIN calling |-> calling[i].value]

Bindings(body) == SelectSeq(GoStatements(body), LAMBDA s : s.type \in {"bind", "write"})

Pointee(value) == IF value.type = "address" THEN value.of ELSE value

(* The composite literals of a body that assign a field by its name.       *)
KeyedLiterals(body) ==
  LET keyed == SelectSeq(GoStatements(body), LAMBDA s :
                 Pointee(s.value).type = "composite" /\ DOMAIN Pointee(s.value).keyed # {})
  IN  [i \in DOMAIN keyed |-> Pointee(keyed[i].value)]

GoMethods ==
  FlattenSeq([f \in DOMAIN files |->
    LET methods == SelectSeq(files[f].declarations, LAMBDA d : d.type = "method")
    IN  [i \in DOMAIN methods |-> [file |-> f, declaration |-> methods[i]]]])

-----------------------------------------------------------------------------
(* Packages.  A package is the directory its files share.                  *)

Directories == {files[f].directory : f \in DOMAIN files}

InPackage(directory) == SelectSeq(files, LAMBDA file : file.directory = directory)

LastNamed(entries, name) ==
  LET named == SelectSeq(entries, LAMBDA e : e.name = name)
  IN  IF named = <<>> THEN {} ELSE {Last(named)}

(* The index takes every variable of a file for one of the package, those  *)
(* a body declares included.                                               *)
LocalVariables(file) ==
  FlattenSeq([i \in DOMAIN file.declarations |->
    LET declared == SelectSeq(Bindings(file.declarations[i].body), LAMBDA s :
                      s.type = "bind" /\ s.form = "var" /\ s.value # NoValue)
    IN  [k \in DOMAIN declared |-> [name |-> declared[k].target, value |-> declared[k].value]]])

ConstantsIn(directory) ==
  LET members == InPackage(directory)
  IN  FlattenSeq([i \in DOMAIN members |-> members[i].constants \o LocalVariables(members[i])])

ConstOf(directory, name) == {c.value : c \in LastNamed(ConstantsIn(directory), name)}

TypeOf(directory, name) ==
  LET members == InPackage(directory)
  IN  LastNamed(FlattenSeq([i \in DOMAIN members |-> members[i].types]), name)

FunctionsIn(directory) ==
  LET members == InPackage(directory)
  IN  SelectSeq(FlattenSeq([i \in DOMAIN members |-> members[i].declarations]),
                LAMBDA d : d.type = "function")

FunctionOf(directory, name) == LastNamed(FunctionsIn(directory), name)

(* A function without a result leaves the result another one declared.     *)
ResultOf(directory, name) ==
  {d.result : d \in LastNamed(SelectSeq(FunctionsIn(directory), LAMBDA d : d.result # ""), name)}

(* An import binds its own name, or the last segment of its path that is   *)
(* no version.                                                             *)
Qualifier(import) ==
  LET path == import.path
  IN  IF import.name # "" THEN import.name
      ELSE IF Last(path) \in MajorVersions /\ Len(path) > 1 THEN Last(Front(path))
      ELSE Last(path)

PathOf(qualifier, f) ==
  {import.path : import \in
     LastNamed([i \in DOMAIN files[f].imports |->
                  [name |-> Qualifier(files[f].imports[i]), path |-> files[f].imports[i].path]],
               qualifier)}

(* The longest suffix of an import path that is a directory of the unit.   *)
ForImport(path) ==
  LET Suffix(k) == SubSeq(path, k, Len(path))
      known == {k \in 1..Len(path) : Suffix(k) \in Directories}
  IN  {Suffix(k) : k \in {i \in known : \A j \in known : i <= j}}

ForQualifier(qualifier, f) == UNION {ForImport(path) : path \in PathOf(qualifier, f)}

(* The packages a callee or a constant may be declared in, with its name.  *)
Named(node, directory, f) ==
  CASE node.type = "identifier" -> {[directory |-> directory, name |-> node.name]}
    [] node.type = "selector" /\ Len(node.path) = 1 ->
         {[directory |-> d, name |-> node.path[1]] : d \in ForQualifier(node.root, f)}
    [] OTHER -> {}

-----------------------------------------------------------------------------
(* The types a type embeds.                                                *)

RECURSIVE Embedding(_, _, _, _)

OuterPackage(directory, targets) == directory

(* The package whose names the embedded types of a declared type are.      *)
InnerPackage(directory, targets) == CHOOSE d \in targets : TRUE

Embedded(ref, f, found, origins, targets, directory) ==
  LET origin == IF origins = {} THEN <<>> ELSE Append(CHOOSE p \in origins : TRUE, ref.name)
      key == IF origin = <<>> THEN Append(directory, ref.name) ELSE origin
      declared == UNION {TypeOf(d, ref.name) : d \in targets}
      here == Append(found, [name |-> ref.name, origin |-> origin, key |-> key,
                             declared |-> declared # {}])
  IN  IF Len(found) > MaxEmbedding \/ key \in {a.key : a \in ToSet(found)} THEN found
      ELSE IF declared = {} THEN here
      ELSE FoldLeft(LAMBDA sofar, e : Embedding(e, InnerPackage(directory, targets), f, sofar),
                    here, (CHOOSE t \in declared : TRUE).embedded)

(* Crossing into another package changes the package a bare name belongs   *)
(* to; the qualifiers stay those of the file the walk began in.            *)
Embedding(ref, directory, f, found) ==
  IF ref.qualifier = "" THEN Embedded(ref, f, found, {}, {directory} \cap Directories, directory)
  ELSE Embedded(ref, f, found, PathOf(ref.qualifier, f), ForQualifier(ref.qualifier, f), directory)

GoAncestry(type, f) == Embedding([qualifier |-> "", name |-> type], files[f].directory, f, <<>>)

GoOriginClaims(ancestors, sink) ==
  \E a \in ToSet(ancestors) : a.origin # <<>> /\ IsSuffix(sink.baseType, a.origin)

GoSinkOf(ancestors, sinks) ==
  LET claimed == SelectSeq(sinks, LAMBDA s : GoOriginClaims(ancestors, s))
  IN  IF claimed = <<>> THEN {} ELSE {claimed[1]}

-----------------------------------------------------------------------------
(* The value of an expression.                                             *)

Operand(node) == IF node.type = "string" THEN Text(node.segments) ELSE Hole("dynamic")

(* What the syntax alone proves: names inside a sum stay holes.            *)
FoldGoValue(node) ==
  CASE node.type = "string" -> Literal(node.segments)
    [] node.type = "sum" -> TemplateOf([i \in DOMAIN node.operands |-> Operand(node.operands[i])])
    [] OTHER -> Unknown("dynamic")

ConstantOf(node, directory, f) ==
  LET bound == UNION {ConstOf(n.directory, n.name) : n \in Named(node, directory, f)}
  IN  IF bound = {} THEN NoValue ELSE CHOOSE value \in bound : TRUE

(* The next constant is looked up before the budget is spent.              *)
FoldGoSinkValue(node, directory, f) ==
  LET edge[i \in 0..(MaxConstantEdges + 1)] ==
        IF i = 0 THEN node ELSE ConstantOf(edge[i - 1], directory, f)
      proven == {i \in 0..MaxConstantEdges : FoldGoValue(edge[i]).kind # "unknown"}
  IN  IF proven # {} THEN FoldGoValue(edge[CHOOSE i \in proven : \A j \in proven : i <= j])
      ELSE IF edge[MaxConstantEdges + 1] # NoValue THEN Unknown("depth_exceeded")
      ELSE Unknown("dynamic")

-----------------------------------------------------------------------------
(* Records.  A field holds the value last written to it and the package    *)
(* whose constructor supplied it, none where the method wrote it.          *)

Written(value) == [value |-> value, directory |-> {}]

CalledFunction(value, f) ==
  IF value.type # "call" THEN {}
  ELSE UNION {{[declaration |-> d, directory |-> n.directory] : d \in FunctionOf(n.directory, n.name)} :
                n \in Named(value.function, files[f].directory, f)}

(* The fields a constructor gives: those of the first literal in its body  *)
(* that names any.                                                         *)
ConstructorSummary(value, f) ==
  LET found == {c \in CalledFunction(value, f) : KeyedLiterals(c.declaration.body) # <<>>}
      constructor == CHOOSE c \in found : TRUE
      keyed == KeyedLiterals(constructor.declaration.body)[1].keyed
  IN  IF found = {} THEN <<>>
      ELSE [field \in DOMAIN keyed |->
              [value |-> keyed[field], directory |-> {constructor.directory}]]

(* A binding seeds the record of its name; a write through a field is a    *)
(* strong update of that field alone.                                      *)
ApplyBinding(records, statement, f) ==
  IF statement.type = "bind"
    THEN IF statement.value = NoValue THEN records
         ELSE (statement.target :> ConstructorSummary(statement.value, f)) @@ records
  ELSE IF statement.record \notin DOMAIN records THEN records
  ELSE [records EXCEPT ![statement.record] = (statement.field :> Written(statement.value)) @@ @]

(* Blocks are walked through as if they always ran, and every send reads   *)
(* the records as the whole body leaves them.                              *)
RecordsOf(body, f) ==
  FoldLeft(LAMBDA records, statement : ApplyBinding(records, statement, f), <<>>, Bindings(body))

ResolveChain(selector, arguments, records) ==
  LET start == IF selector # <<>> /\ selector[1].kind = "position" /\ selector[1].index \in DOMAIN arguments
                 THEN arguments[selector[1].index] ELSE NoValue
      record == IF start.type = "identifier" /\ start.name \in DOMAIN records
                  THEN records[start.name] ELSE <<>>
  IN  IF Len(selector) <= 1 THEN Written(start)
      ELSE IF Len(selector) = 2 /\ selector[2].kind = "field" /\ selector[2].name \in DOMAIN record
        THEN record[selector[2].name]
      ELSE Written(NoValue)

FoldFieldInReader(entry, f) == FoldGoSinkValue(entry.value, files[f].directory, f)

(* A value a constructor supplied names its constants in the package that  *)
(* declared the literal.                                                   *)
FoldField(entry, f) ==
  FoldGoSinkValue(entry.value,
                  IF entry.directory = {} THEN files[f].directory ELSE CHOOSE d \in entry.directory : TRUE,
                  f)

-----------------------------------------------------------------------------
(* The configuration a construction is given.                              *)

QualifiedType(ref, f) ==
  IF ref.qualifier = "" THEN {Append(files[f].directory, ref.name)}
                        ELSE {Append(path, ref.name) : path \in PathOf(ref.qualifier, f)}

(* The type of the first parameter of the name.                            *)
ParameterType(name, parameters, f) ==
  LET named == SelectSeq(parameters, LAMBDA p : p.name = name)
  IN  IF named = <<>> THEN {} ELSE QualifiedType(named[1].type, f)

(* A dotted read of a typed parameter is a configuration locator.          *)
GoConfigRefs(node, parameters, f) ==
  IF Pointee(node).type # "selector" THEN {}
  ELSE {ConfigRef(type \o Pointee(node).path) : type \in ParameterType(Pointee(node).root, parameters, f)}

GoConfigFold(node, parameters, f) ==
  LET refs == GoConfigRefs(node, parameters, f)
  IN  IF refs # {} THEN CHOOSE ref \in refs : TRUE
      ELSE FoldGoSinkValue(node, files[f].directory, f)

(* A method's receiver is the first of its parameters.                     *)
ParametersOf(declaration) ==
  IF declaration.type # "method" THEN declaration.parameters
  ELSE <<[name |-> declaration.receiver.name,
          type |-> [qualifier |-> "", name |-> declaration.receiver.type]]>> \o declaration.parameters

(* Every call of the unit with the file and the parameters around it.      *)
GoCallSites ==
  FlattenSeq([f \in DOMAIN files |->
    FlattenSeq([i \in DOMAIN files[f].declarations |->
      LET declaration == files[f].declarations[i]
          calls == CallsIn(declaration.body)
      IN  [k \in DOMAIN calls |-> [call |-> calls[k], file |-> f,
                                   parameters |-> ParametersOf(declaration)]]])])

ConstructedType(site) ==
  UNION {{Append(n.directory, result) : result \in ResultOf(n.directory, n.name)} :
           n \in Named(site.call.function, files[site.file].directory, site.file)}

OwnConstructions(type, f) ==
  SelectSeq(GoCallSites, LAMBDA s : Append(files[f].directory, type) \in ConstructedType(s))

(* The file whose names an argument is folded with: that of the first      *)
(* construction that starts before it, whichever file the argument is in.  *)
(* Constructions that start alike are one entry, of the last of them.      *)
FoldContext(node, constructions) ==
  LET before == SelectSeq(constructions, LAMBDA s : node.start >= s.call.start)
      alike == SelectSeq(constructions, LAMBDA s : s.call.start = before[1].call.start)
  IN  Last(alike).file

ConstructionValues(selector, constructions) ==
  LET given == {s \in ToSet(constructions) : selector[1].index \in DOMAIN s.call.arguments}
  IN  IF selector[1].kind # "position" THEN {}
      ELSE {LET node == s.call.arguments[selector[1].index]
            IN  GoConfigFold(node, s.parameters, FoldContext(node, constructions)) : s \in given}

GoDestinations(selector, constructions, ancestors) ==
  Ladder(selector, {}, Constructed(ConstructionValues(selector, constructions), "owner_construction"),
         {}, \E a \in ToSet(ancestors) : a.declared)

-----------------------------------------------------------------------------
(* The sends of a method.                                                  *)

(* A call of a listed member on the receiver itself.                       *)
SendsOf(method, sink) ==
  SelectSeq(CallsIn(method.body), LAMBDA c :
    /\ c.function.type = "selector" /\ c.function.root = method.receiver.name
    /\ Len(c.function.path) = 1 /\ CallOfMember(sink, c.function.path[1]) # <<>>)

GoDraft(method, f, call, match, records, ancestors) ==
  LET Chained(key) == FoldField(ResolveChain(Binding(match, key), call.arguments, records), f)
      site == [view |-> f, call |-> call,
               owner |-> [class |-> method.receiver.type, name |-> method.name]]
  IN  OutboundDraft(site, "declared", Chained("method"), CanonicalPathIr(UrlPath(Chained("pathArg"))),
        DestinationsOfUrl(Chained("pathArg"),
          GoDestinations(Binding(match, "target"), OwnConstructions(method.receiver.type, f), ancestors)),
        {})

FactsOfSink(method, f, sink, records, ancestors) ==
  LET sends == SendsOf(method, sink)
  IN  [i \in DOMAIN sends |->
         GoDraft(method, f, sends[i],
                 [sink |-> sink, call |-> CallOfMember(sink, sends[i].function.path[1])[1]],
                 records, ancestors)]

FactsOfClaimed(method, f, claimed, ancestors) ==
  IF claimed = {} \/ method.receiver.name = "" THEN <<>>
  ELSE FactsOfSink(method, f, CHOOSE s \in claimed : TRUE, RecordsOf(method.body, f), ancestors)

FactsOfAncestry(method, f, sinks, ancestors) ==
  FactsOfClaimed(method, f, GoSinkOf(ancestors, sinks), ancestors)

(* The facts of a method: none where its receiver claims no sink.          *)
FactsOfMethod(method, f, sinks) ==
  FactsOfAncestry(method, f, sinks, GoAncestry(method.receiver.type, f))
=============================================================================
