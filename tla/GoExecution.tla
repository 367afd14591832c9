---------------------------- MODULE GoExecution ----------------------------
(***************************************************************************)
(* What a Go method sends when it runs, by the rules of the language and   *)
(* not by the detector's: the statements of a body in their order, each    *)
(* block entered or not, a name bound in a block forgotten after it, every *)
(* name read in the file that wrote it, and a record reached through every *)
(* name that points at it.  What a run need not settle is Undecided.       *)
(***************************************************************************)
EXTENDS GoOutbound

Undecided == [kind |-> "any"]
Chars(segments) == [kind |-> "text", segments |-> segments]
Pointer(at) == [kind |-> "pointer", at |-> at]

-----------------------------------------------------------------------------
(* Names.                                                                  *)

FilesOf(directory) == {g \in DOMAIN files : files[g].directory = directory}

(* The package-level constants a name means to a file.                     *)
ConstantsNamed(node, f) ==
  UNION {UNION {{[file |-> g, value |-> c.value] :
                   c \in {k \in ToSet(files[g].constants) : k.name = n.name}} : g \in FilesOf(n.directory)} :
           n \in Named(node, files[f].directory, f)}

FunctionsNamed(node, f) ==
  UNION {UNION {{[file |-> g, declaration |-> d] :
                   d \in {k \in ToSet(files[g].declarations) : k.type = "function" /\ k.name = n.name}} :
                  g \in FilesOf(n.directory)} :
           n \in Named(node, files[f].directory, f)}

-----------------------------------------------------------------------------
(* Runs.  A run is what its names hold, the records made so far, the calls *)
(* made with what they were given, and what it returned.                   *)

Started(parameters) ==
  [names |-> [n \in {p.name : p \in ToSet(parameters)} |-> Undecided],
   records |-> <<>>, calls |-> {}, returned |-> {}, ended |-> FALSE]

FieldOf(record, field) == IF field \in DOMAIN record THEN record[field] ELSE Undecided

RECURSIVE Evaluated(_, _, _)

Evaluated(node, run, f) ==
  LET Constant == {Evaluated(c.value, Started(<<>>), c.file) : c \in ConstantsNamed(node, f)}
      Global == IF Constant = {} THEN Undecided ELSE CHOOSE v \in Constant : TRUE
      Of(value) == IF value.kind = "pointer" /\ Len(node.path) = 1
                     THEN FieldOf(run.records[value.at], node.path[1]) ELSE Undecided
  IN  CASE node.type = "string" -> Chars(node.segments)
        [] node.type = "sum" ->
             LET parts == [i \in DOMAIN node.operands |-> Evaluated(node.operands[i], run, f)]
             IN  IF \A i \in DOMAIN parts : parts[i].kind = "text"
                   THEN Chars(FlattenSeq([i \in DOMAIN parts |-> parts[i].segments])) ELSE Undecided
        [] node.type = "identifier" ->
             IF node.name \in DOMAIN run.names THEN run.names[node.name] ELSE Global
        [] node.type = "selector" ->
             IF node.root \in DOMAIN run.names THEN Of(run.names[node.root]) ELSE Global
        [] OTHER -> Undecided

Bound(run, name, value) == [run EXCEPT !.names = (name :> value) @@ @]

BoundRecord(run, name, record) ==
  [Bound(run, name, Pointer(Len(run.records) + 1)) EXCEPT !.records = Append(@, record)]

(* A call sees what it is given, and may write any record it is handed.    *)
Called(run, call, f) ==
  LET given == [i \in DOMAIN call.arguments |-> Evaluated(call.arguments[i], run, f)]
      Seen(v) == IF v.kind = "pointer" THEN [kind |-> "record", fields |-> run.records[v.at]] ELSE v
      handed == {v.at : v \in {u \in ToSet(given) : u.kind = "pointer"}}
  IN  [run EXCEPT !.calls = @ \cup {[start |-> call.start, given |-> [i \in DOMAIN given |-> Seen(given[i])]]},
                  !.records = [at \in DOMAIN @ |-> IF at \in handed THEN <<>> ELSE @[at]]]

RECURSIVE RunsOf(_, _, _), Made(_, _, _)

(* The records an expression may make: a literal, or what a function of    *)
(* the unit returns.                                                       *)
Made(value, run, f) ==
  IF Pointee(value).type = "composite"
    THEN {[k \in DOMAIN Pointee(value).keyed |-> Evaluated(Pointee(value).keyed[k], run, f)]}
  ELSE IF value.type # "call" THEN {}
  ELSE UNION {UNION {r.returned : r \in RunsOf(c.declaration.body, {Started(c.declaration.parameters)}, c.file)} :
                c \in FunctionsNamed(value.function, f)}

(* What a return hands back: the record a name points at, or the one made. *)
Returned(value, run, f) ==
  LET v == Evaluated(value, run, f)
  IN  IF v.kind = "pointer" THEN {run.records[v.at]} ELSE Made(value, run, f)

Wrote(run, statement, f) ==
  LET target == IF statement.record \in DOMAIN run.names THEN run.names[statement.record] ELSE Undecided
  IN  IF target.kind # "pointer" THEN run
      ELSE [run EXCEPT !.records[target.at] =
              (statement.field :> Evaluated(statement.value, run, f)) @@ @]

(* A block leaves the names that stood before it as they stand after it,   *)
(* its own declarations apart.                                             *)
Left(outer, inner, body) ==
  LET own == {s.target : s \in {b \in ToSet(body) : b.type = "bind" /\ b.form # "="}}
  IN  [inner EXCEPT !.names = [n \in DOMAIN outer.names |-> IF n \in own THEN outer.names[n] ELSE @[n]]]

StepOf(run, statement, f) ==
  LET after == IF statement.type # "block" /\ statement.value.type = "call"
                 THEN Called(run, statement.value, f) ELSE run
      made == IF statement.type = "bind" THEN Made(statement.value, run, f) ELSE {}
  IN  CASE run.ended -> {run}
        [] ~run.ended /\ statement.type = "block" ->
             {run} \cup {Left(run, inner, statement.body) : inner \in RunsOf(statement.body, {run}, f)}
        [] ~run.ended /\ statement.type = "bind" ->
             IF made = {} THEN {Bound(after, statement.target, Evaluated(statement.value, run, f))}
             ELSE {BoundRecord(after, statement.target, record) : record \in made}
        [] ~run.ended /\ statement.type = "write" -> {Wrote(after, statement, f)}
        [] ~run.ended /\ statement.type = "return" ->
             {[after EXCEPT !.ended = TRUE, !.returned = {record}] : record \in Returned(statement.value, run, f)}
               \cup (IF Returned(statement.value, run, f) = {} THEN {[after EXCEPT !.ended = TRUE]} ELSE {})
        [] OTHER -> {after}

RunsOf(body, runs, f) ==
  FoldLeft(LAMBDA sofar, statement : UNION {StepOf(run, statement, f) : run \in sofar}, runs, body)

(* What the runs of a method may hand a selector at a call.                *)
HandedTo(selector, call, method, f) ==
  LET calls == {c \in UNION {run.calls : run \in RunsOf(method.body, {Started(ParametersOf(method))}, f)} :
                  c.start = call.start}
      Read(c) == LET given == c.given[selector[1].index]
                 IN  IF Len(selector) = 1 THEN given
                     ELSE IF given.kind = "record" THEN FieldOf(given.fields, selector[2].name) ELSE Undecided
  IN  {Read(c) : c \in calls}

-----------------------------------------------------------------------------
(* What a detector that reads a body without running it can follow.        *)

Touches(statement, name) ==
  \/ statement.type = "bind" /\ statement.target = name
  \/ statement.type = "write" /\ statement.record = name

IsName(node, name) == node.type = "identifier" /\ node.name = name

(* A statement that gives the record another name, or hands it to a call.  *)
Shares(statement, name) ==
  \/ IsName(statement.value, name)
  \/ /\ statement.value.type = "call"
     /\ \E i \in DOMAIN statement.value.arguments : IsName(statement.value.arguments[i], name)

(* The record of a call is bound and filled before it, outside every block *)
(* and under one name.                                                     *)
IsFilledBefore(name, call, body) ==
  LET flat == GoStatements(body)
      at == CHOOSE i \in DOMAIN flat : flat[i].value.type = "call" /\ flat[i].value.start = call.start
  IN  /\ \A i \in DOMAIN flat : (Touches(flat[i], name) => i < at) /\ (Shares(flat[i], name) => i >= at)
      /\ \A s \in ToSet(body) : s.type = "block" => \A t \in ToSet(s.body) : ~Touches(t, name)

(* The function a record comes from does nothing but return a literal.     *)
IsPlainConstructor(declaration) ==
  /\ Len(declaration.body) = 1 /\ declaration.body[1].type = "return"
  /\ Pointee(declaration.body[1].value).type = "composite"

IsBoundInSome(name, directory) ==
  \E g \in FilesOf(directory) : \E d \in ToSet(files[g].declarations) :
    \/ \E p \in ToSet(ParametersOf(d)) : p.name = name
    \/ \E s \in ToSet(Bindings(d.body)) : s.type = "bind" /\ s.target = name

RECURSIVE MeansTheSame(_, _, _, _)

(* Every name met from a value on means to the reading file, in the        *)
(* package the value is read in, what it means where it is written.        *)
MeansTheSame(node, written, f, directory) ==
  LET further == \A c \in ConstantsNamed(node, written) : MeansTheSame(c.value, c.file, f, directory)
  IN  CASE node.type = "identifier" ->
             files[written].directory = directory /\ ~IsBoundInSome(node.name, directory) /\ further
        [] node.type = "selector" ->
             /\ ~IsBoundInSome(node.root, files[written].directory)
             /\ PathOf(node.root, written) = PathOf(node.root, f) /\ further
        [] OTHER -> TRUE

(* Where a field of the record is written last: in the method, or in the   *)
(* literal of its constructor.                                             *)
SourcesOf(name, field, method, f) ==
  LET touching == SelectSeq(GoStatements(method.body), LAMBDA s : Touches(s, name))
      binds  == {i \in DOMAIN touching : touching[i].type = "bind"}
      bound  == IF binds = {} THEN NoValue ELSE touching[CHOOSE i \in binds : \A j \in binds : j <= i].value
      writes == SelectSeq(touching, LAMBDA s : s.type = "write" /\ s.field = field)
      made   == IF bound.type = "call" THEN FunctionsNamed(bound.function, f) ELSE {}
  IN  IF writes # <<>> THEN {[node |-> Last(writes).value, file |-> f]}
      ELSE UNION {{[node |-> l.keyed[field], file |-> c.file] :
                     l \in {k \in ToSet(KeyedLiterals(c.declaration.body)) : field \in DOMAIN k.keyed}} : c \in made}

ConstructorsOf(name, method, f) ==
  UNION {FunctionsNamed(s.value.function, f) :
           s \in {b \in ToSet(Bindings(method.body)) :
                    b.type = "bind" /\ b.target = name /\ b.value.type = "call"}}

(* Whether a selector reads what a reading without running can follow.     *)
IsFollowable(selector, call, method, f) ==
  LET argument == call.arguments[selector[1].index]
  IN  IF Len(selector) = 1 THEN MeansTheSame(argument, f, f, files[f].directory)
      ELSE /\ IsFilledBefore(argument.name, call, method.body)
           /\ \A c \in ConstructorsOf(argument.name, method, f) : IsPlainConstructor(c.declaration)
           /\ \A s \in SourcesOf(argument.name, selector[2].name, method, f) :
                MeansTheSame(s.node, s.file, f, files[s.file].directory)

-----------------------------------------------------------------------------
(* Embedding, each type named by the file that declares it.                *)

TypesNamed(name, directories) ==
  UNION {{[file |-> g, declared |-> t] : t \in {k \in ToSet(files[g].types) : k.name = name}} :
           g \in UNION {FilesOf(d) : d \in directories}}

Embeds(type) ==
  {[name |-> e.name,
    paths |-> IF e.qualifier = "" THEN {} ELSE PathOf(e.qualifier, type.file),
    directories |-> IF e.qualifier = "" THEN {files[type.file].directory} ELSE ForQualifier(e.qualifier, type.file)] :
     e \in ToSet(type.declared.embedded)}

RECURSIVE EmbeddedIn(_, _)

EmbeddedIn(frontier, seen) ==
  IF frontier \subseteq seen THEN seen
  ELSE EmbeddedIn(UNION {UNION {Embeds(t) : t \in TypesNamed(r.name, r.directories)} : r \in frontier \ seen},
                  seen \cup frontier)

(* The types a type is composed of, itself included.                       *)
Composition(name, f) ==
  EmbeddedIn({[name |-> name, paths |-> {}, directories |-> {files[f].directory}]}, {})

ComposesSink(composition, sink) ==
  \E r \in composition : \E path \in r.paths : IsSuffix(sink.baseType, Append(path, r.name))

(* Every qualifier the composition is written with means the same to f.    *)
IsWrittenAsIn(composition, f) ==
  \A r \in composition : \A t \in TypesNamed(r.name, r.directories) :
    \A e \in ToSet(t.declared.embedded) : e.qualifier = "" \/ PathOf(e.qualifier, t.file) = PathOf(e.qualifier, f)
=============================================================================
