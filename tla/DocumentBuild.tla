--------------------------- MODULE DocumentBuild ---------------------------
(***************************************************************************)
(* The document half of a build: five extractors run at once over the      *)
(* parsed files, each may throw, and the document is rendered from what is *)
(* left (src/features/build).  Of the adapters, the Go and the Python ones *)
(* are here; a file is given as the declarations its syntax tree holds.    *)
(***************************************************************************)
EXTENDS Headings, SequencesExt

CONSTANTS
  Units,           \* [language, files in the order of the walk, facts]
  Alphabet,        \* every word of the units, in the order localeCompare gives
  Overview,        \* the texts the overview file may hold
  SectionOrder,    \* config.sections
  Weights,         \* entities.importance
  TopN,            \* entities.top_n
  LastN,           \* storage.last_n
  Depth, MinFiles, KnownRoles, Custom,   \* contexts
  EnumBases, BaseClass, MigrationsDir, WorkerNames,
  Null             \* no type, table, revision, overview or facts

Extractors == {"contexts", "entities", "enums", "storage", "workers"}

ASSUME AlphabetIsOrdered ==
  /\ Alphabet \in Seq(STRING)
  /\ \A i, j \in DOMAIN Alphabet : Alphabet[i] = Alphabet[j] => i = j
ASSUME SectionsAreKnown ==
  SectionOrder \in Seq(Extractors \cup {"overview", "endpoints", "interactions"})
ASSUME LimitsArePositive == {TopN, LastN, Depth, MinFiles} \subseteq Nat \ {0}
ASSUME WeightsAreNumbers ==
  Weights \in [methodCount : Int, fieldCount : Int, inboundReferences : Int]

(* Every word there is; what is sorted by name is named in them.           *)
Word == ToSet(Alphabet)

ASSUME ExtractorsAreWords == Extractors \subseteq Word

TypeSpec ==
  [name : Word, line : Nat, fields : Seq(STRING), exported : BOOLEAN, struct : BOOLEAN]
(* The type a method is declared on, and the parameters its receiver gives  *)
(* a generic one: `Stack` and <<"T">> for func (s *Stack[T]) Push().       *)
MethodDeclaration == [receiver : STRING, parameters : Seq(STRING), name : STRING]
ConstSpec == [names : Seq(STRING) \ {<<>>}, type : Word \cup {Null}, valued : BOOLEAN]
ClassDefinition ==
  [name : Word, owners : Seq(Word), line : Nat, bases : Seq(Seq(STRING)),
   methods : Seq(STRING), fields : Seq(STRING), members : Seq(STRING),
   table : STRING, topics : Seq(STRING), private : BOOLEAN]

(* What the syntax tree of a file declares.                                *)
SourceFile ==
  [dir : Seq(Word), base : Word, parses : BOOLEAN, imports : SUBSET STRING,
   types : Seq(TypeSpec), methods : Seq(MethodDeclaration), consts : Seq(Seq(ConstSpec)),
   classes : Seq(ClassDefinition), tasks : Seq([name : STRING, topics : Seq(STRING)]),
   revision : STRING \cup {Null}, touches : Seq(STRING)]

File(f) == Append(f.dir, f.base)

(* A path is walked once, and no name is declared twice on a line.         *)
ASSUME UnitsAreSources ==
  \A u \in Units :
    /\ u.files \in Seq(SourceFile)
    /\ \A i, j \in DOMAIN u.files : File(u.files[i]) = File(u.files[j]) => i = j
    /\ \A f \in ToSet(u.files) :
         \A declared \in {f.types, f.classes} : \A i, j \in DOMAIN declared :
           declared[i].name = declared[j].name /\ declared[i].line = declared[j].line => i = j

VARIABLES
  unit,       \* what was read
  settled,    \* [Extractors -> "running", "resolved" or "rejected"]
  results,    \* what each extractor gave, or its fallback
  errors,     \* the extractors that threw, in the order they did
  overview,
  document    \* the blocks rendered, or Null

vars == <<unit, settled, results, errors, overview, document>>

-----------------------------------------------------------------------------
(* Orders.                                                                 *)

Position(word) == CHOOSE i \in DOMAIN Alphabet : Alphabet[i] = word

Least(S) == CHOOSE n \in S : \A m \in S : n <= m

LessThan(p, q) ==
  LET apart == {i \in DOMAIN p \cap DOMAIN q : p[i] # q[i]}
  IN  IF apart = {} THEN Len(p) < Len(q)
      ELSE Position(p[Least(apart)]) < Position(q[Least(apart)])

(* The place of i among n positions, and a sequence put in such places.     *)
Place(ahead, n, i) == 1 + Cardinality({j \in 1..n : <<j, i>> \in ahead})
Arranged(s, ahead) ==
  [k \in DOMAIN s |-> s[CHOOSE i \in DOMAIN s : Place(ahead, Len(s), i) = k]]

(* A stable sort.                                                          *)
Sorted(s, Before(_, _)) ==
  Arranged(s, {p \in (DOMAIN s) \X (DOMAIN s) :
                 \/ Before(s[p[1]], s[p[2]])
                 \/ p[1] < p[2] /\ ~Before(s[p[2]], s[p[1]])})

ByName(a, b) == LessThan(a.name, b.name)

Truncated(s, n) == IF Len(s) <= n THEN s ELSE SubSeq(s, 1, n)

(* What every file gives, in the order of the walk.                        *)
Gathered(files, Given(_)) == FlattenSeq([i \in DOMAIN files |-> Given(files[i])])
Kept(s, Test(_)) == FlattenSeq([i \in DOMAIN s |-> IF Test(s[i]) THEN <<s[i]>> ELSE <<>>])
Mapped(s, Image(_)) == [i \in DOMAIN s |-> Image(s[i])]

-----------------------------------------------------------------------------
(* The files that parse, and the names their imports mention.              *)

Parsed(u) == Kept(u.files, LAMBDA f : f.parses)

Inbound(files, name) == Cardinality({i \in DOMAIN files : name \in files[i].imports})

-----------------------------------------------------------------------------
(* Contexts.                                                               *)

TopDirectory(f) == SubSeq(f.dir, 1, IF Depth < Len(f.dir) THEN Depth ELSE Len(f.dir))

Role(dir) ==
  LET known == {i \in DOMAIN dir : dir[i] \in DOMAIN KnownRoles}
  IN  IF dir \in DOMAIN Custom THEN Custom[dir]
      ELSE IF known = {} THEN "Unspecified"
      ELSE KnownRoles[dir[CHOOSE i \in known : \A j \in known : j <= i]]

Contexts(u) ==
  LET below == Kept(Parsed(u), LAMBDA f : f.dir # <<>>)
      count(dir) == Cardinality({i \in DOMAIN below : TopDirectory(below[i]) = dir})
      kept == {dir \in {TopDirectory(below[i]) : i \in DOMAIN below} :
                 count(dir) >= MinFiles \/ dir \in DOMAIN Custom}
      before(a, b) == \/ b.files < a.files
                      \/ a.files = b.files /\ LessThan(a.path, b.path)
  IN  SetToSortSeq({[path |-> dir, files |-> count(dir), role |-> Role(dir)] : dir \in kept},
                   before)

-----------------------------------------------------------------------------
(* Entities.                                                               *)

MaxMethods == 8
MaxFields == 12

(* The text of the receiver's type: `Stack[T]` is not the text `Stack`.    *)
ReceiverText(m) == <<m.receiver>> \o m.parameters

(* A Go method lives in the package of its receiver, and is looked up by   *)
(* that text.                                                              *)
GoMethodsOfAnyPackage(files, dir, name) ==
  LET own(f) == Kept(f.methods, LAMBDA m : ReceiverText(m) = <<name>>)
  IN  Mapped(Gathered(files, own), LAMBDA m : m.name)
GoMethods(files, dir, name) ==
  LET own(f) == IF f.dir = dir THEN Kept(f.methods, LAMBDA m : ReceiverText(m) = <<name>>)
                ELSE <<>>
  IN  Mapped(Gathered(files, own), LAMBDA m : m.name)

GoEntity(files, f, t) ==
  [name |-> <<t.name>>, dir |-> f.dir, file |-> File(f), line |-> t.line,
   inherits |-> <<>>,
   fields |-> Truncated(t.fields, MaxFields),
   methods |-> Truncated(GoMethods(files, f.dir, t.name), MaxMethods)]

GoEntitiesOf(files, f) ==
  LET structs == Kept(f.types, LAMBDA t : t.exported /\ t.struct)
  IN  Kept(Mapped(structs, LAMBDA t : GoEntity(files, f, t)),
           LAMBDA e : e.methods # <<>> \/ Len(e.fields) >= 2)

GoEntities(files) == Gathered(files, LAMBDA f : GoEntitiesOf(files, f))

(* The base must be spelled as the listed name's last segment alone.       *)
SpelledAsEnum(class) ==
  \E i \in DOMAIN class.bases : Len(class.bases[i]) = 1 /\ class.bases[i][1] \in EnumBases

PythonEntity(f, c) ==
  [name |-> <<c.name>>, dir |-> f.dir, file |-> File(f), line |-> c.line,
   inherits |-> c.bases,
   fields |-> Truncated(c.fields, MaxFields),
   methods |-> Truncated(c.methods, MaxMethods)]

PythonEntitiesOf(f) ==
  LET reported(c) == /\ ~c.private
                     /\ ~SpelledAsEnum(c)
                     /\ Len(c.methods) >= 2 \/ c.bases # <<>>
  IN  Mapped(Kept(f.classes, reported), LAMBDA c : PythonEntity(f, c))

PythonEntities(files) == Gathered(files, PythonEntitiesOf)

RawEntities(u) ==
  IF u.language = "go" THEN GoEntities(Parsed(u)) ELSE PythonEntities(Parsed(u))

Importance(u, e) ==
  Weights.methodCount * Len(e.methods) + Weights.fieldCount * Len(e.fields)
    + Weights.inboundReferences * Inbound(Parsed(u), e.name[1])

EntityBeforeByNameOnly(u, a, b) ==
  LET weight(e) == Importance(u, e)
  IN  \/ weight(b) < weight(a)
      \/ weight(a) = weight(b) /\ LessThan(a.name, b.name)
EntityBefore(u, a, b) ==
  LET weight(e) == Importance(u, e)
  IN  \/ weight(b) < weight(a)
      \/ weight(a) = weight(b) /\ LessThan(a.name, b.name)
      \/ weight(a) = weight(b) /\ a.name = b.name /\ LessThan(a.file, b.file)
      \/ /\ weight(a) = weight(b) /\ a.name = b.name /\ a.file = b.file
         /\ a.line < b.line

RankAndTrim(u, entities) ==
  Truncated(Sorted(entities, LAMBDA a, b : EntityBefore(u, a, b)), TopN)

-----------------------------------------------------------------------------
(* Enums.                                                                  *)

Typed(block) == Kept(block, LAMBDA spec : spec.type # Null)

(* Of a specification that declares several constants, the first alone is  *)
(* read.                                                                   *)
Declares(block) == Mapped(block, LAMBDA spec : spec.names[1])

(* A block goes to the type its first typed constant names.                *)
ConstBlocksOf(f) ==
  Mapped(Kept(f.consts, LAMBDA b : Typed(b) # <<>>),
         LAMBDA b : [name |-> <<Typed(b)[1].type>>, dir |-> f.dir, file |-> File(f),
                     members |-> Declares(b)])

ConstBlocks(files) == Gathered(files, ConstBlocksOf)

SameEnum(a, b) == a.name = b.name /\ a.dir = b.dir

GoEnum(blocks, i) ==
  LET same == Kept(blocks, LAMBDA b : SameEnum(b, blocks[i]))
  IN  [blocks[i] EXCEPT !.members = Gathered(same, LAMBDA b : b.members)]

(* An enum stands where its first block does.                              *)
GoEnums(files) ==
  LET blocks == ConstBlocks(files)
      opens(i) == ~\E j \in 1..(i - 1) : SameEnum(blocks[j], blocks[i])
  IN  Mapped(Kept([i \in DOMAIN blocks |-> i], opens), LAMBDA i : GoEnum(blocks, i))

PythonEnumsOf(f) ==
  LET named(c) == \E i \in DOMAIN c.bases : Last(c.bases[i]) \in EnumBases
  IN  Mapped(Kept(f.classes, LAMBDA c : named(c) /\ c.members # <<>>),
             LAMBDA c : [name |-> Append(c.owners, c.name), dir |-> f.dir,
                         file |-> File(f), members |-> c.members])

PythonEnums(files) == Gathered(files, PythonEnumsOf)

Enums(u) ==
  Sorted(IF u.language = "go" THEN GoEnums(Parsed(u)) ELSE PythonEnums(Parsed(u)), ByName)

-----------------------------------------------------------------------------
(* Storage and workers.                                                    *)

Tables(files) ==
  LET mapped(c) == \E i \in DOMAIN c.bases : Last(c.bases[i]) = BaseClass
      ofFile(f) == Mapped(Kept(f.classes, mapped),
                          LAMBDA c : [name |-> <<c.table>>, model |-> c.name, file |-> File(f)])
  IN  Gathered(files, ofFile)

Migrations(files) ==
  LET kept(f) == /\ MigrationsDir # Null /\ IsPrefix(MigrationsDir, f.dir)
                 /\ f.revision # Null
  IN  Mapped(Kept(files, kept), LAMBDA f : [name |-> <<f.revision>>, touches |-> f.touches])

Storage(u) ==
  LET files == IF u.language = "python" THEN Parsed(u) ELSE <<>>
      newest == Truncated(Reverse(Sorted(Migrations(files), ByName)), LastN)
  IN  [tables |-> Sorted(Tables(files), ByName), migrations |-> newest]

Workers(u) ==
  LET files == IF u.language = "python" THEN Parsed(u) ELSE <<>>
      ofFile(f) ==
        Mapped(Kept(f.classes, LAMBDA c : c.name \in WorkerNames) \o f.tasks,
               LAMBDA w : [name |-> <<w.name>>, file |-> File(f),
                           subscribesTo |-> w.topics])
  IN  Sorted(Gathered(files, ofFile), ByName)

-----------------------------------------------------------------------------
(* Rendering.                                                              *)

Block(section, rows) == IF rows = <<>> THEN <<>> ELSE <<[section |-> section, rows |-> rows]>>

EntityRows(entities) ==
  [i \in DOMAIN entities |->
     [heading |-> Heading(entities, i), file |-> entities[i].file,
      inherits |-> entities[i].inherits, methods |-> entities[i].methods,
      fields |-> entities[i].fields]]

EnumRows(enums) ==
  [i \in DOMAIN enums |->
     [heading |-> Heading(enums, i), file |-> enums[i].file, members |-> enums[i].members]]

(* An endpoint whose route is not proven names no route and is left out.   *)
FactRows(facts, kind) ==
  IF facts = Null THEN <<>>
  ELSE Kept(facts, LAMBDA fact : fact.kind = kind
                                      /\ (kind = "endpoints" => fact.routed))

SectionBlock(u, s, gave, text) ==
  CASE s = "overview" -> Block(s, IF text = Null THEN <<>> ELSE <<text>>)
    [] s = "contexts" ->
         Block(s, Mapped(gave.contexts, LAMBDA c : [path |-> c.path, role |-> c.role]))
    [] s = "entities" -> Block(s, EntityRows(gave.entities))
    [] s = "enums" -> Block(s, EnumRows(gave.enums))
    [] s = "storage" ->
         Block(s, Block("tables", gave.storage.tables)
                    \o Block("migrations", gave.storage.migrations))
    [] s = "workers" -> Block(s, gave.workers)
    [] OTHER -> Block(s, FactRows(u.facts, s))

SortedErrors(failed) == Sorted(failed, LAMBDA a, b : LessThan(<<a>>, <<b>>))

Rendered(text) ==
  Block("errors", SortedErrors(errors))
    \o FlattenSeq([k \in DOMAIN SectionOrder |->
                     SectionBlock(unit, SectionOrder[k], results, text)])

-----------------------------------------------------------------------------
(* The build.                                                              *)

Extracted(u, x) ==
  CASE x = "contexts" -> Contexts(u)
    [] x = "entities" -> RankAndTrim(u, RawEntities(u))
    [] x = "enums" -> Enums(u)
    [] x = "storage" -> Storage(u)
    [] x = "workers" -> Workers(u)

FallbackList(x) == <<>>
Fallback(x) ==
  IF x = "storage" THEN [tables |-> <<>>, migrations |-> <<>>] ELSE <<>>

Init ==
  /\ unit \in Units
  /\ settled = [x \in Extractors |-> "running"]
  /\ results = [x \in Extractors |-> Fallback(x)]
  /\ errors = <<>>
  /\ overview = Null
  /\ document = Null

Resolve(x) ==
  /\ settled[x] = "running"
  /\ settled' = [settled EXCEPT ![x] = "resolved"]
  /\ results' = [results EXCEPT ![x] = Extracted(unit, x)]
  /\ UNCHANGED <<unit, errors, overview, document>>

Reject(x) ==
  /\ settled[x] = "running"
  /\ settled' = [settled EXCEPT ![x] = "rejected"]
  /\ results' = [results EXCEPT ![x] = Fallback(x)]
  /\ errors' = Append(errors, x)
  /\ UNCHANGED <<unit, overview, document>>

(* An overview that is not there, or is gone when it is read, is none.     *)
Render ==
  /\ document = Null
  /\ \A x \in Extractors : settled[x] # "running"
  /\ \E text \in Overview \cup {Null} : overview' = text /\ document' = Rendered(text)
  /\ UNCHANGED <<unit, settled, results, errors>>

Next == (\E x \in Extractors : Resolve(x) \/ Reject(x)) \/ Render

Spec == Init /\ [][Next]_vars

-----------------------------------------------------------------------------
Declared(declarations) ==
  \A i \in DOMAIN declarations : /\ declarations[i].name \in Seq(Word)
                                 /\ declarations[i].dir \in Seq(Word)

(* Every extractor has either run, or left its fallback; what it gave has  *)
(* the shape the renderer reads.                                           *)
TypeOK ==
  /\ unit \in Units
  /\ settled \in [Extractors -> {"running", "resolved", "rejected"}]
  /\ DOMAIN results = Extractors
  /\ DOMAIN results.storage = {"tables", "migrations"}
  /\ Declared(results.entities) /\ Declared(results.enums)
  /\ Len(results.entities) <= TopN /\ Len(results.storage.migrations) <= LastN
  /\ Len(errors) <= Cardinality(Extractors)
  /\ overview \in Overview \cup {Null}

Failed == {x \in Extractors : settled[x] = "rejected"}

(***************************************************************************)
(* The document is a function of the unit, the overview and the set of     *)
(* extractors that threw: the errors come first, each once and in order,   *)
(* whichever threw first; every other section is the one a build without   *)
(* errors renders; a section that threw is left out.  No tie among the     *)
(* entities is left to the order files are listed in.  (INV-001, INV-002;  *)
(* build.use-case.ts, entities/extract.ts)                                 *)
(***************************************************************************)
DocumentIsReproducible ==
  document # Null =>
    LET undisturbed == [x \in Extractors |-> IF x \in Failed THEN Fallback(x) ELSE Extracted(unit, x)]
        raw == RawEntities(unit)
        listed == IF Failed = {} THEN <<>> ELSE document[1].rows
    IN  /\ ToSet(listed) = Failed
        /\ \A i, j \in DOMAIN listed : i < j => Position(listed[i]) < Position(listed[j])
        /\ document = Block("errors", listed)
                         \o FlattenSeq([k \in DOMAIN SectionOrder |->
                              IF SectionOrder[k] \in Failed THEN <<>>
                              ELSE SectionBlock(unit, SectionOrder[k], undisturbed, overview)])
        /\ \A i, j \in DOMAIN raw :
             i # j => (EntityBefore(unit, raw[i], raw[j]) <=> ~EntityBefore(unit, raw[j], raw[i]))

(***************************************************************************)
(* One heading stands for one type: a bare name where nothing else claims  *)
(* it, and otherwise two declarations are headed alike only where they     *)
(* share name and directory, or where a nested enum is named like a        *)
(* directory and a type in it.  (DLT-016; qualified-name.ts)               *)
(***************************************************************************)
HeadingsTellTypesApart == TellsApart(results.entities) /\ TellsApart(results.enums)

(* The type the language gives a constant: its own, or, written without a  *)
(* value, that of the constant before it.                                  *)
GoType(block, k) ==
  LET stated == {j \in DOMAIN block : j <= k /\ (block[j].type # Null \/ block[j].valued)}
  IN  IF stated = {} THEN Null
      ELSE block[CHOOSE j \in stated : \A i \in stated : i <= j].type

Uniform(block) == \A k \in DOMAIN block : GoType(block, k) = GoType(block, 1)

(* Where the files of a package declare methods on a type, whether or not  *)
(* the receiver gives it parameters; and the constants the language gives  *)
(* a type there, in the order they are declared.                           *)
MethodsOn(files, dir, type) ==
  UNION {{<<i, k>> : k \in {k \in DOMAIN files[i].methods : files[i].methods[k].receiver = type}} :
           i \in {i \in DOMAIN files : files[i].dir = dir}}
ConstantsOf(files, dir, type) ==
  FlattenSeq([i \in DOMAIN files |-> IF files[i].dir # dir THEN <<>> ELSE
    FlattenSeq([b \in DOMAIN files[i].consts |->
      FlattenSeq([k \in DOMAIN files[i].consts[b] |->
        IF GoType(files[i].consts[b], k) = type THEN files[i].consts[b][k].names ELSE <<>>])])])

(* A type whose constants stand in blocks of their own, a specification    *)
(* for each; and one whose methods give their receiver no parameters.      *)
DeclaredApart(files, dir, type) ==
  \A i \in DOMAIN files : files[i].dir = dir =>
    \A b \in DOMAIN files[i].consts :
      (\E k \in DOMAIN files[i].consts[b] : GoType(files[i].consts[b], k) = type)
      => /\ Uniform(files[i].consts[b])
         /\ \A k \in DOMAIN files[i].consts[b] : Len(files[i].consts[b][k].names) = 1
NotGeneric(files, dir, type) ==
  \A m \in MethodsOn(files, dir, type) : files[m[1]].methods[m[2]].parameters = <<>>

(***************************************************************************)
(* A Go type is reported with its own members and no others: the methods   *)
(* of its entry are declared on it in its package, in whichever file, and  *)
(* an enum holds the constants the language gives the type, in the order   *)
(* they are declared and as often (files for several platforms repeat      *)
(* one), however they are split over blocks and files; none is missing,    *)
(* and no type has two entries.  Three exceptions: a generic type, whose   *)
(* methods are lost; a block with constants of two types, which all go to  *)
(* the first that is stated; and constants that share a specification, of  *)
(* which the first alone is read.                                          *)
(* (DLT-016, BEH-015; entities and enums adapters/go.ts)                   *)
(***************************************************************************)
MembersAreTheTypesOwn ==
  unit.language = "go" =>
    LET files == Parsed(unit)
        methods(e) == MethodsOn(files, e.dir, e.name[1])
        names(e) == {files[m[1]].methods[m[2]].name : m \in methods(e)}
    IN  /\ \A e \in ToSet(results.entities) :
             /\ ToSet(e.methods) \subseteq names(e)
             /\ NotGeneric(files, e.dir, e.name[1]) /\ Cardinality(methods(e)) <= MaxMethods
                  => ToSet(e.methods) = names(e)
        /\ \A i, j \in DOMAIN results.enums :
             SameEnum(results.enums[i], results.enums[j]) => i = j
        /\ \A e \in ToSet(results.enums) :
             DeclaredApart(files, e.dir, e.name[1])
               => e.members = ConstantsOf(files, e.dir, e.name[1])
        /\ settled.enums = "resolved" =>
             \A f \in ToSet(files) : \A block \in ToSet(f.consts) :
               \A k \in DOMAIN block :
                 GoType(block, k) # Null /\ DeclaredApart(files, f.dir, GoType(block, k))
                   => \E e \in ToSet(results.enums) :
                        e.name = <<GoType(block, k)>> /\ e.dir = f.dir
=============================================================================
