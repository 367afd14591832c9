-------------------------- MODULE MCDocumentBuild --------------------------
(***************************************************************************)
(* Small services for DocumentBuild: Go packages whose types, methods and  *)
(* constant blocks are spread over files of one directory, of two, or of   *)
(* directories that end alike; Python modules with enums in classes, bases *)
(* spelled in full, imports that rank the classes, tables, migrations and  *)
(* workers.                                                                *)
(***************************************************************************)
EXTENDS DocumentBuild

MCAlphabet ==
  <<"app.py", "billing", "Client", "Config", "contexts", "core", "entities", "enum", "Enum",
    "enums", "Kind", "m1.py", "m2.py", "main.go", "Model", "more.go", "Order", "r1", "r2", "r3",
    "Run", "shipping", "State", "storage", "tasks", "types.go", "workers">>

Blank ==
  [dir |-> <<>>, base |-> "main.go", parses |-> TRUE, imports |-> {},
   types |-> <<>>, methods |-> <<>>, consts |-> <<>>,
   classes |-> <<>>, tasks |-> <<>>, revision |-> Null, touches |-> <<>>]

Unit(l, fs) == [language |-> l, files |-> fs, facts |-> Null]

-----------------------------------------------------------------------------
(* Go.                                                                     *)

Struct(name, fieldNames) ==
  [name |-> name, line |-> 3, fields |-> fieldNames, exported |-> TRUE, struct |-> TRUE]
MethodOf(receiver, parameters, name) ==
  [receiver |-> receiver, parameters |-> parameters, name |-> name]
Method(receiver, name) == MethodOf(receiver, <<>>, name)
Generic(receiver, name) == MethodOf(receiver, <<"T">>, name)
Consts(names, type, valued) == [names |-> names, type |-> type, valued |-> valued]
Const(name, type, valued) == Consts(<<name>>, type, valued)

Directories == {<<>>, <<"billing">>, <<"core">>, <<"core", "billing">>}

(* A type of one name in three files, with methods or fields enough to be  *)
(* reported, or with neither.                                              *)
GoTypeUnits ==
  {Unit("go",
     <<[Blank EXCEPT !.dir = d1, !.types = <<Struct("Config", own[1])>>,
                     !.methods = own[2]],
       [Blank EXCEPT !.dir = d2, !.base = "more.go", !.types = <<Struct("Client", <<"a", "b">>)>>,
                     !.methods = m2],
       [Blank EXCEPT !.dir = d3, !.base = "types.go", !.types = <<Struct("Config", <<"c">>)>>,
                     !.methods = <<Method("Config", "Stop")>>]>>) :
     d1 \in Directories, d2 \in {<<"billing">>, <<"core", "billing">>},
     d3 \in {<<"core", "billing">>, <<"shipping", "billing">>},
     own \in {<<<<"a">>, <<>>>>, <<<<"a", "b">>, <<>>>>, <<<<"a">>, <<Method("Config", "Run")>>>>},
     m2 \in {<<Method("Client", "Run")>>, <<Method("Config", "Close")>>,
             <<Method("Config", "Run")>>}}

(* A generic type, its methods in its own file and in another one of its   *)
(* package, and a plain type of the same name elsewhere.                   *)
GoGenericUnits ==
  {Unit("go",
     <<[Blank EXCEPT !.dir = <<"billing">>, !.types = <<Struct("Order", f)>>,
                     !.methods = <<Generic("Order", "Run")>>],
       [Blank EXCEPT !.dir = <<"billing">>, !.base = "more.go", !.methods = m,
                     !.types = <<Struct("Client", <<"a">>)>>],
       [Blank EXCEPT !.dir = d, !.base = "types.go", !.types = <<Struct("Order", <<"c">>)>>,
                     !.methods = <<Method("Order", "Run")>>]>>) :
     f \in {<<"a">>, <<"a", "b">>}, d \in {<<"core">>, <<"core", "billing">>},
     m \in {<<>>, <<Generic("Order", "Stop")>>, <<Method("Client", "Stop")>>}}

(* Blocks of constants: one type, its members implied or stated; two types *)
(* in one block; an untyped constant in a typed block; a block of none; a  *)
(* constant that two files declare.                                        *)
BlocksOf(a, b) ==
  {<<>>,
   <<<<Consts(<<a, b>>, "Kind", TRUE)>>>>,
   <<<<Const(a, "Kind", TRUE), Const(b, Null, FALSE)>>>>,
   <<<<Const(a, "Kind", TRUE)>>, <<Const(b, "Kind", TRUE)>>>>,
   <<<<Const(a, "Kind", TRUE)>>, <<Const(b, "State", TRUE)>>>>,
   <<<<Const(a, "Kind", TRUE), Const(b, "State", TRUE)>>>>,
   <<<<Const(a, "State", TRUE), Const(b, Null, TRUE)>>>>,
   <<<<Const(a, Null, TRUE)>>, <<Const(b, "State", TRUE)>>>>}

GoConstUnits ==
  {Unit("go", <<[Blank EXCEPT !.dir = <<"billing">>, !.consts = c1],
                [Blank EXCEPT !.dir = d, !.base = "more.go", !.consts = c2]>>) :
     c1 \in BlocksOf("a", "b"), c2 \in {<<>>, <<<<Const("c", "Kind", TRUE), Const("d", Null, FALSE)>>>>,
            <<<<Const("c", "State", TRUE)>>, <<Const("a", "Kind", TRUE)>>>>},
     d \in {<<"billing">>, <<"core", "billing">>}}

-----------------------------------------------------------------------------
(* Python.                                                                 *)

Class(name, bases) ==
  [name |-> name, owners |-> <<>>, line |-> 1, bases |-> bases, methods |-> <<>>,
   fields |-> <<>>, members |-> <<>>, table |-> name, topics |-> <<>>, private |-> FALSE]
EnumIn(owners, line, base) ==
  [Class("Kind", <<base>>) EXCEPT !.owners = owners, !.line = line, !.members = <<"a", "b">>]

Plain == [Class("Order", <<>>) EXCEPT !.methods = <<"place", "cancel">>, !.line = 9]
Derived == [Class("Order", <<<<"Model">>>>) EXCEPT !.line = 20]

PythonUnits ==
  {[Unit("python",
     <<[Blank EXCEPT !.base = "app.py", !.imports = i1, !.classes = <<Plain>> \o c1,
                     !.tasks = <<[name |-> "Run", topics |-> <<>>]>>],
       [Blank EXCEPT !.dir = <<"billing">>, !.base = "app.py", !.classes = <<Derived, Plain>>,
                     !.imports = second.imports, !.parses = second.parses],
       [Blank EXCEPT !.dir = <<"core">>, !.base = "m1.py", !.revision = "r1",
                     !.classes = <<Class("Client", <<<<"Model">>>>)>> \o c1],
       [Blank EXCEPT !.dir = <<"core">>, !.base = "m2.py", !.revision = "r2"]>>)
     EXCEPT !.facts = facts] :
     i1 \in {{}, {"Client", "Kind"}},
     second \in {[imports |-> {}, parses |-> TRUE], [imports |-> {"Order"}, parses |-> TRUE],
                [imports |-> {}, parses |-> FALSE]},
     c1 \in {<<>>, <<EnumIn(<<>>, 5, <<"Enum">>)>>, <<EnumIn(<<>>, 5, <<"enum", "Enum">>)>>,
             <<EnumIn(<<"core">>, 30, <<"Enum">>), EnumIn(<<>>, 5, <<"Enum">>)>>,
             <<EnumIn(<<"Order">>, 10, <<"Enum">>), EnumIn(<<"Client">>, 30, <<"Enum">>)>>},
     facts \in {Null, <<[kind |-> "endpoints", routed |-> TRUE],
                        [kind |-> "endpoints", routed |-> FALSE],
                        [kind |-> "interactions", routed |-> FALSE]>>}}

MCUnits == GoTypeUnits \cup GoGenericUnits \cup GoConstUnits \cup PythonUnits

MCOverview == {"text"}
MCSections ==
  <<"overview", "contexts", "entities", "enums", "endpoints", "storage", "interactions",
    "workers">>
MCWeights == [methodCount |-> 5, fieldCount |-> 3, inboundReferences |-> 10]
MCKnownRoles == ("core" :> "Shared core")
MCCustom == (<<"shipping", "billing">> :> "Shipping")
MCMigrations == <<"core">>
=============================================================================
