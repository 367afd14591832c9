-------------------------- MODULE MCGoRouterScope --------------------------
(***************************************************************************)
(* Small Go units for the router walk, and its properties at the end.      *)
(***************************************************************************)
EXTENDS RouterReach

Name(x) == [form |-> "name", name |-> x]
FieldOf(x, f) == [form |-> "field", of |-> x, field |-> f]
NewRouter(at) == [form |-> "new", at |-> at]
CallOf(d, args, at) == [form |-> "call", callee |-> d, args |-> args, at |-> at]
OptionsOf(x, at) == [form |-> "literal", type |-> "Options", at |-> at,
                     fields |-> [base |-> Name(x)]]

Def(x, expr, at) == [op |-> "define", to |-> x, from |-> expr, at |-> at]
Reg(expr, at) == [op |-> "register", on |-> expr, at |-> at]
Mnt(x, y, p, at) == [op |-> "mount", on |-> Name(x), sub |-> Name(y), prefix |-> p, at |-> at]
Der(x, p, param, body, to, at) ==
  [op |-> "derive", on |-> Name(x), prefix |-> p, param |-> param, body |-> body,
   to |-> to, at |-> at]
Do(d, args, to, at) == [op |-> "call", callee |-> d, args |-> args, to |-> to, at |-> at]
Use(x, at) == [op |-> "use", on |-> Name(x), at |-> at]
IfNil(x, eq, then, else, at) ==
  [op |-> "guard", name |-> x, eq |-> eq, then |-> then, else |-> else, at |-> at]

Fields == [Options |-> [base |-> "Router", prefix |-> "string"],
           Settings |-> [prefix |-> "string"]]
TakesOne == <<[name |-> "q", type |-> "Router"]>>
Serve(d) == <<[function |-> d, result |-> 0, mount |-> "/svc"]>>

-----------------------------------------------------------------------------
(* Call graphs: a root that calls two of four helpers, each of three calls *)
(* at most one helper, itself included; the fourth registers a route,      *)
(* mounts a router of its own and registers on it.                         *)

Helpers == {"A", "B", "C"}
Passing(d) == IF d = "none" THEN <<>> ELSE <<Do(d, <<Name("q")>>, "", 1)>>
Leaf == <<Reg(Name("q"), 1), Def("t", NewRouter(2), 2), Reg(Name("t"), 3), Mnt("q", "t", "/t", 4)>>

CallGraph(calls, first, second, order) ==
  LET body == [d \in {"Build", "H"} \cup Helpers |->
        CASE d = "Build" -> <<Def("r", NewRouter(1), 1), Do(first, <<Name("r")>>, "", 2),
                              Do(second, <<Name("r")>>, "", 3)>>
          [] d = "H" -> Leaf
          [] OTHER -> Passing(calls[d])]
  IN  [order |-> order, body |-> body,
       params |-> [d \in DOMAIN body |-> IF d = "Build" THEN <<>> ELSE TakesOne],
       returns |-> [d \in DOMAIN body |-> IF d = "Build" THEN <<<<Name("r")>>>> ELSE <<>>],
       arity |-> [d \in DOMAIN body |-> IF d = "Build" THEN 1 ELSE 0],
       fields |-> Fields, serveRoots |-> Serve("Build")]

Orders == {<<"Build", "A", "B", "C", "H">>, <<"H", "C", "B", "A", "Build">>}

CallGraphs ==
  {CallGraph(calls, first, second, order) :
     calls \in [Helpers -> Helpers \cup {"H", "none"}],
     first \in Helpers \cup {"H"}, second \in Helpers \cup {"H"}, order \in Orders}

-----------------------------------------------------------------------------
(* Bodies: two statements after a construction, and two in a helper.       *)

RootStatements(at) ==
  {Def("s", NewRouter(at), at), Def("s", Name("r"), at), Def("r", NewRouter(at), at),
   Reg(Name("s"), at), Mnt("r", "s", "/a", at), Mnt("s", "r", "/b", at),
   Der("r", "/c", "q", <<Reg(Name("q"), at + 1), Do("H", <<Name("q")>>, "", at + 2)>>, "", at),
   Der("r", "", "q", <<Reg(Name("q"), at + 1)>>, "s", at),
   Der("r", "/d", "", <<>>, "s", at),
   Do("H", <<Name("r")>>, "", at), Do("H", <<Name("s")>>, "s", at),
   Do("L", <<OptionsOf("r", at)>>, "", at), Use("r", at)}

HelperStatements(at) ==
  {Reg(Name("q"), at), Def("q", NewRouter(at), at),
   Der("q", "/e", "q", <<Reg(Name("q"), at + 1)>>, "", at),
   IfNil("q", TRUE, <<Def("q", NewRouter(at + 1), at + 1), Reg(Name("q"), at + 2)>>, <<>>, at),
   Do("L", <<OptionsOf("q", at)>>, "", at), Do("H", <<Name("q")>>, "", at)}

Bodies(root, helper, returned) ==
  LET body == [Build |-> <<Def("r", NewRouter(1), 1)>> \o root \o <<Reg(Name("r"), 90)>>,
               H |-> helper,
               L |-> <<Reg(FieldOf("o", "base"), 1)>>,
               G |-> <<>>]
  IN  [order |-> <<"H", "G", "Build", "L">>, body |-> body,
       params |-> [Build |-> <<>>, H |-> TakesOne, G |-> <<>>,
                   L |-> <<[name |-> "o", type |-> "Options"]>>],
       returns |-> [Build |-> <<<<Name("r")>>>>, H |-> <<>>, L |-> <<>>,
                    G |-> <<<<returned>>>>],
       arity |-> [Build |-> 1, H |-> 0, L |-> 0, G |-> 1],
       fields |-> Fields, serveRoots |-> Serve("G")]

RootBodies == {<<s, t>> : s \in RootStatements(10), t \in RootStatements(20)}
HelperBodies == {<<s, t>> : s \in HelperStatements(10), t \in HelperStatements(20)}

Bodied == {Bodies(root, helper, CallOf("Build", <<>>, 1)) :
             root \in RootBodies, helper \in HelperBodies}

-----------------------------------------------------------------------------
(* Serve roots: entry points that return one another's results.            *)

Returning(operands, named, index) ==
  LET Entry == {"E0", "E1", "E2", "E3", "E4"}
      body == [d \in Entry |-> <<Def("r", NewRouter(1), 1), Reg(Name("r"), 2)>>]
  IN  [order |-> <<"E0", "E1", "E2", "E3", "E4">>, body |-> body,
       params |-> [d \in Entry |-> <<>>],
       returns |-> [d \in Entry |-> <<operands[d]>>],
       arity |-> [d \in Entry |-> Len(operands[d])],
       fields |-> Fields,
       serveRoots |-> <<[function |-> named, result |-> index, mount |-> "/svc"]>>]

Entries ==
  {Returning([E0 |-> <<Name("err"), CallOf(d, <<>>, 9)>>, E1 |-> <<CallOf("E2", <<>>, 9)>>,
              E2 |-> <<CallOf("E3", <<>>, 9)>>, E3 |-> <<CallOf(e, <<>>, 9)>>,
              E4 |-> <<Name("r")>>], named, index) :
     d \in {"E1", "E2", "E4"}, e \in {"E4", "E2", "E0"},
     named \in {"E0", "E1", "E3", "Missing"}, index \in 0..2}

-----------------------------------------------------------------------------
(* A closure whose parameter reuses the name of a bound router, given to a *)
(* derivation of a router the walk does not know, and of one it does.      *)

Shadowing ==
  {[Bodies(<<Der(x, "/admin", param, <<Reg(Name(param), 11)>>, "", 10)>> \o more, <<>>,
           CallOf("Build", <<>>, 1)) EXCEPT !.serveRoots = Serve(named)] :
     x \in {"r", "unknown"}, param \in {"r", "q"}, named \in {"Build", "G"},
     more \in {<<>>, <<Do("H", <<Name("r")>>, "", 20)>>}}

-----------------------------------------------------------------------------
(* A body that takes two routers, one of them in a record, and calls that  *)
(* hand it both, either or a record without a router, in either order.     *)

BothTaken == <<[name |-> "p", type |-> "Router"], [name |-> "o", type |-> "Options"]>>

HandingCalls(at) ==
  {Do("T", args, "", at) :
     args \in {<<Name("r"), OptionsOf("r", at)>>, <<Name("r"), Name("unknown")>>,
               <<Name("unknown"), OptionsOf("r", at)>>, <<Name("r"), OptionsOf("unknown", at)>>,
               <<Name("unknown"), Name("unknown")>>, <<Name("r")>>}}

PartlyHanded ==
  {[order |-> order,
    body |-> [Build |-> <<Def("r", NewRouter(1), 1), first, second>>,
              T |-> <<Reg(Name("p"), 1), Reg(FieldOf("o", "base"), 2)>>],
    params |-> [Build |-> <<>>, T |-> BothTaken],
    returns |-> [Build |-> <<<<Name("r")>>>>, T |-> <<>>],
    arity |-> [Build |-> 1, T |-> 0],
    fields |-> Fields, serveRoots |-> Serve("Build")] :
     order \in {<<"Build", "T">>, <<"T", "Build">>},
     first \in HandingCalls(2), second \in HandingCalls(3)}

-----------------------------------------------------------------------------
(* Values for the configurations.                                          *)

AllUnits == CallGraphs \cup Bodied \cup Entries \cup PartlyHanded

(* In these units the closures and branches hold no further ones.          *)
StatementsOf(units) ==
  LET Listed(todo) == {todo[i] : i \in DOMAIN todo}
      Outer == UNION {UNION {Listed(u.body[d]) : d \in DOMAIN u.body} : u \in units}
      Inner(s) == CASE s.op = "derive" -> Listed(s.body)
                    [] s.op = "guard" -> Listed(s.then \o s.else)
                    [] OTHER -> {}
  IN  {s : s \in Outer \cup UNION {Inner(s) : s \in Outer}}

AllStatements == StatementsOf(AllUnits)

(* A first call that may go the long way round, then a second one.         *)
TwoWays == {CallGraph(calls, "A", second, <<"Build", "A", "B", "C", "H">>) :
              calls \in [Helpers -> Helpers \cup {"H"}], second \in Helpers}

TwoWaysStatements == StatementsOf(TwoWays)

ShadowingStatements == StatementsOf(Shadowing)

(* No body here takes more steps to read, closures and branches included.  *)
AllLongest == [u \in AllUnits |-> 6]

TwoWaysLongest == [u \in TwoWays |-> 6]

ShadowingLongest == [u \in Shadowing |-> 6]
=============================================================================
