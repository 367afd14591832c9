--------------------------- MODULE GoRouterScope ---------------------------
(***************************************************************************)
(* The walk of src/features/detect/inbound/go/router-scope.ts over the     *)
(* declarations of an analysis unit: it binds every router value the unit  *)
(* constructs, hands values on through call edges, mounts and closures,    *)
(* and attributes each registration to the value of its receiver.  The     *)
(* depth-first recursion is a stack of frames, the innermost first; one    *)
(* action handles one statement of the innermost body.  A unit is a record *)
(*   order       the declarations, in the order files and bodies list them *)
(*   params      per declaration, its positional parameters                *)
(*   body        per declaration, its statements                           *)
(*   returns     per declaration, the operands of each of its returns      *)
(*   arity       per declaration, the number of its results                *)
(*   fields      per struct type, its fields with their types              *)
(*   serveRoots  the declared anchors                                      *)
(* One router dialect is declared, so a router value is its identity.      *)
(***************************************************************************)
EXTENDS Naturals, Sequences, FiniteSets

CONSTANTS
  Units,       \* the analysis units considered
  Statements   \* the statements their bodies are made of, nested ones included

(* The order lists the declarations of the unit and nothing else.          *)
ASSUME OrderIsDeclared ==
  \A u \in Units : /\ u.order \in Seq(DOMAIN u.body)
                   /\ \A d \in DOMAIN u.body : \E i \in DOMAIN u.order : u.order[i] = d

(* Bodies, closures and branches are lists of statements.                  *)
ASSUME BodiesAreStatements ==
  /\ UNION {{u.body[d] : d \in DOMAIN u.body} : u \in Units} \subseteq Seq(Statements)
  /\ {s.body : s \in {t \in Statements : t.op = "derive"}} \subseteq Seq(Statements)
  /\ UNION {{s.then, s.else} : s \in {t \in Statements : t.op = "guard"}}
       \subseteq Seq(Statements)

(* Go refuses two parameters of one name.                                  *)
ASSUME ParametersAreNamedApart ==
  \A u \in Units : \A d \in DOMAIN u.body : \A i, j \in DOMAIN u.params[d] :
    u.params[d][i].name = u.params[d][j].name => i = j

MAX_CALL_EDGES == 3
MAX_RETURN_EDGES == 3

VARIABLES
  unit,         \* the analysis unit, fixed from the start
  pass,         \* "outright", "summary", "anchor", "done"
  next,         \* index of the next declaration, or serve root, of the pass
  stack,        \* the bodies being walked, innermost first
  entered,      \* declarations some walk entered
  enteredAt,    \* body and seeds -> least distance they were entered at
  claims,       \* registrations, each with the distance of its walk
  mounts,       \* router key -> the mount records of that value
  unclassified, \* sites of member calls on a router that name no route
  lostMounts,   \* sites of mounts whose sub-router did not resolve
  anchors,      \* router key -> the mount a serve root exposes it under
  failures,     \* serve roots that resolve to no router
  seen,         \* targets the follow of the current serve root visited
  outright      \* history: declarations a pass walked with no edge

walk == <<entered, enteredAt, claims, mounts, unclassified, lostMounts>>
result == <<anchors, failures>>
vars == <<unit, pass, next, stack, walk, result, seen, outright>>

-----------------------------------------------------------------------------
(* Values, scopes and frames.                                              *)

Nothing == [kind |-> "none"]
Proven(key) == [kind |-> "proven", key |-> key]
Lost(reason) == [kind |-> "lost", reason |-> reason]
Plain(at) == [kind |-> "plain", at |-> at]
NoRecord == <<>>
NoParent == <<>>
NoSeeds == <<>>
Unanchored == <<>>

IsRouter(value) == value.kind \in {"proven", "lost"}
IsProven(value) == value.kind = "proven"

Put(f, x, v) == [y \in DOMAIN f \cup {x} |-> IF y = x THEN v ELSE f[y]]

BindRouter(scope, name, value) ==
  [bindings |-> Put(scope.bindings, name, value), records |-> scope.records,
   defined |-> scope.defined \cup {name}]

(* A body being walked: seeds are what an edge entered it with, operands   *)
(* the returned ones a follow has still to look at.                        *)
Frame(d, seeds, todo, scope, depth, silent, operands) ==
  [decl |-> d, seeds |-> seeds, todo |-> todo, scope |-> scope, depth |-> depth,
   silent |-> silent, operands |-> operands]

Declarations == DOMAIN unit.body

(* What a struct type declares, every router field of it unproven.  A type *)
(* with no router field is no record at all.                               *)
UnprovenRecord(type) ==
  IF /\ type \in DOMAIN unit.fields
     /\ \E f \in DOMAIN unit.fields[type] : unit.fields[type][f] = "Router"
    THEN [f \in DOMAIN unit.fields[type] |->
            IF unit.fields[type][f] = "Router" THEN Lost("cross_boundary")
                                               ELSE Plain(<<>>)]
    ELSE NoRecord

CarriesRouter(parameter) ==
  parameter.type = "Router" \/ UnprovenRecord(parameter.type) # NoRecord

TakesRouter(d) ==
  \E i \in DOMAIN unit.params[d] : CarriesRouter(unit.params[d][i])

(* What a body no edge reached knows of its parameters.                    *)
SeededScope(d) ==
  LET params == unit.params[d]
      routers == {i \in DOMAIN params : params[i].type = "Router"}
      records == {i \in DOMAIN params : UnprovenRecord(params[i].type) # NoRecord}
      typeOf(name) == params[CHOOSE i \in records : params[i].name = name].type
  IN  [bindings |-> [n \in {params[i].name : i \in routers} |-> Lost("cross_boundary")],
       records  |-> [n \in {params[i].name : i \in records} |-> UnprovenRecord(typeOf(n))],
       defined  |-> {params[i].name : i \in routers}]

-----------------------------------------------------------------------------
(* Evaluation.  A key is the position that constructs or derives a value.  *)

RecordOf(scope, name) ==
  IF name \in DOMAIN scope.records THEN scope.records[name] ELSE NoRecord

SimpleValue(expr, scope, d) ==
  CASE expr.form = "new" -> Proven(<<d, expr.at>>)
    [] expr.form = "name" /\ expr.name \in DOMAIN scope.bindings ->
         scope.bindings[expr.name]
    [] /\ expr.form = "field"
       /\ expr.field \in DOMAIN RecordOf(scope, expr.of)
       /\ IsRouter(RecordOf(scope, expr.of)[expr.field]) ->
         RecordOf(scope, expr.of)[expr.field]
    [] OTHER -> Nothing

(* A router handed to a helper comes back with its lineage lost.           *)
ThroughHelper(args, scope, d) ==
  IF \E i \in DOMAIN args : IsRouter(SimpleValue(args[i], scope, d))
    THEN Lost("dynamic")
    ELSE Nothing

Value(expr, scope, d) ==
  IF expr.form = "call" THEN ThroughHelper(expr.args, scope, d)
                        ELSE SimpleValue(expr, scope, d)

RecordArgument(expr, scope, d) ==
  CASE expr.form = "name" -> RecordOf(scope, expr.name)
    [] expr.form = "literal" ->
         [f \in DOMAIN expr.fields \cup DOMAIN unit.fields[expr.type] |->
            IF f \notin DOMAIN expr.fields THEN Plain(<<>>)
            ELSE LET value == SimpleValue(expr.fields[f], scope, d)
                 IN  IF IsRouter(value) THEN value ELSE Plain(<<d, expr.at>>)]
    [] OTHER -> NoRecord

(* The arguments that carry a router or a record, by their position.       *)
SeedsOf(args, scope, d) ==
  LET seed(i) ==
        LET value == SimpleValue(args[i], scope, d)
        IN  [value  |-> value,
             record |-> IF IsRouter(value) THEN NoRecord
                        ELSE RecordArgument(args[i], scope, d)]
  IN  [i \in {j \in DOMAIN args : \/ IsRouter(seed(j).value)
                                  \/ seed(j).record # NoRecord} |-> seed(i)]

RefuseValue(value) ==
  IF IsRouter(value) THEN Lost("depth_exceeded") ELSE value

CrossingOneMore(seeds, depth) ==
  IF depth <= MAX_CALL_EDGES THEN seeds
  ELSE [i \in DOMAIN seeds |->
          [value  |-> RefuseValue(seeds[i].value),
           record |-> [f \in DOMAIN seeds[i].record |->
                         RefuseValue(seeds[i].record[f])]]]

(* What crosses an edge at distance `depth`: past the budget, no identity. *)
Crossing(seeds, depth) ==
  IF depth < MAX_CALL_EDGES THEN seeds
  ELSE [i \in DOMAIN seeds |->
          [value  |-> RefuseValue(seeds[i].value),
           record |-> [f \in DOMAIN seeds[i].record |->
                         RefuseValue(seeds[i].record[f])]]]

(* Parameters a seed reaches are bound; every other one stays unknown.     *)
BoundScope(d, seeds) ==
  LET params == unit.params[d]
      routers == {i \in DOMAIN params \cap DOMAIN seeds : IsRouter(seeds[i].value)}
      records == {i \in DOMAIN params \cap DOMAIN seeds : seeds[i].record # NoRecord}
      at(name, S) == CHOOSE i \in S : params[i].name = name
  IN  [bindings |-> [n \in {params[i].name : i \in routers} |-> seeds[at(n, routers)].value],
       records  |-> [n \in {params[i].name : i \in records} |-> seeds[at(n, records)].record],
       defined  |-> {params[i].name : i \in routers}]

(* A name defined twice keeps its identity only if both definitions agree. *)
BindName(scope, name, value) ==
  LET known == name \in DOMAIN scope.bindings
      agree == known /\ IsProven(value) /\ scope.bindings[name] = value
  IN  CASE name = "" -> scope
        [] name \notin scope.defined /\ IsRouter(value) ->
             BindRouter(scope, name, value)
        [] name \notin scope.defined /\ ~IsRouter(value) ->
             [bindings |-> scope.bindings, records |-> scope.records,
              defined |-> scope.defined \cup {name}]
        [] name \in scope.defined /\ (agree \/ (~known /\ ~IsRouter(value))) ->
             scope
        [] OTHER -> BindRouter(scope, name, Lost("correlation_lost"))

-----------------------------------------------------------------------------
(* The walk.                                                               *)

Top == Head(stack)
Statement == Head(Top.todo)
Site == <<Top.decl, Statement.at>>
At(op) == stack # <<>> /\ Top.todo # <<>> /\ Statement.op = op
ValueOf(expr) == Value(expr, Top.scope, Top.decl)

Replace(todo, scope, operands) ==
  <<Frame(Top.decl, Top.seeds, todo, scope, Top.depth, Top.silent, operands)>> \o Tail(stack)
Advanced(scope) == Replace(Tail(Top.todo), scope, Top.operands)
NextOperand == Replace(<<>>, Top.scope, Tail(Top.operands))

Walking == <<unit, pass, next, anchors, failures, seen, outright>>

RecordedByPrefix(key, record) ==
  LET before == IF key \in DOMAIN mounts THEN mounts[key] ELSE {}
  IN  IF Top.silent \/ \E m \in before : m.prefix = record.prefix THEN mounts
      ELSE Put(mounts, key, {record} \cup before)

Recorded(key, record) ==
  IF Top.silent THEN mounts
  ELSE Put(mounts, key,
           {record} \cup (IF key \in DOMAIN mounts THEN mounts[key] ELSE {}))

ParentOf(value) == IF IsProven(value) THEN value.key ELSE NoParent

Init ==
  /\ unit \in Units
  /\ pass = "outright" /\ next = 1 /\ stack = <<>>
  /\ entered = {} /\ enteredAt = <<>> /\ claims = {} /\ mounts = <<>>
  /\ unclassified = {} /\ lostMounts = {}
  /\ anchors = <<>> /\ failures = {} /\ seen = {} /\ outright = {}

(* One declaration of a pass: walked unless it belongs to the other pass   *)
(* or an edge entered it already.                                          *)
WalkDeclaration ==
  /\ stack = <<>> /\ pass \in {"outright", "summary"}
  /\ next <= Len(unit.order)
  /\ next' = next + 1
  /\ LET d == unit.order[next]
     IN  IF TakesRouter(d) = (pass = "summary") /\ d \notin entered
           THEN /\ entered' = entered \cup {d}
                /\ outright' = outright \cup {d}
                /\ stack' = <<Frame(d, NoSeeds, unit.body[d], SeededScope(d), 0, FALSE, <<>>)>>
           ELSE UNCHANGED <<entered, outright, stack>>
  /\ UNCHANGED <<unit, pass, enteredAt, claims, mounts, unclassified, lostMounts, result, seen>>

NextPass ==
  /\ stack = <<>>
  /\ \/ pass = "outright" /\ next > Len(unit.order) /\ pass' = "summary"
     \/ pass = "summary" /\ next > Len(unit.order) /\ pass' = "anchor"
     \/ pass = "anchor" /\ next > Len(unit.serveRoots) /\ pass' = "done"
  /\ next' = 1
  /\ UNCHANGED <<unit, stack, walk, result, seen, outright>>

(* x := chi.NewRouter(), x := y, and x := y.With(...)                      *)
Define ==
  /\ At("define")
  /\ stack' = Advanced(BindName(Top.scope, Statement.to, ValueOf(Statement.from)))
  /\ UNCHANGED <<Walking, walk>>

Register ==
  /\ At("register")
  /\ LET value == ValueOf(Statement.on)
     IN  claims' = IF IsRouter(value) /\ ~Top.silent
                     THEN claims \cup {[site |-> Site, value |-> value, distance |-> Top.depth]}
                     ELSE claims
  /\ stack' = Advanced(Top.scope)
  /\ UNCHANGED <<Walking, entered, enteredAt, mounts, unclassified, lostMounts>>

Unclassified ==
  /\ At("use")
  /\ unclassified' = IF IsRouter(ValueOf(Statement.on)) /\ ~Top.silent
                       THEN unclassified \cup {Site} ELSE unclassified
  /\ stack' = Advanced(Top.scope)
  /\ UNCHANGED <<Walking, entered, enteredAt, claims, mounts, lostMounts>>

Mount ==
  /\ At("mount")
  /\ LET parent == ValueOf(Statement.on)
         mounted == ValueOf(Statement.sub)
     IN  /\ mounts' = IF IsRouter(parent) /\ IsProven(mounted)
                        THEN Recorded(mounted.key, [prefix |-> Statement.prefix,
                                                    parent |-> ParentOf(parent)])
                        ELSE mounts
         /\ lostMounts' = IF IsRouter(parent) /\ ~IsProven(mounted) /\ ~Top.silent
                            THEN lostMounts \cup {Site} ELSE lostMounts
  /\ stack' = Advanced(Top.scope)
  /\ UNCHANGED <<Walking, entered, enteredAt, claims, unclassified>>

DerivedValueUnmounted(receiver, prefix, site) == receiver

(* A pattern makes a router of its own of a receiver that is proven.       *)
DerivedValue(receiver, prefix, site) ==
  IF prefix # "" /\ IsProven(receiver) THEN Proven(site) ELSE receiver

(* Route mounts a fresh value on its receiver, Group hands the receiver    *)
(* on; both bind it to the closure's parameter.  The closure sees a copy   *)
(* of the scope.  A receiver that is no router is descended into, unless   *)
(* the call is the right-hand side of a definition.                        *)
Derive ==
  /\ At("derive")
  /\ LET receiver == ValueOf(Statement.on)
         fresh == Statement.prefix # "" /\ IsProven(receiver)
         value == DerivedValue(receiver, Statement.prefix, Site)
         inner == IF IsRouter(value) /\ Statement.param # ""
                    THEN BindRouter(Top.scope, Statement.param, value)
                    ELSE Top.scope
         closure == Frame(Top.decl, NoSeeds, Statement.body, inner, Top.depth, Top.silent, <<>>)
         after == Advanced(BindName(Top.scope, Statement.to, value))
     IN  /\ mounts' = IF fresh THEN Recorded(Site, [prefix |-> Statement.prefix,
                                                    parent |-> receiver.key])
                               ELSE mounts
         /\ stack' = IF IsRouter(receiver) \/ Statement.to = ""
                       THEN <<closure>> \o after ELSE after
  /\ UNCHANGED <<Walking, entered, enteredAt, claims, unclassified, lostMounts>>

(* `if name == nil`, or `!= nil`, over a proven router takes one branch.   *)
NilGuard ==
  /\ At("guard")
  /\ LET proven == /\ Statement.name \in DOMAIN Top.scope.bindings
                   /\ IsProven(Top.scope.bindings[Statement.name])
         branches == IF ~proven THEN Statement.then \o Statement.else
                     ELSE IF Statement.eq THEN Statement.else ELSE Statement.then
     IN  stack' = Replace(branches \o Tail(Top.todo), Top.scope, Top.operands)
  /\ UNCHANGED <<Walking, walk>>

(* Whether a walk at this distance or nearer carried the same seeds.       *)
RepeatedAtAnyDistance(d, seeds, distance) == <<d, seeds>> \in DOMAIN enteredAt

RepeatedAtThisDistance(d, seeds, distance) ==
  <<d, seeds>> \in DOMAIN enteredAt /\ enteredAt[<<d, seeds>>] = distance

Repeated(d, seeds, distance) ==
  <<d, seeds>> \in DOMAIN enteredAt /\ enteredAt[<<d, seeds>>] <= distance

(* An edge is entered when its callee is declared and it carries a seed.   *)
EntersBody(callee, seeds) ==
  /\ callee \in Declarations
  /\ DOMAIN seeds # {}
  /\ ~Repeated(callee, seeds, Top.depth + 1)

EdgeFrame(callee, seeds) ==
  Frame(callee, seeds, unit.body[callee], BoundScope(callee, seeds), Top.depth + 1,
        Top.silent, <<>>)

FollowEdgeMarkingFirst(callee, args, rest) ==
  LET seeds == Crossing(SeedsOf(args, Top.scope, Top.decl), Top.depth)
  IN  IF EntersBody(callee, seeds)
        THEN /\ enteredAt' = Put(enteredAt, <<callee, seeds>>, Top.depth + 1)
             /\ entered' = entered \cup {callee}
             /\ stack' = IF Top.depth < MAX_CALL_EDGES
                           THEN <<EdgeFrame(callee, seeds)>> \o rest ELSE rest
        ELSE UNCHANGED <<enteredAt, entered>> /\ stack' = rest

(* The follow of one edge in front of `rest`, the frames below it.         *)
FollowEdge(callee, args, rest) ==
  LET seeds == Crossing(SeedsOf(args, Top.scope, Top.decl), Top.depth)
  IN  IF EntersBody(callee, seeds)
        THEN /\ enteredAt' = Put(enteredAt, <<callee, seeds>>, Top.depth + 1)
             /\ entered' = entered \cup {callee}
             /\ stack' = <<EdgeFrame(callee, seeds)>> \o rest
        ELSE UNCHANGED <<enteredAt, entered>> /\ stack' = rest

Call ==
  /\ At("call")
  /\ FollowEdge(Statement.callee, Statement.args,
       Advanced(BindName(Top.scope, Statement.to,
                         ThroughHelper(Statement.args, Top.scope, Top.decl))))
  /\ UNCHANGED <<Walking, claims, mounts, unclassified, lostMounts>>

Return ==
  /\ stack # <<>> /\ Top.todo = <<>> /\ Top.operands = <<>>
  /\ stack' = Tail(stack)
  /\ IF pass = "anchor" /\ Tail(stack) = <<>>
       THEN /\ failures' = failures \cup {unit.serveRoots[next].function}
            /\ next' = next + 1
       ELSE UNCHANGED <<failures, next>>
  /\ UNCHANGED <<unit, pass, walk, anchors, seen, outright>>

-----------------------------------------------------------------------------
(* Serve roots: a silent walk of the declared function, then of what it    *)
(* returns, until an operand is a proven router.                           *)

OperandsOf(d, index) ==
  LET chosen(list) == CASE Len(list) = 1 /\ index = 0 -> <<list[1]>>
                        [] Len(list) > 1 /\ index < Len(list) -> <<list[index + 1]>>
                        [] OTHER -> <<>>
      upTo[n \in 0..Len(unit.returns[d])] ==
        IF n = 0 THEN <<>> ELSE upTo[n - 1] \o chosen(unit.returns[d][n])
  IN  upTo[Len(unit.returns[d])]

Resolves(root) == root.function \in Declarations /\ root.result < unit.arity[root.function]

FollowFrameAloud(d, index, depth) ==
  Frame(d, NoSeeds, unit.body[d], SeededScope(d), depth, FALSE, OperandsOf(d, index))

FollowFrame(d, index, depth) ==
  Frame(d, NoSeeds, unit.body[d], SeededScope(d), depth, TRUE, OperandsOf(d, index))

FollowServeRoot ==
  /\ stack = <<>> /\ pass = "anchor" /\ next <= Len(unit.serveRoots)
  /\ LET root == unit.serveRoots[next]
     IN  IF Resolves(root)
           THEN /\ stack' = <<FollowFrame(root.function, root.result, 0)>>
                /\ seen' = {<<root.function, root.result>>}
                /\ UNCHANGED <<next, failures>>
           ELSE /\ failures' = failures \cup {root.function}
                /\ next' = next + 1
                /\ UNCHANGED <<stack, seen>>
  /\ UNCHANGED <<unit, pass, walk, anchors, outright>>

Operand == Head(Top.operands)
AtOperand == stack # <<>> /\ Top.todo = <<>> /\ Top.operands # <<>>

AnchorOperand ==
  /\ AtOperand /\ IsProven(ValueOf(Operand))
  /\ anchors' = Put(anchors, ValueOf(Operand).key, unit.serveRoots[next].mount)
  /\ stack' = <<>> /\ next' = next + 1
  /\ UNCHANGED <<unit, pass, walk, failures, seen, outright>>

SkipOperand ==
  /\ AtOperand /\ ~IsProven(ValueOf(Operand)) /\ Operand.form # "call"
  /\ stack' = NextOperand
  /\ UNCHANGED <<Walking, walk>>

(* A returned call hands its own first result on.                          *)
FollowOperand ==
  /\ AtOperand /\ Operand.form = "call"
  /\ LET d == Operand.callee
         follows == /\ d \in Declarations
                    /\ Top.depth + 1 <= MAX_RETURN_EDGES
                    /\ <<d, 0>> \notin seen
     IN  /\ seen' = IF follows THEN seen \cup {<<d, 0>>} ELSE seen
         /\ FollowEdge(d, Operand.args,
              IF follows THEN <<FollowFrame(d, 0, Top.depth + 1)>> \o NextOperand
              ELSE NextOperand)
  /\ UNCHANGED <<unit, pass, next, claims, mounts, unclassified, lostMounts, result, outright>>

Step ==
  \/ WalkDeclaration \/ NextPass
  \/ Define \/ Register \/ Unclassified \/ Mount \/ Derive \/ NilGuard \/ Call \/ Return
  \/ FollowServeRoot \/ AnchorOperand \/ SkipOperand \/ FollowOperand

Done == pass = "done"

(* The result stays; any other state without a step is a walk that hangs.  *)
Finished == Done /\ UNCHANGED vars

Next == Step \/ Finished

Spec == Init /\ [][Next]_vars

-----------------------------------------------------------------------------
(* What the walk publishes.                                                *)

(* The claims of a site that came nearest.                                 *)
Nearest == {c \in claims : \A e \in claims : e.site = c.site => c.distance <= e.distance}

AnchoredHead(key) == IF key \in DOMAIN anchors THEN <<anchors[key]>> ELSE Unanchored

(* The prefixes a value is exposed under, outermost first.  A chain longer *)
(* than the number of mounted values repeats one of them.                  *)
PrefixChain(key) ==
  LET records(k) == IF k \in DOMAIN mounts THEN mounts[k] ELSE {}
      Keys == {key} \cup DOMAIN mounts \cup
              {m.parent : m \in UNION {mounts[k] : k \in DOMAIN mounts}}
      chain[n \in 0..Cardinality(Keys)] ==
        [k \in Keys |->
           CASE records(k) = {} -> AnchoredHead(k)
             [] Cardinality(records(k)) > 1 \/ n = 0 -> Unanchored
             [] OTHER ->
                  LET record == CHOOSE m \in records(k) : TRUE
                      above == IF record.parent = NoParent THEN AnchoredHead(k)
                               ELSE chain[n - 1][record.parent]
                  IN  IF above = Unanchored THEN Unanchored
                      ELSE Append(above, record.prefix)]
  IN  chain[Cardinality(Keys)][key]

AnchoredPath(claim) ==
  IF IsProven(claim.value) THEN PrefixChain(claim.value.key) ELSE Unanchored

(* Each published registration with its prefixes; no prefix, no path.      *)
Published == {[site |-> c.site, prefixes |-> AnchoredPath(c)] : c \in Nearest}

-----------------------------------------------------------------------------
(* Properties.                                                             *)

TypeOK ==
  /\ pass \in {"outright", "summary", "anchor", "done"}
  /\ next \in Nat \ {0}
  /\ \A i \in DOMAIN stack :
       /\ stack[i].decl \in Declarations
       /\ stack[i].depth \in Nat
       /\ stack[i].silent = (pass = "anchor")
       /\ \A n \in DOMAIN stack[i].scope.bindings : IsRouter(stack[i].scope.bindings[n])
  /\ entered \subseteq Declarations /\ outright \subseteq entered
  /\ \A key \in DOMAIN enteredAt : key[1] \in entered /\ enteredAt[key] \in Nat \ {0}
  /\ \A c \in claims : IsRouter(c.value) /\ c.distance \in Nat
  /\ \A key \in DOMAIN mounts : mounts[key] # {}

(* The budget of the inbound summary: a fourth call edge hands no router   *)
(* on, so a registration claimed farther out than three edges belongs to   *)
(* a router its own body constructed, or to none.                          *)
FourthEdgeRefused ==
  \A c \in claims :
    c.distance > MAX_CALL_EDGES /\ IsProven(c.value) => c.value.key[1] = c.site[1]

(* The registrations a body makes itself on a router it takes: a parameter *)
(* or a field of one.                                                      *)
RegistersOn(d, s, j) ==
  LET parameter == unit.params[d][j]
  IN  /\ s.op = "register"
      /\ \/ s.on.form = "name" /\ s.on.name = parameter.name /\ parameter.type = "Router"
         \/ /\ s.on.form = "field" /\ s.on.of = parameter.name
            /\ parameter.type \in DOMAIN unit.fields
            /\ s.on.field \in DOMAIN unit.fields[parameter.type]
            /\ unit.fields[parameter.type][s.on.field] = "Router"

(* Whether an edge with these seeds hands a router for what `on` reads.    *)
Hands(seeds, j, on) ==
  /\ j \in DOMAIN seeds
  /\ \/ on.form = "name" /\ IsRouter(seeds[j].value)
     \/ /\ on.form = "field" /\ on.field \in DOMAIN seeds[j].record
        /\ IsRouter(seeds[j].record[on.field])

EntriesOf(d) == {key \in DOMAIN enteredAt : key[1] = d}

(* Whether some walk of the body knew a router for what `on` reads.        *)
KnowsRouter(d, on, j) == d \in outright \/ \E key \in EntriesOf(d) : Hands(key[2], j, on)

(* The passes over the declarations.                                       *)
Aloud == pass \in {"outright", "summary"}

IsClaimed(d, s) == \E c \in claims : c.site = <<d, s.at>>

(* A registration on a router its body takes is claimed, proven or not, by *)
(* the end of any walk of the two passes that handed the body that router  *)
(* or none at all; no budget, pass or repeated edge drops its site.  In    *)
(* the end only a body some edge entered without that router has a site    *)
(* nothing claims.                                                         *)
NoSiteDropped ==
  \A d \in Declarations : \A i \in DOMAIN unit.body[d] : \A j \in DOMAIN unit.params[d] :
    LET s == unit.body[d][i]
    IN  RegistersOn(d, s, j) =>
          /\ stack = <<>> /\ Aloud /\ KnowsRouter(d, s.on, j) => IsClaimed(d, s)
          /\ Done => \/ IsClaimed(d, s)
                     \/ \E key \in EntriesOf(d) : ~Hands(key[2], j, s.on)

(* The walk of a call graph with cycles ends: a body already open with     *)
(* some seeds is not entered again with the same seeds, however far out.   *)
NothingOpenTwice ==
  \A i, j \in DOMAIN stack :
    /\ i # j /\ stack[i].decl = stack[j].decl
    /\ stack[i].seeds = stack[j].seeds
    => stack[i].seeds = NoSeeds
=============================================================================
