---------------------------- MODULE NearestWalk ----------------------------
(***************************************************************************)
(* A reference for GoRouterScope that does not walk depth first.  It reads *)
(* a body straight through for every scope some path of call edges enters  *)
(* it with, level by level, so that the distance of a state is the length  *)
(* of a path by definition; no stack, no record of what was entered before *)
(* and no order of calls decides anything.                                 *)
(***************************************************************************)
EXTENDS GoRouterScope

CONSTANT Longest   \* per unit, no fewer steps than reading one of its bodies takes

ASSUME LongestIsBound == Longest \in [Units -> Nat]

(* What is left to read after the first statement of a list, whichever     *)
(* branch of a guard is taken.                                             *)
Remaining(todo) ==
  IF todo = <<>> THEN {}
  ELSE LET s == Head(todo)
       IN  CASE s.op = "derive" -> {Tail(todo), s.body}
             [] s.op = "guard" -> {b \o Tail(todo) : b \in {s.then, s.else, s.then \o s.else}}
             [] OTHER -> {Tail(todo)}

(* The bodies of a unit are finite, their closures and branches with them. *)
ASSUME BodiesEnd ==
  \A u \in Units : \A d \in DOMAIN u.body :
    LET left[n \in 0..Longest[u]] ==
          IF n = 0 THEN {u.body[d]} ELSE UNION {Remaining(todo) : todo \in left[n - 1]}
    IN  left[Longest[u]] \subseteq {<<>>}

-----------------------------------------------------------------------------
(* A straight reading.  A position is a declaration, the statements of its *)
(* body left to read and the scope they are read in.                       *)

Position(d, todo, scope) == [decl |-> d, todo |-> todo, scope |-> scope]

ValueAt(p, expr) == Value(expr, p.scope, p.decl)

SiteAt(p) == <<p.decl, Head(p.todo).at>>

DerivedAt(p) ==
  DerivedValue(ValueAt(p, Head(p.todo).on), Head(p.todo).prefix, SiteAt(p))

ScopeAfter(p) ==
  LET s == Head(p.todo)
  IN  CASE s.op = "define" -> BindName(p.scope, s.to, ValueAt(p, s.from))
        [] s.op = "derive" -> BindName(p.scope, s.to, DerivedAt(p))
        [] s.op = "call" -> BindName(p.scope, s.to, ThroughHelper(s.args, p.scope, p.decl))
        [] OTHER -> p.scope

TodoAfter(p) ==
  LET s == Head(p.todo)
      taken == IF s.name \notin DOMAIN p.scope.bindings \/ ~IsProven(p.scope.bindings[s.name])
                 THEN s.then \o s.else
               ELSE IF s.eq THEN s.else ELSE s.then
  IN  (IF s.op = "guard" THEN taken ELSE <<>>) \o Tail(p.todo)

ClosureScope(p) ==
  IF IsRouter(DerivedAt(p)) /\ Head(p.todo).param # ""
    THEN BindRouter(p.scope, Head(p.todo).param, DerivedAt(p)) ELSE p.scope

Descends(p) ==
  /\ Head(p.todo).op = "derive"
  /\ Head(p.todo).to = "" \/ IsRouter(ValueAt(p, Head(p.todo).on))

(* The positions reading one statement leads to.                           *)
Continues(p) ==
  IF p.todo = <<>> THEN {}
  ELSE {Position(p.decl, TodoAfter(p), ScopeAfter(p))} \cup
       (IF Descends(p) THEN {Position(p.decl, Head(p.todo).body, ClosureScope(p))} ELSE {})

Reading(p) ==
  LET after[n \in 0..Longest[unit]] ==
        IF n = 0 THEN {p} ELSE UNION {Continues(q) : q \in after[n - 1]}
  IN  UNION {after[n] : n \in 0..Longest[unit]}

-----------------------------------------------------------------------------
(* Levels.  A state is a declaration with the scope it is entered with.    *)

State(d, scope) == [decl |-> d, scope |-> scope]

ReadingOf(state) == Reading(Position(state.decl, unit.body[state.decl], state.scope))

Meets(p, op) == p.todo # <<>> /\ Head(p.todo).op = op

SeedsAt(p) == SeedsOf(Head(p.todo).args, p.scope, p.decl)

HandsOn(p) ==
  Meets(p, "call") /\ Head(p.todo).callee \in Declarations /\ DOMAIN SeedsAt(p) # {}

Called(p, distance) ==
  State(Head(p.todo).callee, BoundScope(Head(p.todo).callee, Crossing(SeedsAt(p), distance)))

(* The states one edge further, at any distance from the first ones.       *)
Successors(states, distance) ==
  {Called(p, distance) : p \in {q \in UNION {ReadingOf(s) : s \in states} : HandsOn(q)}}

(* The states some path of so many edges leads to from a body a pass       *)
(* walked outright.                                                        *)
Level ==
  LET level[n \in 0..MAX_CALL_EDGES] ==
        IF n = 0 THEN {State(d, SeededScope(d)) : d \in outright}
                 ELSE Successors(level[n - 1], n - 1)
  IN  level

Registers(p) == Meets(p, "register") /\ IsRouter(ValueAt(p, Head(p.todo).on))

ClaimAt(p) == [site |-> SiteAt(p), value |-> ValueAt(p, Head(p.todo).on)]

ClaimsAt(n) ==
  {ClaimAt(p) : p \in {q \in UNION {ReadingOf(s) : s \in Level[n]} : Registers(q)}}

(* Mount mounts what it is given, a pattern what it derives.               *)
MountedAt(p) ==
  LET s == Head(p.todo)
      on == ValueAt(p, s.on)
  IN  CASE Meets(p, "mount") /\ IsRouter(on) /\ IsProven(ValueAt(p, s.sub)) ->
             {[key |-> ValueAt(p, s.sub).key, prefix |-> s.prefix, parent |-> ParentOf(on)]}
        [] Meets(p, "derive") /\ s.prefix # "" /\ IsProven(on) ->
             {[key |-> SiteAt(p), prefix |-> s.prefix, parent |-> on.key]}
        [] OTHER -> {}

MountsAt(n) == UNION {MountedAt(p) : p \in UNION {ReadingOf(s) : s \in Level[n]}}

-----------------------------------------------------------------------------
(* A shorter path always wins (DLT-044): whatever order calls are written  *)
(* in, a site some path reaches within the budget ends up claimed exactly  *)
(* for the routers of the states nearest to it.                            *)
ValuesOf(site, S) == {c.value : c \in {e \in S : e.site = site}}

NearestWalkWins ==
  Done =>
    \A n \in 0..MAX_CALL_EDGES : \A c \in ClaimsAt(n) :
      (\A m \in 0..(n - 1) : \A e \in ClaimsAt(m) : e.site # c.site) =>
        ValuesOf(c.site, Nearest) = ValuesOf(c.site, ClaimsAt(n))

(* A value mounted twice publishes no path (prefixChain of chi.ts), and no *)
(* order of calls hides a mount: two mounts of one value that differ, each *)
(* on some path within the budget, leave it without prefixes, also where   *)
(* one walk passed over the body the other made its mount in.              *)
MountedTwiceHasNoPath ==
  Done =>
    \A m, n \in 0..MAX_CALL_EDGES : \A a \in MountsAt(m), b \in MountsAt(n) :
      a.key = b.key /\ a # b => PrefixChain(a.key) = Unanchored
=============================================================================
