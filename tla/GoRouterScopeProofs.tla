------------------------ MODULE GoRouterScopeProofs ------------------------
(***************************************************************************)
(* For every set of analysis units, however their bodies call one another: *)
(* a fourth call edge hands no router on, and no body is entered while it  *)
(* is open with the same seeds.  Where a unit's order lists its own        *)
(* declarations, the walk also keeps its types; where the parameters of a  *)
(* function are named apart, it claims every registration on a router that *)
(* was handed to the body it stands in; and where bodies are finite, a     *)
(* site some path reaches within the budget is claimed for the routers of  *)
(* the shortest such paths, and a router two such paths mount differently  *)
(* has no path of its own.                                                 *)
(***************************************************************************)
EXTENDS NearestWalk, FiniteSetTheorems, WellFoundedInduction, TLAPS

-----------------------------------------------------------------------------
(* The inductive invariant.                                                *)

Owned(value, d) == IsProven(value) => value.key[1] = d

OwnScope(scope, d) ==
  /\ \A n \in DOMAIN scope.bindings : Owned(scope.bindings[n], d)
  /\ \A n \in DOMAIN scope.records : \A f \in DOMAIN scope.records[n] :
       Owned(scope.records[n][f], d)

(* Past the budget a body knows only the routers it constructs itself.     *)
OwnFrame(frame) == frame.depth > MAX_CALL_EDGES => OwnScope(frame.scope, frame.decl)

Key(frame) == <<frame.decl, frame.seeds>>

(* An edge put its frame on the stack no nearer than the distance on       *)
(* record, and only above frames that are nearer.                          *)
Orderly(s, at) ==
  /\ \A i \in DOMAIN s : s[i].depth \in Nat /\ OwnFrame(s[i])
  /\ \A i, j \in DOMAIN s : i < j => s[j].depth <= s[i].depth
  /\ \A i \in DOMAIN s : s[i].seeds # NoSeeds =>
       Key(s[i]) \in DOMAIN at /\ at[Key(s[i])] <= s[i].depth
  /\ \A i, j \in DOMAIN s : i # j /\ Key(s[i]) = Key(s[j]) => s[i].seeds = NoSeeds

WalkInv ==
  /\ \E S : stack \in Seq(S)
  /\ Orderly(stack, enteredAt)
  /\ \A key \in DOMAIN enteredAt : enteredAt[key] \in Nat
  /\ FourthEdgeRefused

-----------------------------------------------------------------------------
(* Whose routers a scope holds.                                            *)

LEMMA ValueIsOwned ==
  ASSUME NEW expr, NEW scope, NEW d, OwnScope(scope, d)
  PROVE  Owned(Value(expr, scope, d), d)
<1>1. Owned(SimpleValue(expr, scope, d), d)
  BY DEF OwnScope, Owned, SimpleValue, Proven, IsProven, Nothing, RecordOf, NoRecord
<1> QED BY <1>1 DEF Value, ThroughHelper, Owned, IsProven, Lost, Nothing

LEMMA BoundRouterIsOwned ==
  ASSUME NEW scope, NEW name, NEW value, NEW d, OwnScope(scope, d), Owned(value, d)
  PROVE  OwnScope(BindRouter(scope, name, value), d)
BY DEF OwnScope, BindRouter, Put

LEMMA BoundNameIsOwned ==
  ASSUME NEW scope, NEW name, NEW value, NEW d, OwnScope(scope, d), Owned(value, d)
  PROVE  OwnScope(BindName(scope, name, value), d)
<1>1. Owned(Lost("correlation_lost"), d)
  BY DEF Owned, Lost, IsProven
<1>2. OwnScope([bindings |-> scope.bindings, records |-> scope.records,
                defined |-> scope.defined \cup {name}], d)
  BY DEF OwnScope
<1> QED BY <1>1, <1>2, BoundRouterIsOwned DEF BindName

LEMMA UnseededIsOwned == ASSUME NEW d, NEW e PROVE OwnScope(SeededScope(d), e)
<1>1. \A type : \A f \in DOMAIN UnprovenRecord(type) : Owned(UnprovenRecord(type)[f], e)
  BY DEF UnprovenRecord, Owned, IsProven, Lost, Plain, NoRecord
<1>2. Owned(Lost("cross_boundary"), e)
  BY DEF Owned, IsProven, Lost
<1> QED BY <1>1, <1>2 DEF OwnScope, SeededScope

(* At the budget's end no seed carries a proven router.                    *)
LEMMA CrossingIsOwned ==
  ASSUME NEW seeds, NEW depth \in Nat, depth >= MAX_CALL_EDGES, NEW d, NEW e
  PROVE  OwnScope(BoundScope(d, Crossing(seeds, depth)), e)
<1>1. \A v : ~IsProven(RefuseValue(v))
  BY DEF RefuseValue, IsRouter, IsProven, Lost
<1>2. Crossing(seeds, depth) =
        [i \in DOMAIN seeds |->
          [value  |-> RefuseValue(seeds[i].value),
           record |-> [f \in DOMAIN seeds[i].record |-> RefuseValue(seeds[i].record[f])]]]
  BY DEF Crossing, MAX_CALL_EDGES
<1> DEFINE crossed == Crossing(seeds, depth)
           params == unit.params[d]
<1>3. \A i \in DOMAIN crossed : /\ ~IsProven(crossed[i].value)
                                /\ \A f \in DOMAIN crossed[i].record : ~IsProven(crossed[i].record[f])
  BY <1>1, <1>2
<1> HIDE DEF crossed
<1>4. \A S : \A n \in {params[i].name : i \in S} : (CHOOSE i \in S : params[i].name = n) \in S
  OBVIOUS
<1>5. \A n \in DOMAIN BoundScope(d, crossed).bindings : ~IsProven(BoundScope(d, crossed).bindings[n])
  BY <1>3, <1>4 DEF BoundScope
<1>6. \A n \in DOMAIN BoundScope(d, crossed).records :
        \A f \in DOMAIN BoundScope(d, crossed).records[n] :
          ~IsProven(BoundScope(d, crossed).records[n][f])
  BY <1>3, <1>4 DEF BoundScope
<1> QED BY <1>5, <1>6 DEF OwnScope, Owned, crossed

-----------------------------------------------------------------------------
(* What the operations on the stack preserve.                              *)

LEMMA Pushed ==
  ASSUME NEW S, NEW s \in Seq(S), NEW at, Orderly(s, at), NEW f,
         f.depth \in Nat, OwnFrame(f),
         \A i \in DOMAIN s : s[i].depth <= f.depth,
         f.seeds # NoSeeds => /\ Key(f) \in DOMAIN at /\ at[Key(f)] <= f.depth
                              /\ \A i \in DOMAIN s : Key(s[i]) # Key(f)
  PROVE  Orderly(<<f>> \o s, at) /\ <<f>> \o s \in Seq(S \cup {f})
<1> DEFINE t == <<f>> \o s
<1>1. /\ t \in Seq(S \cup {f}) /\ Len(t) = Len(s) + 1 /\ t[1] = f
      /\ \A i \in 2..Len(t) : t[i] = s[i - 1] /\ i - 1 \in DOMAIN s
  OBVIOUS
<1>2. DOMAIN t = 1..Len(t) /\ Len(t) \in Nat
  BY <1>1
<1> HIDE DEF t
<1>3. \A i \in DOMAIN t : t[i].depth \in Nat /\ OwnFrame(t[i])
  BY <1>1, <1>2 DEF Orderly
<1>4. \A i, j \in DOMAIN t : i < j => t[j].depth <= t[i].depth
  <2> SUFFICES ASSUME NEW i \in DOMAIN t, NEW j \in DOMAIN t, i < j
               PROVE  t[j].depth <= t[i].depth
    OBVIOUS
  <2>1. j \in 2..Len(t) /\ t[j] = s[j - 1] /\ j - 1 \in DOMAIN s
    BY <1>1, <1>2
  <2>2. CASE i = 1
    BY <2>1, <2>2, <1>1
  <2>3. CASE i # 1
    <3>1. t[i] = s[i - 1] /\ i - 1 \in DOMAIN s /\ i - 1 < j - 1
      BY <2>3, <1>1, <1>2
    <3> QED BY <3>1, <2>1 DEF Orderly
  <2> QED BY <2>2, <2>3
<1>5. \A i \in DOMAIN t : t[i].seeds # NoSeeds => Key(t[i]) \in DOMAIN at /\ at[Key(t[i])] <= t[i].depth
  <2> SUFFICES ASSUME NEW i \in DOMAIN t, t[i].seeds # NoSeeds
               PROVE  Key(t[i]) \in DOMAIN at /\ at[Key(t[i])] <= t[i].depth
    OBVIOUS
  <2>1. CASE i = 1
    <3>1. t[i] = f
      BY <2>1, <1>1
    <3> QED BY <3>1
  <2>2. CASE i # 1
    <3>1. t[i] = s[i - 1] /\ i - 1 \in DOMAIN s
      BY <2>2, <1>1, <1>2
    <3> QED BY <3>1 DEF Orderly
  <2> QED BY <2>1, <2>2
<1>6. \A i, j \in DOMAIN t : i # j /\ Key(t[i]) = Key(t[j]) => t[i].seeds = NoSeeds
  <2> SUFFICES ASSUME NEW i \in DOMAIN t, NEW j \in DOMAIN t, i # j, Key(t[i]) = Key(t[j])
               PROVE  t[i].seeds = NoSeeds
    OBVIOUS
  <2>0. t[i].seeds = t[j].seeds
    BY DEF Key
  <2>1. CASE i = 1
    <3>1. t[j] = s[j - 1] /\ j - 1 \in DOMAIN s
      BY <2>1, <1>1, <1>2
    <3> QED BY <3>1, <2>1, <1>1
  <2>2. CASE j = 1
    <3>1. t[i] = s[i - 1] /\ i - 1 \in DOMAIN s
      BY <2>2, <1>1, <1>2
    <3> QED BY <3>1, <2>2, <2>0, <1>1
  <2>3. CASE i # 1 /\ j # 1
    <3>1. /\ t[i] = s[i - 1] /\ i - 1 \in DOMAIN s
          /\ t[j] = s[j - 1] /\ j - 1 \in DOMAIN s /\ i - 1 # j - 1
      BY <2>3, <1>1, <1>2
    <3> QED BY <3>1 DEF Orderly
  <2> QED BY <2>1, <2>2, <2>3
<1> QED BY <1>1, <1>3, <1>4, <1>5, <1>6 DEF Orderly, t

LEMMA Popped ==
  ASSUME NEW S, NEW s \in Seq(S), s # <<>>, NEW at, Orderly(s, at)
  PROVE  /\ Orderly(Tail(s), at) /\ Tail(s) \in Seq(S)
         /\ \A i \in DOMAIN Tail(s) : /\ Tail(s)[i].depth <= Head(s).depth
                                      /\ Key(Tail(s)[i]) = Key(Head(s)) =>
                                           Head(s).seeds = NoSeeds
<1> DEFINE t == Tail(s)
<1>1. /\ t \in Seq(S) /\ Head(s) = s[1] /\ 1 \in DOMAIN s
      /\ \A i \in DOMAIN t : t[i] = s[i + 1] /\ i + 1 \in DOMAIN s /\ i \in Nat /\ 1 < i + 1
  OBVIOUS
<1> HIDE DEF t
<1>2. \A i, j \in DOMAIN t : i < j => i + 1 < j + 1
  BY <1>1
<1>3. \A i, j \in DOMAIN t : i # j => i + 1 # j + 1
  BY <1>1
<1>4. Orderly(t, at)
  <2>1. \A i \in DOMAIN t : t[i].depth \in Nat /\ OwnFrame(t[i])
    BY <1>1 DEF Orderly
  <2>2. \A i, j \in DOMAIN t : i < j => t[j].depth <= t[i].depth
    BY <1>1, <1>2 DEF Orderly
  <2>3. \A i \in DOMAIN t : t[i].seeds # NoSeeds => Key(t[i]) \in DOMAIN at /\ at[Key(t[i])] <= t[i].depth
    BY <1>1 DEF Orderly
  <2>4. \A i, j \in DOMAIN t : i # j /\ Key(t[i]) = Key(t[j]) => t[i].seeds = NoSeeds
    BY <1>1, <1>3 DEF Orderly
  <2> QED BY <2>1, <2>2, <2>3, <2>4 DEF Orderly
<1>5. \A i \in DOMAIN t : /\ t[i].depth <= Head(s).depth
                          /\ Key(t[i]) = Key(Head(s)) => Head(s).seeds = NoSeeds
  BY <1>1 DEF Orderly
<1> QED BY <1>1, <1>4, <1>5 DEF t

(* The innermost frame moves on in its body.                               *)
LEMMA Replaced ==
  ASSUME WalkInv, stack # <<>>, NEW todo, NEW scope, NEW operands,
         Top.depth > MAX_CALL_EDGES => OwnScope(scope, Top.decl)
  PROVE  /\ \E S : Replace(todo, scope, operands) \in Seq(S)
         /\ Orderly(Replace(todo, scope, operands), enteredAt)
         /\ \A i \in DOMAIN Replace(todo, scope, operands) :
              Replace(todo, scope, operands)[i].depth <= Top.depth
<1> DEFINE f == Frame(Top.decl, Top.seeds, todo, scope, Top.depth, Top.silent, operands)
           t == Tail(stack)
<1>1. PICK S : stack \in Seq(S)
  BY DEF WalkInv
<1>2. Top = stack[1] /\ 1 \in DOMAIN stack
  BY <1>1 DEF Top
<1>3. f.depth = Top.depth /\ f.seeds = Top.seeds /\ f.decl = Top.decl /\ f.scope = scope
  BY DEF Frame
<1>4. f.depth \in Nat /\ OwnFrame(f) /\ Key(f) = Key(Top)
  BY <1>2, <1>3 DEF WalkInv, Orderly, OwnFrame, Key
<1>5. /\ t \in Seq(S) /\ Orderly(t, enteredAt)
      /\ \A i \in DOMAIN t : t[i].depth <= f.depth /\ (Key(t[i]) = Key(f) => f.seeds = NoSeeds)
  BY <1>1, <1>3, <1>4, Popped DEF WalkInv, Top
<1>6. f.seeds # NoSeeds => Key(f) \in DOMAIN enteredAt /\ enteredAt[Key(f)] <= f.depth
  BY <1>2, <1>3, <1>4 DEF WalkInv, Orderly
<1> HIDE DEF f, t
<1>7. Orderly(<<f>> \o t, enteredAt) /\ <<f>> \o t \in Seq(S \cup {f})
  BY <1>4, <1>5, <1>6, Pushed
<1>8. (<<f>> \o t)[1] = f /\ DOMAIN (<<f>> \o t) = 1..Len(<<f>> \o t)
  BY <1>5
<1>9. \A i \in DOMAIN (<<f>> \o t) : (<<f>> \o t)[i].depth <= f.depth
  <2> TAKE i \in DOMAIN (<<f>> \o t)
  <2>1. CASE i = 1
    BY <2>1, <1>8, <1>4
  <2>2. CASE i # 1
    BY <2>2, <1>8, <1>7, <1>5 DEF Orderly
  <2> QED BY <2>1, <2>2
<1>10. Replace(todo, scope, operands) = <<f>> \o t
  BY DEF Replace, f, t
<1> QED BY <1>3, <1>7, <1>9, <1>10

(* An edge that is entered goes on top of a stack that is no farther out.  *)
LEMMA Entered ==
  ASSUME WalkInv, stack # <<>>, NEW S, NEW s \in Seq(S), Orderly(s, enteredAt),
         \A i \in DOMAIN s : s[i].depth <= Top.depth + 1,
         NEW callee, NEW args
  PROVE  LET seeds == Crossing(SeedsOf(args, Top.scope, Top.decl), Top.depth)
             f == EdgeFrame(callee, seeds)
             at == Put(enteredAt, <<callee, seeds>>, Top.depth + 1)
         IN  EntersBody(callee, seeds) =>
               /\ Orderly(<<f>> \o s, at) /\ <<f>> \o s \in Seq(S \cup {f})
               /\ \A key \in DOMAIN at : at[key] \in Nat
<1> DEFINE seeds == Crossing(SeedsOf(args, Top.scope, Top.decl), Top.depth)
           f == EdgeFrame(callee, seeds)
           key == <<callee, seeds>>
           at == Put(enteredAt, key, Top.depth + 1)
<1> SUFFICES ASSUME EntersBody(callee, seeds)
             PROVE  /\ Orderly(<<f>> \o s, at) /\ <<f>> \o s \in Seq(S \cup {f})
                    /\ \A k \in DOMAIN at : at[k] \in Nat
  OBVIOUS
<1>1. Top.depth \in Nat
  <2>1. PICK T : stack \in Seq(T)
    BY DEF WalkInv
  <2>2. Top = stack[1] /\ 1 \in DOMAIN stack
    BY <2>1 DEF Top
  <2> QED BY <2>2 DEF WalkInv, Orderly
<1>2. seeds # NoSeeds
  BY DEF EntersBody, NoSeeds
<1>3. /\ f.depth = Top.depth + 1 /\ f.seeds = seeds /\ f.decl = callee
      /\ f.scope = BoundScope(callee, seeds) /\ Key(f) = key
  BY DEF EdgeFrame, Frame, Key
<1>4. OwnFrame(f)
  <2>1. CASE Top.depth >= MAX_CALL_EDGES
    BY <2>1, <1>1, <1>3, CrossingIsOwned DEF OwnFrame
  <2>2. CASE ~(Top.depth >= MAX_CALL_EDGES)
    BY <2>2, <1>1, <1>3 DEF OwnFrame, MAX_CALL_EDGES
  <2> QED BY <2>1, <2>2
<1>5. key \in DOMAIN enteredAt => ~(enteredAt[key] <= Top.depth + 1)
  BY DEF EntersBody, Repeated
<1> HIDE DEF seeds, f, key
<1>6. \A k \in DOMAIN at : at[k] \in Nat
  BY <1>1 DEF WalkInv, Put
<1>7. key \in DOMAIN at /\ at[key] = Top.depth + 1
      /\ \A k \in DOMAIN enteredAt : k \in DOMAIN at /\ (k # key => at[k] = enteredAt[k])
  BY DEF Put
<1>8. \A i \in DOMAIN s : Key(s[i]) # key
  <2> SUFFICES ASSUME NEW i \in DOMAIN s, Key(s[i]) = key PROVE FALSE
    OBVIOUS
  <2>1. s[i].seeds = seeds
    BY DEF Key, key
  <2>2. key \in DOMAIN enteredAt /\ enteredAt[key] <= s[i].depth
    BY <2>1, <1>2 DEF Orderly
  <2>3. enteredAt[key] \in Nat /\ s[i].depth \in Nat /\ s[i].depth <= Top.depth + 1
    BY <2>2 DEF WalkInv, Orderly
  <2> QED BY <2>2, <2>3, <1>1, <1>5
<1> HIDE DEF at
<1>9. Orderly(s, at)
  <2>1. \A i \in DOMAIN s : s[i].seeds # NoSeeds =>
          Key(s[i]) \in DOMAIN at /\ at[Key(s[i])] <= s[i].depth
    BY <1>7, <1>8 DEF Orderly
  <2> QED BY <2>1 DEF Orderly
<1>10. \A i \in DOMAIN s : s[i].depth <= f.depth
  BY <1>3
<1>11. f.depth \in Nat /\ at[Key(f)] <= f.depth /\ Key(f) \in DOMAIN at
  BY <1>1, <1>3, <1>7
<1>12. \A i \in DOMAIN s : Key(s[i]) # Key(f)
  BY <1>3, <1>8
<1>13. Orderly(<<f>> \o s, at) /\ <<f>> \o s \in Seq(S \cup {f})
  BY <1>4, <1>9, <1>10, <1>11, <1>12, Pushed
<1> QED BY <1>6, <1>13

-----------------------------------------------------------------------------
(* The steps of the walk.                                                  *)

(* The innermost frame is as the invariant says.                           *)
LEMMA Innermost ==
  ASSUME WalkInv, stack # <<>>
  PROVE  Top.depth \in Nat /\ OwnFrame(Top)
<1>1. PICK S : stack \in Seq(S)
  BY DEF WalkInv
<1>2. Top = stack[1] /\ 1 \in DOMAIN stack
  BY <1>1 DEF Top
<1> QED BY <1>2 DEF WalkInv, Orderly

(* A frame over an empty stack, entered by no edge.                        *)
LEMMA Opened ==
  ASSUME NEW at, NEW f, f.depth = 0, f.seeds = NoSeeds
  PROVE  Orderly(<<f>>, at) /\ \E S : <<f>> \in Seq(S)
<1>1. OwnFrame(f)
  BY DEF OwnFrame, MAX_CALL_EDGES
<1> DEFINE t == <<f>>
<1>2. DOMAIN t = {1} /\ t[1] = f /\ t \in Seq({f})
  OBVIOUS
<1> HIDE DEF t
<1>3. Orderly(t, at)
  BY <1>1, <1>2 DEF Orderly
<1> QED BY <1>2, <1>3 DEF t

LEMMA EmptyStack ==
  ASSUME NEW at
  PROVE  Orderly(<<>>, at) /\ \E S : <<>> \in Seq(S)
<1>1. <<>> \in Seq({}) /\ DOMAIN <<>> = {}
  OBVIOUS
<1> QED BY <1>1 DEF Orderly

(* A step that leaves the claims alone has to keep the stack orderly.      *)
LEMMA ClaimsKept ==
  ASSUME WalkInv, claims' = claims, enteredAt' = enteredAt,
         Orderly(stack', enteredAt), \E S : stack' \in Seq(S)
  PROVE  WalkInv'
BY DEF WalkInv, FourthEdgeRefused

LEMMA DefineKeeps == WalkInv /\ Define => WalkInv'
<1> SUFFICES ASSUME WalkInv, Define PROVE WalkInv'
  OBVIOUS
<1> DEFINE scope == BindName(Top.scope, Statement.to, ValueOf(Statement.from))
<1>1. stack # <<>> /\ stack' = Replace(Tail(Top.todo), scope, Top.operands)
      /\ claims' = claims /\ enteredAt' = enteredAt
  BY DEF Define, At, Advanced, walk
<1>2. Top.depth > MAX_CALL_EDGES => OwnScope(scope, Top.decl)
  <2> SUFFICES ASSUME Top.depth > MAX_CALL_EDGES PROVE OwnScope(scope, Top.decl)
    OBVIOUS
  <2>1. OwnScope(Top.scope, Top.decl)
    BY <1>1, Innermost DEF OwnFrame
  <2> QED BY <2>1, ValueIsOwned, BoundNameIsOwned DEF ValueOf
<1> HIDE DEF scope
<1> QED BY <1>1, <1>2, Replaced, ClaimsKept

(* Statements that leave the scope as it is.                               *)
LEMMA PassingKeeps ==
  ASSUME WalkInv, stack # <<>>, NEW todo, NEW operands,
         stack' = Replace(todo, Top.scope, operands),
         enteredAt' = enteredAt, FourthEdgeRefused'
  PROVE  WalkInv'
<1>1. Top.depth > MAX_CALL_EDGES => OwnScope(Top.scope, Top.decl)
  BY Innermost DEF OwnFrame
<1>2. (\E S : stack' \in Seq(S)) /\ Orderly(stack', enteredAt')
  BY <1>1, Replaced
<1> QED BY <1>2 DEF WalkInv

LEMMA RegisterKeeps == WalkInv /\ Register => WalkInv'
<1> SUFFICES ASSUME WalkInv, Register PROVE WalkInv'
  OBVIOUS
<1> DEFINE value == ValueOf(Statement.on)
           claim == [site |-> Site, value |-> value, distance |-> Top.depth]
<1>1. stack # <<>> /\ stack' = Replace(Tail(Top.todo), Top.scope, Top.operands)
      /\ claims' \subseteq claims \cup {claim} /\ enteredAt' = enteredAt
  BY DEF Register, At, Advanced
<1>2. Top.depth > MAX_CALL_EDGES => Owned(value, Top.decl)
  BY <1>1, Innermost, ValueIsOwned DEF OwnFrame, ValueOf
<1>3. claim.site[1] = Top.decl /\ claim.value = value /\ claim.distance = Top.depth
  BY DEF Site
<1> HIDE DEF claim, value
<1>4. FourthEdgeRefused'
  BY <1>1, <1>2, <1>3 DEF WalkInv, FourthEdgeRefused, Owned
<1> QED BY <1>1, <1>4, PassingKeeps

LEMMA QuietKeeps ==
  WalkInv /\ (Unclassified \/ Mount \/ NilGuard \/ SkipOperand) => WalkInv'
<1> SUFFICES ASSUME WalkInv, Unclassified \/ Mount \/ NilGuard \/ SkipOperand
             PROVE  WalkInv'
  OBVIOUS
<1>1. PICK todo, operands : stack' = Replace(todo, Top.scope, operands)
  BY DEF Unclassified, Mount, NilGuard, SkipOperand, Advanced, NextOperand
<1>2. stack # <<>> /\ claims' = claims /\ enteredAt' = enteredAt
  BY DEF Unclassified, Mount, NilGuard, SkipOperand, At, AtOperand, walk
<1>3. FourthEdgeRefused'
  BY <1>2 DEF WalkInv, FourthEdgeRefused
<1> QED BY <1>1, <1>2, <1>3, PassingKeeps

(* A closure is walked at the distance of the body it stands in.           *)
LEMMA DeriveKeeps == WalkInv /\ Derive => WalkInv'
<1> SUFFICES ASSUME WalkInv, Derive PROVE WalkInv'
  OBVIOUS
<1> DEFINE receiver == ValueOf(Statement.on)
           value == DerivedValue(receiver, Statement.prefix, Site)
           inner == IF IsRouter(value) /\ Statement.param # ""
                      THEN BindRouter(Top.scope, Statement.param, value)
                      ELSE Top.scope
           f == Frame(Top.decl, NoSeeds, Statement.body, inner, Top.depth, Top.silent, <<>>)
           scope == BindName(Top.scope, Statement.to, value)
           after == Replace(Tail(Top.todo), scope, Top.operands)
<1>1. /\ stack # <<>> /\ claims' = claims /\ enteredAt' = enteredAt
      /\ stack' = <<f>> \o after \/ stack' = after
  BY DEF Derive, At, Advanced
<1>2. Top.depth \in Nat
  BY <1>1, Innermost
<1>3. Top.depth > MAX_CALL_EDGES =>
        OwnScope(scope, Top.decl) /\ OwnScope(inner, Top.decl)
  <2> SUFFICES ASSUME Top.depth > MAX_CALL_EDGES
               PROVE  OwnScope(scope, Top.decl) /\ OwnScope(inner, Top.decl)
    OBVIOUS
  <2>1. OwnScope(Top.scope, Top.decl)
    BY <1>1, Innermost DEF OwnFrame
  <2>2. Owned(receiver, Top.decl)
    BY <2>1, ValueIsOwned DEF ValueOf
  <2> HIDE DEF receiver
  <2>3. Owned(value, Top.decl)
    BY <2>2 DEF DerivedValue, Owned, Proven, Site
  <2> HIDE DEF value
  <2>4. OwnScope(inner, Top.decl)
    BY <2>1, <2>3, BoundRouterIsOwned
  <2> QED BY <2>1, <2>3, <2>4, BoundNameIsOwned
<1>4. f.depth = Top.depth /\ f.seeds = NoSeeds /\ f.decl = Top.decl /\ f.scope = inner
  BY DEF Frame
<1> HIDE DEF scope, f, value, receiver, inner
<1>5. /\ Orderly(after, enteredAt) /\ \E S : after \in Seq(S)
      /\ \A i \in DOMAIN after : after[i].depth <= f.depth
  BY <1>1, <1>3, <1>4, Replaced
<1>6. f.depth \in Nat /\ OwnFrame(f)
  BY <1>2, <1>3, <1>4 DEF OwnFrame
<1> HIDE DEF after
<1>7. Orderly(<<f>> \o after, enteredAt) /\ \E S : <<f>> \o after \in Seq(S)
  <2>1. PICK S : after \in Seq(S)
    BY <1>5
  <2> QED BY <2>1, <1>4, <1>5, <1>6, Pushed
<1> QED BY <1>1, <1>5, <1>7, ClaimsKept

(* An edge followed over an orderly stack that is no farther out.          *)
LEMMA EdgeKeeps ==
  ASSUME WalkInv, stack # <<>>, NEW s, \E S : s \in Seq(S), Orderly(s, enteredAt),
         \A i \in DOMAIN s : s[i].depth <= Top.depth + 1,
         NEW callee, NEW args, FollowEdge(callee, args, s), claims' = claims
  PROVE  WalkInv'
<1> DEFINE seeds == Crossing(SeedsOf(args, Top.scope, Top.decl), Top.depth)
           f == EdgeFrame(callee, seeds)
<1>1. PICK S : s \in Seq(S)
  OBVIOUS
<1>2. CASE EntersBody(callee, seeds)
  <2>1. /\ enteredAt' = Put(enteredAt, <<callee, seeds>>, Top.depth + 1)
        /\ stack' = <<f>> \o s
    BY <1>2 DEF FollowEdge
  <2>2. /\ Orderly(<<f>> \o s, enteredAt') /\ <<f>> \o s \in Seq(S \cup {f})
        /\ \A key \in DOMAIN enteredAt' : enteredAt'[key] \in Nat
    BY <1>1, <1>2, <2>1, Entered
  <2> QED BY <2>1, <2>2 DEF WalkInv, FourthEdgeRefused
<1>3. CASE ~EntersBody(callee, seeds)
  <2>1. enteredAt' = enteredAt /\ stack' = s
    BY <1>3 DEF FollowEdge
  <2> QED BY <1>1, <2>1, ClaimsKept
<1> QED BY <1>2, <1>3

LEMMA CallKeeps == WalkInv /\ Call => WalkInv'
<1> SUFFICES ASSUME WalkInv, Call PROVE WalkInv'
  OBVIOUS
<1> DEFINE value == ThroughHelper(Statement.args, Top.scope, Top.decl)
           scope == BindName(Top.scope, Statement.to, value)
           after == Replace(Tail(Top.todo), scope, Top.operands)
<1>1. stack # <<>> /\ claims' = claims /\ FollowEdge(Statement.callee, Statement.args, after)
  BY DEF Call, At, Advanced
<1>2. Top.depth \in Nat
  BY <1>1, Innermost
<1>3. Owned(value, Top.decl)
  BY DEF ThroughHelper, Owned, IsProven, Lost, Nothing
<1> HIDE DEF value
<1>4. Top.depth > MAX_CALL_EDGES => OwnScope(scope, Top.decl)
  BY <1>1, <1>3, Innermost, BoundNameIsOwned DEF OwnFrame
<1> HIDE DEF scope
<1>5. /\ Orderly(after, enteredAt) /\ \E S : after \in Seq(S)
      /\ \A i \in DOMAIN after : after[i].depth <= Top.depth
  BY <1>1, <1>4, Replaced
<1> HIDE DEF after
<1>6. \A i \in DOMAIN after : after[i].depth <= Top.depth + 1
  BY <1>2, <1>5 DEF Orderly
<1> QED BY <1>1, <1>5, <1>6, EdgeKeeps

LEMMA FollowOperandKeeps == WalkInv /\ FollowOperand => WalkInv'
<1> SUFFICES ASSUME WalkInv, FollowOperand PROVE WalkInv'
  OBVIOUS
<1> DEFINE d == Operand.callee
           f == FollowFrame(d, 0, Top.depth + 1)
           after == Replace(<<>>, Top.scope, Tail(Top.operands))
<1>1. /\ stack # <<>> /\ claims' = claims
      /\ \/ FollowEdge(d, Operand.args, <<f>> \o after)
         \/ FollowEdge(d, Operand.args, after)
  BY DEF FollowOperand, AtOperand, NextOperand
<1>2. Top.depth \in Nat /\ (Top.depth > MAX_CALL_EDGES => OwnScope(Top.scope, Top.decl))
  BY <1>1, Innermost DEF OwnFrame
<1>3. /\ f.depth = Top.depth + 1 /\ f.seeds = NoSeeds /\ f.scope = SeededScope(d)
  BY DEF FollowFrame, Frame
<1>4. OwnFrame(f)
  BY <1>3, UnseededIsOwned DEF OwnFrame
<1> HIDE DEF f, d
<1>5. /\ Orderly(after, enteredAt) /\ \E S : after \in Seq(S)
      /\ \A i \in DOMAIN after : after[i].depth <= Top.depth
  BY <1>1, <1>2, Replaced
<1> HIDE DEF after
<1>6. \A i \in DOMAIN after : after[i].depth <= Top.depth + 1
  BY <1>2, <1>5 DEF Orderly
<1>7. /\ Orderly(<<f>> \o after, enteredAt) /\ \E S : <<f>> \o after \in Seq(S)
      /\ \A i \in DOMAIN (<<f>> \o after) : (<<f>> \o after)[i].depth <= Top.depth + 1
  <2>1. PICK S : after \in Seq(S)
    BY <1>5
  <2>2. \A i \in DOMAIN after : after[i].depth <= f.depth
    BY <1>3, <1>6
  <2>3. Orderly(<<f>> \o after, enteredAt) /\ <<f>> \o after \in Seq(S \cup {f})
    <3>1. f.depth \in Nat
      BY <1>2, <1>3
    <3> QED BY <3>1, <1>3, <1>4, <1>5, <2>1, <2>2, Pushed
  <2>4. (<<f>> \o after)[1] = f /\ DOMAIN (<<f>> \o after) = 1..(Len(after) + 1)
        /\ Len(after) \in Nat
    BY <2>1
  <2>5. \A i \in DOMAIN (<<f>> \o after) : (<<f>> \o after)[i].depth <= f.depth
    <3> TAKE i \in DOMAIN (<<f>> \o after)
    <3>1. CASE i = 1
      BY <3>1, <2>4, <1>2, <1>3
    <3>2. CASE i # 1
      <4>1. 1 < i /\ 1 \in DOMAIN (<<f>> \o after)
        BY <3>2, <2>4
      <4> QED BY <4>1, <2>3, <2>4 DEF Orderly
    <3> QED BY <3>1, <3>2
  <2> QED BY <2>3, <2>5, <1>3
<1> QED BY <1>1, <1>5, <1>6, <1>7, EdgeKeeps

(* Steps that open a walk, end one, or move between the passes.            *)
LEMMA TurnKeeps ==
  WalkInv /\ (WalkDeclaration \/ NextPass \/ Return \/ FollowServeRoot \/ AnchorOperand)
    => WalkInv'
<1> SUFFICES ASSUME WalkInv,
                    WalkDeclaration \/ NextPass \/ Return \/ FollowServeRoot \/ AnchorOperand
             PROVE  WalkInv'
  OBVIOUS
<1>1. claims' = claims /\ enteredAt' = enteredAt
  BY DEF WalkDeclaration, NextPass, Return, FollowServeRoot, AnchorOperand, walk
<1>2. Orderly(stack', enteredAt) /\ \E S : stack' \in Seq(S)
  <2>1. CASE stack' = stack
    BY <2>1 DEF WalkInv
  <2>2. CASE stack' = <<>>
    BY <2>2, EmptyStack
  <2>3. CASE \E d, todo, scope, silent, operands :
               stack' = <<Frame(d, NoSeeds, todo, scope, 0, silent, operands)>>
    <3>1. PICK f : stack' = <<f>> /\ f.depth = 0 /\ f.seeds = NoSeeds
      BY <2>3 DEF Frame
    <3> QED BY <3>1, Opened
  <2>4. CASE stack # <<>> /\ stack' = Tail(stack)
    BY <2>4, Popped DEF WalkInv
  <2>5. CASE WalkDeclaration
    <3> DEFINE d == unit.order[next]
               f == Frame(d, NoSeeds, unit.body[d], SeededScope(d), 0, FALSE, <<>>)
    <3>1. stack' = <<f>> \/ stack' = stack
      BY <2>5 DEF WalkDeclaration
    <3> QED BY <3>1, <2>1, <2>3
  <2>6. CASE NextPass
    BY <2>6, <2>1 DEF NextPass
  <2>7. CASE Return
    BY <2>7, <2>4 DEF Return
  <2>8. CASE FollowServeRoot
    BY <2>8, <2>1, <2>3 DEF FollowServeRoot, FollowFrame
  <2>9. CASE AnchorOperand
    BY <2>9, <2>2 DEF AnchorOperand
  <2> QED BY <2>5, <2>6, <2>7, <2>8, <2>9
<1> QED BY <1>1, <1>2, ClaimsKept

LEMMA WalkInductive == Spec => []WalkInv
<1>1. Init => WalkInv
  <2> SUFFICES ASSUME Init PROVE WalkInv
    OBVIOUS
  <2>1. stack = <<>> /\ enteredAt = <<>> /\ claims = {}
    BY DEF Init
  <2>2. DOMAIN enteredAt = {}
    BY <2>1
  <2> QED BY <2>1, <2>2, EmptyStack DEF WalkInv, FourthEdgeRefused
<1>2. WalkInv /\ [Next]_vars => WalkInv'
  <2> SUFFICES ASSUME WalkInv, [Next]_vars PROVE WalkInv'
    OBVIOUS
  <2>1. CASE Step
    BY <2>1, DefineKeeps, RegisterKeeps, QuietKeeps, DeriveKeeps, CallKeeps,
       FollowOperandKeeps, TurnKeeps DEF Step
  <2>2. CASE UNCHANGED vars
    <3>1. stack' = stack /\ enteredAt' = enteredAt /\ claims' = claims
      BY <2>2 DEF vars, walk
    <3> QED BY <3>1 DEF WalkInv, FourthEdgeRefused
  <2> QED BY <2>1, <2>2 DEF Next, Finished
<1> QED BY <1>1, <1>2, PTL DEF Spec

-----------------------------------------------------------------------------
(* Types.  The scopes of frames bind names to routers only, whatever the   *)
(* records in them hold, since every reading of a record asks first.       *)

RoutersOnly(bindings) == \A n \in DOMAIN bindings : IsRouter(bindings[n])

FrameTyped(f, declarations, silent) ==
  /\ f.decl \in declarations
  /\ f.depth \in Nat
  /\ f.silent = silent
  /\ f.operands # <<>> => silent
  /\ RoutersOnly(f.scope.bindings)

StackTyped(s, declarations, silent) ==
  /\ \E S : s \in Seq(S)
  /\ \A i \in DOMAIN s : FrameTyped(s[i], declarations, silent)

Silent == pass = "anchor"

TypeInv ==
  /\ unit \in Units
  /\ StackTyped(stack, Declarations, Silent)
  /\ TypeOK

LEMMA PushedTyped ==
  ASSUME NEW s, NEW f, NEW D, NEW silent \in BOOLEAN,
         StackTyped(s, D, silent), FrameTyped(f, D, silent)
  PROVE  StackTyped(<<f>> \o s, D, silent)
<1>1. PICK S : s \in Seq(S)
  BY DEF StackTyped
<1> DEFINE t == <<f>> \o s
<1>2. /\ t \in Seq(S \cup {f}) /\ t[1] = f
      /\ \A i \in DOMAIN t : i # 1 => t[i] = s[i - 1] /\ i - 1 \in DOMAIN s
  BY <1>1
<1> HIDE DEF t
<1>3. \A i \in DOMAIN t : FrameTyped(t[i], D, silent)
  <2> TAKE i \in DOMAIN t
  <2>1. CASE i = 1
    BY <2>1, <1>2
  <2>2. CASE i # 1
    BY <2>2, <1>2 DEF StackTyped
  <2> QED BY <2>1, <2>2
<1> QED BY <1>2, <1>3 DEF StackTyped, t

LEMMA EmptyTyped == ASSUME NEW D, NEW silent PROVE StackTyped(<<>>, D, silent)
<1>1. <<>> \in Seq({}) /\ DOMAIN <<>> = {}
  OBVIOUS
<1> QED BY <1>1 DEF StackTyped

LEMMA OneFrameTyped ==
  ASSUME NEW f, NEW D, NEW silent \in BOOLEAN, FrameTyped(f, D, silent)
  PROVE  StackTyped(<<f>>, D, silent)
<1> DEFINE t == <<f>>
<1>1. DOMAIN t = {1} /\ t[1] = f /\ t \in Seq({f})
  OBVIOUS
<1> HIDE DEF t
<1>2. StackTyped(t, D, silent)
  BY <1>1 DEF StackTyped
<1> QED BY <1>2 DEF t

LEMMA PoppedTyped ==
  ASSUME NEW s, s # <<>>, NEW D, NEW silent, StackTyped(s, D, silent)
  PROVE  StackTyped(Tail(s), D, silent) /\ FrameTyped(Head(s), D, silent)
<1>1. PICK S : s \in Seq(S)
  BY DEF StackTyped
<1> DEFINE t == Tail(s)
<1>2. /\ t \in Seq(S) /\ Head(s) = s[1] /\ 1 \in DOMAIN s
      /\ \A i \in DOMAIN t : t[i] = s[i + 1] /\ i + 1 \in DOMAIN s
  BY <1>1
<1> HIDE DEF t
<1>3. StackTyped(t, D, silent)
  BY <1>2 DEF StackTyped
<1> QED BY <1>2, <1>3 DEF StackTyped, t

LEMMA ReplacedTyped ==
  ASSUME TypeInv, stack # <<>>, NEW todo, NEW scope, NEW operands,
         RoutersOnly(scope.bindings), operands # <<>> => Top.operands # <<>>
  PROVE  StackTyped(Replace(todo, scope, operands), Declarations, Silent)
<1> DEFINE f == Frame(Top.decl, Top.seeds, todo, scope, Top.depth, Top.silent, operands)
<1>1. /\ StackTyped(Tail(stack), Declarations, Silent)
      /\ FrameTyped(Top, Declarations, Silent)
  BY PoppedTyped DEF TypeInv, Top
<1>2. FrameTyped(f, Declarations, Silent)
  BY <1>1 DEF FrameTyped, Frame
<1> HIDE DEF f
<1>3. StackTyped(<<f>> \o Tail(stack), Declarations, Silent)
  <2>1. Silent \in BOOLEAN
    BY DEF Silent
  <2> QED BY <1>1, <1>2, <2>1, PushedTyped
<1> QED BY <1>3 DEF Replace, f

(* What a scope binds.                                                     *)
LEMMA BoundRouters ==
  ASSUME NEW scope, RoutersOnly(scope.bindings), NEW name, NEW value
  PROVE  /\ IsRouter(value) => RoutersOnly(BindRouter(scope, name, value).bindings)
         /\ RoutersOnly(BindName(scope, name, value).bindings)
<1>1. \A v : IsRouter(v) => RoutersOnly(BindRouter(scope, name, v).bindings)
  BY DEF RoutersOnly, BindRouter, Put
<1>2. IsRouter(Lost("correlation_lost"))
  BY DEF IsRouter, Lost
<1>3. RoutersOnly([bindings |-> scope.bindings, records |-> scope.records,
                   defined |-> scope.defined \cup {name}].bindings)
  OBVIOUS
<1> QED BY <1>1, <1>2, <1>3 DEF BindName

LEMMA EdgeRouters ==
  ASSUME NEW d, NEW seeds
  PROVE  RoutersOnly(BoundScope(d, seeds).bindings)
<1> DEFINE params == unit.params[d]
           routers == {i \in DOMAIN params \cap DOMAIN seeds : IsRouter(seeds[i].value)}
<1>1. \A n \in {params[i].name : i \in routers} :
        (CHOOSE i \in routers : params[i].name = n) \in routers
  OBVIOUS
<1>2. \A n \in {params[i].name : i \in routers} :
        IsRouter(seeds[CHOOSE i \in routers : params[i].name = n].value)
  BY <1>1
<1> QED BY <1>2 DEF RoutersOnly, BoundScope

LEMMA UnseededRouters == ASSUME NEW d PROVE RoutersOnly(SeededScope(d).bindings)
BY DEF RoutersOnly, SeededScope, IsRouter, Lost

(* A step within a pass is typed when the stack and what it records are.   *)
LEMMA WithinPass ==
  ASSUME TypeInv, UNCHANGED <<unit, pass, outright>>,
         StackTyped(stack', Declarations, Silent),
         next' \in Nat \ {0},
         entered \subseteq entered', entered' \subseteq Declarations,
         \A key \in DOMAIN enteredAt' :
           key[1] \in entered' /\ enteredAt'[key] \in Nat \ {0},
         \A c \in claims' : IsRouter(c.value) /\ c.distance \in Nat,
         \A key \in DOMAIN mounts' : mounts'[key] # {}
  PROVE  TypeInv'
BY DEF TypeInv, TypeOK, StackTyped, FrameTyped, RoutersOnly, Silent, Declarations

LEMMA TopTyped ==
  ASSUME TypeInv, stack # <<>>
  PROVE  /\ FrameTyped(Top, Declarations, Silent)
         /\ RoutersOnly(Top.scope.bindings) /\ Top.depth \in Nat
         /\ StackTyped(Tail(stack), Declarations, Silent)
BY PoppedTyped DEF TypeInv, Top, FrameTyped

LEMMA MountedTyped ==
  ASSUME TypeInv, NEW key, NEW record
  PROVE  \A k \in DOMAIN Recorded(key, record) : Recorded(key, record)[k] # {}
BY DEF Recorded, Put, TypeInv, TypeOK

LEMMA StatementTyped ==
  TypeInv /\ (Define \/ Register \/ Unclassified \/ Mount \/ NilGuard \/ SkipOperand)
    => TypeInv'
<1> SUFFICES ASSUME TypeInv,
                    Define \/ Register \/ Unclassified \/ Mount \/ NilGuard \/ SkipOperand
             PROVE  TypeInv'
  OBVIOUS
<1>1. stack # <<>>
  BY DEF Define, Register, Unclassified, Mount, NilGuard, SkipOperand, At, AtOperand
<1>2. StackTyped(stack', Declarations, Silent)
  <2>1. CASE Define
    BY <2>1, <1>1, TopTyped, BoundRouters, ReplacedTyped DEF Define, Advanced
  <2>2. CASE ~Define
    <3>1. PICK todo, operands : /\ stack' = Replace(todo, Top.scope, operands)
                                /\ operands # <<>> => Top.operands # <<>>
      BY <2>2 DEF Register, Unclassified, Mount, NilGuard, SkipOperand, AtOperand,
         Advanced, NextOperand
    <3> QED BY <3>1, <1>1, TopTyped, ReplacedTyped
  <2> QED BY <2>1, <2>2
<1>3. UNCHANGED <<unit, pass, outright, next, entered, enteredAt>>
  BY DEF Define, Register, Unclassified, Mount, NilGuard, SkipOperand, Walking, walk
<1>4. \A c \in claims' : IsRouter(c.value) /\ c.distance \in Nat
  <2>1. CASE Register
    BY <2>1, <1>1, TopTyped DEF Register, TypeInv, TypeOK
  <2>2. CASE ~Register
    <3>1. claims' = claims
      BY <2>2 DEF Define, Unclassified, Mount, NilGuard, SkipOperand, walk
    <3> QED BY <3>1 DEF TypeInv, TypeOK
  <2> QED BY <2>1, <2>2
<1>5. \A key \in DOMAIN mounts' : mounts'[key] # {}
  <2>1. CASE Mount
    <3>1. PICK key, record : mounts' = Recorded(key, record) \/ mounts' = mounts
      BY <2>1 DEF Mount
    <3> QED BY <3>1, MountedTyped DEF TypeInv, TypeOK
  <2>2. CASE ~Mount
    <3>1. mounts' = mounts
      BY <2>2 DEF Define, Register, Unclassified, NilGuard, SkipOperand, walk
    <3> QED BY <3>1 DEF TypeInv, TypeOK
  <2> QED BY <2>1, <2>2
<1> QED BY <1>2, <1>3, <1>4, <1>5, WithinPass DEF TypeInv, TypeOK

LEMMA DeriveTyped == TypeInv /\ Derive => TypeInv'
<1> SUFFICES ASSUME TypeInv, Derive PROVE TypeInv'
  OBVIOUS
<1> DEFINE receiver == ValueOf(Statement.on)
           value == DerivedValue(receiver, Statement.prefix, Site)
           inner == IF IsRouter(value) /\ Statement.param # ""
                      THEN BindRouter(Top.scope, Statement.param, value)
                      ELSE Top.scope
           f == Frame(Top.decl, NoSeeds, Statement.body, inner, Top.depth, Top.silent, <<>>)
           after == Advanced(BindName(Top.scope, Statement.to, value))
<1>1. /\ stack # <<>> /\ stack' \in {<<f>> \o after, after}
      /\ UNCHANGED <<unit, pass, outright, next, entered, enteredAt, claims>>
  BY DEF Derive, At, Walking
<1>2. PICK key, record : mounts' = Recorded(key, record) \/ mounts' = mounts
  BY DEF Derive
<1>3. RoutersOnly(inner.bindings)
  BY <1>1, TopTyped, BoundRouters
<1>4. FrameTyped(f, Declarations, Silent)
  BY <1>1, <1>3, TopTyped DEF FrameTyped, Frame
<1>5. StackTyped(after, Declarations, Silent)
  BY <1>1, TopTyped, BoundRouters, ReplacedTyped DEF Advanced
<1> HIDE DEF f, after
<1>6. StackTyped(stack', Declarations, Silent)
  <2>1. Silent \in BOOLEAN
    BY DEF Silent
  <2> QED BY <1>1, <1>4, <1>5, <2>1, PushedTyped
<1>7. \A k \in DOMAIN mounts' : mounts'[k] # {}
  BY <1>2, MountedTyped DEF TypeInv, TypeOK
<1> QED BY <1>1, <1>6, <1>7, WithinPass DEF TypeInv, TypeOK

(* An edge enters a declared body, one step farther out.                   *)
LEMMA EdgeTyped ==
  ASSUME TypeInv, stack # <<>>, NEW s, StackTyped(s, Declarations, Silent),
         NEW callee, NEW args, FollowEdge(callee, args, s),
         UNCHANGED <<unit, pass, outright, next, claims, mounts>>
  PROVE  TypeInv'
<1> DEFINE seeds == Crossing(SeedsOf(args, Top.scope, Top.decl), Top.depth)
           f == EdgeFrame(callee, seeds)
<1>1. CASE EntersBody(callee, seeds)
  <2>1. /\ enteredAt' = Put(enteredAt, <<callee, seeds>>, Top.depth + 1)
        /\ entered' = entered \cup {callee} /\ stack' = <<f>> \o s
        /\ callee \in Declarations
    BY <1>1 DEF FollowEdge, EntersBody
  <2>2. FrameTyped(f, Declarations, Silent)
    <3>1. f.decl = callee /\ f.depth = Top.depth + 1 /\ f.silent = Top.silent
          /\ f.scope = BoundScope(callee, seeds) /\ f.operands = <<>>
      BY DEF EdgeFrame, Frame
    <3> HIDE DEF f, seeds
    <3>2. Top.silent = Silent /\ Top.depth \in Nat
      BY TopTyped DEF FrameTyped
    <3> QED BY <2>1, <3>1, <3>2, EdgeRouters DEF FrameTyped
  <2> HIDE DEF f
  <2>3. StackTyped(stack', Declarations, Silent)
    <3>1. Silent \in BOOLEAN
      BY DEF Silent
    <3> QED BY <2>1, <2>2, <3>1, PushedTyped
  <2> HIDE DEF seeds
  <2>4. \A key \in DOMAIN enteredAt' :
          key[1] \in entered' /\ enteredAt'[key] \in Nat \ {0}
    BY <2>1, TopTyped DEF Put, TypeInv, TypeOK
  <2> QED BY <2>1, <2>3, <2>4, WithinPass DEF TypeInv, TypeOK
<1>2. CASE ~EntersBody(callee, seeds)
  <2>1. UNCHANGED <<enteredAt, entered>> /\ stack' = s
    BY <1>2 DEF FollowEdge
  <2> QED BY <2>1, WithinPass DEF TypeInv, TypeOK
<1> QED BY <1>1, <1>2

LEMMA CallTyped == TypeInv /\ Call => TypeInv'
<1> SUFFICES ASSUME TypeInv, Call PROVE TypeInv'
  OBVIOUS
<1> DEFINE value == ThroughHelper(Statement.args, Top.scope, Top.decl)
           after == Advanced(BindName(Top.scope, Statement.to, value))
<1>1. /\ stack # <<>> /\ FollowEdge(Statement.callee, Statement.args, after)
      /\ UNCHANGED <<unit, pass, outright, next, claims, mounts>>
  BY DEF Call, At, Walking
<1> HIDE DEF value
<1>2. StackTyped(after, Declarations, Silent)
  BY <1>1, TopTyped, BoundRouters, ReplacedTyped DEF Advanced
<1> HIDE DEF after
<1> QED BY <1>1, <1>2, EdgeTyped

LEMMA FollowOperandTyped == TypeInv /\ FollowOperand => TypeInv'
<1> SUFFICES ASSUME TypeInv, FollowOperand PROVE TypeInv'
  OBVIOUS
<1> DEFINE d == Operand.callee
           follows == /\ d \in Declarations
                      /\ Top.depth + 1 <= MAX_RETURN_EDGES
                      /\ <<d, 0>> \notin seen
           f == FollowFrame(d, 0, Top.depth + 1)
           rest == IF follows THEN <<f>> \o NextOperand ELSE NextOperand
<1>1. /\ stack # <<>> /\ Top.operands # <<>> /\ FollowEdge(d, Operand.args, rest)
      /\ UNCHANGED <<unit, pass, outright, next, claims, mounts>>
  BY DEF FollowOperand, AtOperand, result
<1>2. StackTyped(NextOperand, Declarations, Silent)
  BY <1>1, TopTyped, ReplacedTyped DEF NextOperand
<1>3. pass = "anchor"
  BY <1>1, TopTyped DEF FrameTyped, Silent
<1>4. follows => FrameTyped(f, Declarations, Silent)
  <2>1. f.decl = d /\ f.depth = Top.depth + 1 /\ f.silent = TRUE
        /\ f.scope = SeededScope(d)
    BY DEF FollowFrame, Frame
  <2>2. RoutersOnly(f.scope.bindings)
    BY <2>1, UnseededRouters
  <2>3. Top.depth + 1 \in Nat
    BY <1>1, TopTyped
  <2>4. follows => d \in Declarations
    OBVIOUS
  <2> HIDE DEF f, follows, d
  <2> QED BY <1>3, <2>1, <2>2, <2>3, <2>4 DEF FrameTyped, Silent
<1> HIDE DEF f
<1>5. StackTyped(rest, Declarations, Silent)
  <2>1. Silent \in BOOLEAN
    BY DEF Silent
  <2> QED BY <1>2, <1>4, <2>1, PushedTyped
<1> HIDE DEF rest, d
<1> QED BY <1>1, <1>5, EdgeTyped

(* Steps that open a walk, end one, or move between the passes.            *)
LEMMA TurnTyped ==
  TypeInv /\ (WalkDeclaration \/ NextPass \/ Return \/ FollowServeRoot \/ AnchorOperand)
    => TypeInv'
<1>1. ASSUME TypeInv, WalkDeclaration PROVE TypeInv'
  <2> DEFINE d == unit.order[next]
             f == Frame(d, NoSeeds, unit.body[d], SeededScope(d), 0, FALSE, <<>>)
  <2>1. /\ stack = <<>> /\ pass # "anchor" /\ next' = next + 1
        /\ UNCHANGED <<unit, pass, enteredAt, claims, mounts>>
        /\ next \in 1..Len(unit.order)
    BY <1>1 DEF WalkDeclaration, TypeInv, TypeOK
  <2>2. CASE UNCHANGED <<entered, outright, stack>>
    BY <1>1, <2>1, <2>2, WithinPass DEF TypeInv, TypeOK
  <2>3. CASE ~UNCHANGED <<entered, outright, stack>>
    <3>1. entered' = entered \cup {d} /\ outright' = outright \cup {d} /\ stack' = <<f>>
      BY <1>1, <2>3 DEF WalkDeclaration
    <3>2. d \in Declarations
      BY <1>1, <2>1, OrderIsDeclared DEF TypeInv, Declarations
    <3>3. f.decl = d /\ f.depth = 0 /\ f.silent = FALSE /\ f.scope = SeededScope(d)
          /\ f.operands = <<>>
      BY DEF Frame
    <3> HIDE DEF f, d
    <3>4. FrameTyped(f, Declarations, FALSE)
      BY <3>2, <3>3, UnseededRouters DEF FrameTyped
    <3>5. StackTyped(stack', Declarations, FALSE)
      BY <3>1, <3>4, OneFrameTyped
    <3>6. StackTyped(stack', Declarations', Silent') /\ unit' \in Units
      BY <1>1, <2>1, <3>5 DEF Silent, Declarations, TypeInv
    <3>7. TypeOK'
      BY <1>1, <2>1, <3>1, <3>2, <3>6
         DEF TypeInv, TypeOK, StackTyped, FrameTyped, RoutersOnly, Silent, Declarations
    <3> QED BY <3>6, <3>7 DEF TypeInv
  <2> QED BY <2>2, <2>3
<1>2. ASSUME TypeInv, NextPass PROVE TypeInv'
  <2>1. /\ stack' = <<>> /\ next' = 1 /\ pass' \in {"summary", "anchor", "done"}
        /\ UNCHANGED <<unit, entered, enteredAt, claims, mounts, outright>>
    BY <1>2 DEF NextPass, walk
  <2>2. StackTyped(stack', Declarations', Silent')
    BY <2>1, EmptyTyped
  <2> QED BY <1>2, <2>1, <2>2
          DEF TypeInv, TypeOK, StackTyped, FrameTyped, RoutersOnly, Silent, Declarations
<1>3. ASSUME TypeInv, Return PROVE TypeInv'
  <2>1. /\ stack # <<>> /\ stack' = Tail(stack) /\ next' \in {next, next + 1}
        /\ UNCHANGED <<unit, pass, entered, enteredAt, claims, mounts, outright>>
    BY <1>3 DEF Return, walk
  <2> QED BY <1>3, <2>1, TopTyped, WithinPass DEF TypeInv, TypeOK
<1>4. ASSUME TypeInv, FollowServeRoot PROVE TypeInv'
  <2> DEFINE root == unit.serveRoots[next]
             f == FollowFrame(root.function, root.result, 0)
  <2>1. /\ stack = <<>> /\ pass = "anchor" /\ next' \in {next, next + 1}
        /\ UNCHANGED <<unit, pass, entered, enteredAt, claims, mounts, outright>>
        /\ stack' = stack \/ (root.function \in Declarations /\ stack' = <<f>>)
    BY <1>4 DEF FollowServeRoot, Resolves, walk
  <2>2. f.decl = root.function /\ f.depth = 0 /\ f.silent = TRUE
        /\ f.scope = SeededScope(root.function)
    BY DEF FollowFrame, Frame
  <2> HIDE DEF f, root
  <2>3. stack' = <<f>> /\ root.function \in Declarations
          => StackTyped(stack', Declarations, Silent)
    <3>1. root.function \in Declarations => FrameTyped(f, Declarations, TRUE)
      BY <2>2, UnseededRouters DEF FrameTyped
    <3> QED BY <2>1, <3>1, OneFrameTyped DEF Silent
  <2> QED BY <1>4, <2>1, <2>3, WithinPass DEF TypeInv, TypeOK
<1>5. ASSUME TypeInv, AnchorOperand PROVE TypeInv'
  <2>1. /\ stack' = <<>> /\ next' = next + 1
        /\ UNCHANGED <<unit, pass, entered, enteredAt, claims, mounts, outright>>
    BY <1>5 DEF AnchorOperand, walk
  <2> QED BY <1>5, <2>1, EmptyTyped, WithinPass DEF TypeInv, TypeOK
<1> QED BY <1>1, <1>2, <1>3, <1>4, <1>5

LEMMA TypeInitially == Init => TypeInv
<1> SUFFICES ASSUME Init PROVE TypeInv
  OBVIOUS
<1>1. /\ stack = <<>> /\ enteredAt = <<>> /\ mounts = <<>> /\ claims = {}
      /\ entered = {} /\ outright = {} /\ next = 1 /\ pass = "outright" /\ unit \in Units
  BY DEF Init
<1>2. DOMAIN <<>> = {}
  OBVIOUS
<1>3. StackTyped(stack, Declarations, Silent)
  BY <1>1, EmptyTyped
<1> QED BY <1>1, <1>2, <1>3 DEF TypeInv, TypeOK

LEMMA TypeInductive == TypeInv /\ [Next]_vars => TypeInv'
<1> SUFFICES ASSUME TypeInv, [Next]_vars PROVE TypeInv'
  OBVIOUS
<1>1. CASE Step
  BY <1>1, StatementTyped, DeriveTyped, CallTyped, FollowOperandTyped, TurnTyped DEF Step
<1>2. CASE UNCHANGED vars
  BY <1>2 DEF vars, walk, result, TypeInv, TypeOK, StackTyped, FrameTyped, RoutersOnly,
     Silent, Declarations
<1> QED BY <1>1, <1>2 DEF Next, Finished

(* Every part of the walk's state stays in its domain: bodies entered are  *)
(* declared, distances on record are those of edges, scopes and claims     *)
(* hold routers, and only the walks of serve roots are silent.             *)
THEOREM TypeCorrect == Spec => []TypeOK
<1>1. TypeInv => TypeOK
  BY DEF TypeInv
<1> QED BY <1>1, TypeInitially, TypeInductive, PTL DEF Spec

-----------------------------------------------------------------------------
(* No site is dropped.  Until its frame comes to it, a registration on a   *)
(* router the frame knows waits in the frame's remaining statements.       *)

Listed(todo) == {todo[i] : i \in DOMAIN todo}
Frames(s) == {s[i] : i \in DOMAIN s}

Awaits(f, d, s) ==
  /\ f.decl = d /\ ~f.silent /\ s \in Listed(f.todo)
  /\ IsRouter(SimpleValue(s.on, f.scope, d))

Pending(frames, d, s) == \E f \in frames : Awaits(f, d, s)

Registration(d, s, j) ==
  /\ d \in Declarations /\ s \in Listed(unit.body[d])
  /\ j \in DOMAIN unit.params[d] /\ RegistersOn(d, s, j)

(* While the passes run, what a walk knew a router for is claimed or still *)
(* waits; afterwards the rest are the bodies an edge entered without it.   *)
ClaimedOrPending ==
  Aloud => \A d, s, j : Registration(d, s, j) /\ KnowsRouter(d, s.on, j) =>
             IsClaimed(d, s) \/ Pending(Frames(stack), d, s)

ClaimedOrUnhanded ==
  ~Aloud => \A d, s, j : Registration(d, s, j) =>
              IsClaimed(d, s) \/ \E key \in EntriesOf(d) : ~Hands(key[2], j, s.on)

(* A body is entered by a pass or an edge, and the second pass leaves no   *)
(* body that takes a router behind.                                        *)
EnteredSomehow ==
  /\ entered \subseteq outright \cup {key[1] : key \in DOMAIN enteredAt}
  /\ pass = "summary" =>
       \A i \in DOMAIN unit.order : i < next /\ TakesRouter(unit.order[i]) =>
         unit.order[i] \in entered

SiteInv ==
  /\ \A f \in Frames(stack) : f.todo \in Seq(Statements)
  /\ Done => stack = <<>>
  /\ EnteredSomehow
  /\ ClaimedOrPending
  /\ ClaimedOrUnhanded

LEMMA FramesPushed ==
  ASSUME NEW S, NEW s \in Seq(S), NEW f
  PROVE  Frames(<<f>> \o s) = {f} \cup Frames(s) /\ <<f>> \o s \in Seq(S \cup {f})
<1> DEFINE t == <<f>> \o s
<1>1. /\ t \in Seq(S \cup {f})
      /\ DOMAIN t = 1..(Len(s) + 1) /\ Len(s) \in Nat /\ DOMAIN s = 1..Len(s) /\ t[1] = f
      /\ \A i \in DOMAIN s : t[i + 1] = s[i]
      /\ \A i \in 2..(Len(s) + 1) : t[i] = s[i - 1] /\ i - 1 \in DOMAIN s
  OBVIOUS
<1> HIDE DEF t
<1>2. Frames(t) \subseteq {f} \cup Frames(s)
  <2> SUFFICES ASSUME NEW i \in DOMAIN t PROVE t[i] \in {f} \cup Frames(s)
    BY DEF Frames
  <2>1. CASE i = 1
    BY <2>1, <1>1
  <2>2. CASE i # 1
    <3>1. i \in 2..(Len(s) + 1)
      BY <2>2, <1>1
    <3> QED BY <3>1, <1>1 DEF Frames
  <2> QED BY <2>1, <2>2
<1>3. {f} \cup Frames(s) \subseteq Frames(t)
  <2>1. f \in Frames(t)
    <3>1. 1 \in DOMAIN t
      BY <1>1
    <3> QED BY <3>1, <1>1 DEF Frames
  <2>2. ASSUME NEW i \in DOMAIN s PROVE s[i] \in Frames(t)
    <3>1. i + 1 \in DOMAIN t
      BY <1>1
    <3> QED BY <3>1, <1>1 DEF Frames
  <2> QED BY <2>1, <2>2 DEF Frames
<1> QED BY <1>1, <1>2, <1>3 DEF t

LEMMA FramesPopped ==
  ASSUME NEW S, NEW s \in Seq(S), s # <<>>
  PROVE  Frames(s) = {Head(s)} \cup Frames(Tail(s)) /\ Tail(s) \in Seq(S)
<1>1. s = <<Head(s)>> \o Tail(s) /\ Tail(s) \in Seq(S)
  OBVIOUS
<1> DEFINE h == Head(s)
           t == Tail(s)
<1> HIDE DEF h, t
<1>2. Frames(<<h>> \o t) = {h} \cup Frames(t)
  BY <1>1, FramesPushed DEF h, t
<1> QED BY <1>1, <1>2 DEF h, t

(* A list of statements is its first one and the others.                   *)
LEMMA ListedPopped ==
  ASSUME NEW S, NEW todo \in Seq(S), todo # <<>>
  PROVE  Listed(todo) = {Head(todo)} \cup Listed(Tail(todo)) /\ Tail(todo) \in Seq(S)
BY FramesPopped DEF Frames, Listed

LEMMA ListedAppended ==
  ASSUME NEW S, NEW front \in Seq(S), NEW todo \in Seq(S)
  PROVE  Listed(todo) \subseteq Listed(front \o todo) /\ front \o todo \in Seq(S)
<1> DEFINE t == front \o todo
<1>1. /\ t \in Seq(S) /\ Len(front) \in Nat
      /\ \A i \in DOMAIN todo : i + Len(front) \in DOMAIN t /\ t[i + Len(front)] = todo[i]
  OBVIOUS
<1> HIDE DEF t
<1>2. Listed(todo) \subseteq Listed(t)
  BY <1>1 DEF Listed
<1> QED BY <1>1, <1>2 DEF t

-----------------------------------------------------------------------------
(* What a frame knows when it opens, and keeps knowing.                    *)

LEMMA KnownStaysKnown ==
  ASSUME NEW scope, NEW name, NEW value, NEW on, NEW d,
         IsRouter(SimpleValue(on, scope, d))
  PROVE  /\ IsRouter(value) => IsRouter(SimpleValue(on, BindRouter(scope, name, value), d))
         /\ IsRouter(SimpleValue(on, BindName(scope, name, value), d))
<1>1. ~IsRouter(Nothing)
  BY DEF IsRouter, Nothing
<1>2. \A v : IsRouter(v) => IsRouter(SimpleValue(on, BindRouter(scope, name, v), d))
  <2> SUFFICES ASSUME NEW v, IsRouter(v)
               PROVE  IsRouter(SimpleValue(on, BindRouter(scope, name, v), d))
    OBVIOUS
  <2>1. CASE on.form = "new"
    BY <2>1 DEF SimpleValue, IsRouter, Proven
  <2>2. CASE on.form = "name"
    <3>1. on.name \in DOMAIN scope.bindings /\ IsRouter(scope.bindings[on.name])
      BY <2>2, <1>1 DEF SimpleValue
    <3> QED BY <3>1, <2>2 DEF SimpleValue, BindRouter, Put
  <2>3. CASE on.form = "field"
    <3>1. /\ on.field \in DOMAIN RecordOf(scope, on.of)
          /\ IsRouter(RecordOf(scope, on.of)[on.field])
      BY <2>3, <1>1 DEF SimpleValue
    <3>2. RecordOf(BindRouter(scope, name, v), on.of) = RecordOf(scope, on.of)
      BY DEF RecordOf, BindRouter
    <3> QED BY <3>1, <3>2, <2>3 DEF SimpleValue
  <2>4. CASE on.form \notin {"new", "name", "field"}
    BY <2>4, <1>1 DEF SimpleValue
  <2> QED BY <2>1, <2>2, <2>3, <2>4
<1>3. IsRouter(Lost("correlation_lost"))
  BY DEF IsRouter, Lost
<1>4. IsRouter(SimpleValue(on, [bindings |-> scope.bindings, records |-> scope.records,
                                defined |-> scope.defined \cup {name}], d))
  BY DEF SimpleValue, RecordOf
<1> QED BY <1>2, <1>3, <1>4 DEF BindName

(* An edge that hands a router for what a registration reads binds it.     *)
LEMMA HandedIsKnown ==
  ASSUME unit \in Units, NEW d, NEW s, NEW j, Registration(d, s, j),
         NEW seeds, Hands(seeds, j, s.on)
  PROVE  IsRouter(SimpleValue(s.on, BoundScope(d, seeds), d))
<1> DEFINE params == unit.params[d]
           parameter == params[j]
           routers == {i \in DOMAIN params \cap DOMAIN seeds : IsRouter(seeds[i].value)}
           records == {i \in DOMAIN params \cap DOMAIN seeds : seeds[i].record # NoRecord}
           at(name, S) == CHOOSE i \in S : params[i].name = name
           scope == BoundScope(d, seeds)
<1>1. \A S \in SUBSET DOMAIN params : j \in S => at(parameter.name, S) = j
  BY ParametersAreNamedApart DEF Registration, Declarations
<1>2. /\ DOMAIN scope.bindings = {params[i].name : i \in routers}
      /\ \A n \in DOMAIN scope.bindings : scope.bindings[n] = seeds[at(n, routers)].value
      /\ DOMAIN scope.records = {params[i].name : i \in records}
      /\ \A n \in DOMAIN scope.records : scope.records[n] = seeds[at(n, records)].record
  BY DEF BoundScope
<1>3. j \in DOMAIN params \cap DOMAIN seeds
  BY DEF Registration, Hands
<1>4. routers \in SUBSET DOMAIN params /\ records \in SUBSET DOMAIN params
  OBVIOUS
<1> HIDE DEF at, scope
<1>5. CASE s.on.form = "name"
  <2>1. j \in routers /\ s.on.name = parameter.name
    BY <1>3, <1>5 DEF Hands, Registration, RegistersOn
  <2>2. s.on.name \in DOMAIN scope.bindings /\ scope.bindings[s.on.name] = seeds[j].value
    BY <1>1, <1>2, <1>4, <2>1
  <2>3. IsRouter(seeds[j].value)
    BY <2>1
  <2> QED BY <1>5, <2>2, <2>3 DEF SimpleValue, scope
<1>6. CASE s.on.form = "field"
  <2>1. /\ s.on.field \in DOMAIN seeds[j].record /\ IsRouter(seeds[j].record[s.on.field])
        /\ s.on.of = parameter.name
    BY <1>3, <1>6 DEF Hands, Registration, RegistersOn
  <2>2. j \in records
    <3>1. DOMAIN NoRecord = {}
      BY DEF NoRecord
    <3> QED BY <2>1, <3>1, <1>3
  <2>3. RecordOf(scope, s.on.of) = seeds[j].record
    BY <1>1, <1>2, <1>4, <2>1, <2>2 DEF RecordOf
  <2> QED BY <1>6, <2>1, <2>3 DEF SimpleValue, scope
<1> QED BY <1>5, <1>6 DEF Registration, RegistersOn

(* A walk no edge began knows of every router its body takes.              *)
LEMMA TakenIsKnown ==
  ASSUME unit \in Units, NEW d, NEW s, NEW j, Registration(d, s, j)
  PROVE  /\ IsRouter(SimpleValue(s.on, SeededScope(d), d))
         /\ TakesRouter(d)
<1> DEFINE params == unit.params[d]
           parameter == params[j]
           routers == {i \in DOMAIN params : params[i].type = "Router"}
           records == {i \in DOMAIN params : UnprovenRecord(params[i].type) # NoRecord}
           typeOf(name) == params[CHOOSE i \in records : params[i].name = name].type
           scope == SeededScope(d)
<1>1. j \in records => typeOf(parameter.name) = parameter.type
  BY ParametersAreNamedApart DEF Registration, Declarations
<1>2. /\ scope.bindings = [n \in {params[i].name : i \in routers} |-> Lost("cross_boundary")]
      /\ scope.records = [n \in {params[i].name : i \in records} |-> UnprovenRecord(typeOf(n))]
  BY DEF SeededScope
<1>3. j \in DOMAIN params
  BY DEF Registration
<1>4. IsRouter(Lost("cross_boundary"))
  BY DEF IsRouter, Lost
<1> HIDE DEF typeOf, scope
<1>5. CASE s.on.form = "name"
  <2>1. j \in routers /\ s.on.name = parameter.name
    BY <1>3, <1>5 DEF Registration, RegistersOn
  <2>2. s.on.name \in DOMAIN scope.bindings
        /\ scope.bindings[s.on.name] = Lost("cross_boundary")
    BY <1>2, <2>1
  <2>3. IsRouter(SimpleValue(s.on, scope, d))
    BY <1>4, <1>5, <2>2 DEF SimpleValue
  <2> QED BY <2>1, <2>3 DEF TakesRouter, CarriesRouter, scope
<1>6. CASE s.on.form = "field"
  <2> DEFINE type == parameter.type
             record == UnprovenRecord(type)
  <2>1. /\ type \in DOMAIN unit.fields /\ s.on.field \in DOMAIN unit.fields[type]
        /\ unit.fields[type][s.on.field] = "Router" /\ s.on.of = parameter.name
    BY <1>6 DEF Registration, RegistersOn
  <2>2. s.on.field \in DOMAIN record /\ record[s.on.field] = Lost("cross_boundary")
    BY <2>1 DEF UnprovenRecord
  <2>3. j \in records
    <3>1. DOMAIN NoRecord = {}
      BY DEF NoRecord
    <3> QED BY <2>2, <3>1, <1>3
  <2> HIDE DEF record, type
  <2>4. RecordOf(scope, s.on.of) = record
    BY <1>1, <1>2, <2>1, <2>3 DEF RecordOf, record, type
  <2>5. IsRouter(SimpleValue(s.on, scope, d))
    BY <1>4, <1>6, <2>2, <2>4 DEF SimpleValue
  <2> QED BY <2>3, <2>5, <1>3 DEF TakesRouter, CarriesRouter, scope
<1> QED BY <1>5, <1>6 DEF Registration, RegistersOn

-----------------------------------------------------------------------------
(* The steps.                                                              *)

LEMMA TakenAlike == ASSUME UNCHANGED unit PROVE \A d : TakesRouter(d)' = TakesRouter(d)
<1>1. \A type : UnprovenRecord(type)' = UnprovenRecord(type)
  BY DEF UnprovenRecord
<1>2. \A parameter : CarriesRouter(parameter)' <=> CarriesRouter(parameter)
  BY <1>1 DEF CarriesRouter
<1>3. \A d : TakesRouter(d)' <=> TakesRouter(d)
  BY <1>2 DEF TakesRouter
<1>4. \A d : TakesRouter(d)' \in BOOLEAN /\ TakesRouter(d) \in BOOLEAN
  BY DEF TakesRouter
<1> QED BY <1>3, <1>4

(* What a step inside a walk owes the invariant: the frames below stay,    *)
(* what the innermost one awaited is claimed or still awaited, and a body  *)
(* entered by a new edge awaits what the edge handed it.                   *)
LEMMA StepKeepsSites ==
  ASSUME TypeInv, SiteInv, stack # <<>>,
         UNCHANGED <<unit, pass, outright>>,
         Aloud => next' = next,
         claims \subseteq claims', entered \subseteq entered',
         entered' \subseteq outright \cup {key[1] : key \in DOMAIN enteredAt'},
         DOMAIN enteredAt \subseteq DOMAIN enteredAt',
         \A f \in Frames(stack') : f.todo \in Seq(Statements),
         Aloud => Frames(Tail(stack)) \subseteq Frames(stack'),
         Aloud => \A d, s : s.op = "register" /\ Awaits(Top, d, s) =>
                    IsClaimed(d, s)' \/ Pending(Frames(stack'), d, s),
         \A key \in DOMAIN enteredAt' \ DOMAIN enteredAt : \A s, j :
           Aloud /\ Registration(key[1], s, j) /\ Hands(key[2], j, s.on) =>
             Pending(Frames(stack'), key[1], s)
  PROVE  SiteInv'
<1>1. \A d, s, j : Registration(d, s, j)' <=> Registration(d, s, j)
  BY DEF Registration, RegistersOn, Declarations
<1>2. \A d, s : IsClaimed(d, s) => IsClaimed(d, s)'
  BY DEF IsClaimed
<1>3. (Done => stack = <<>>)'
  BY DEF SiteInv, Done
<1>4. EnteredSomehow'
  <2>1. pass = "summary" =>
          \A i \in DOMAIN unit.order : i < next /\ TakesRouter(unit.order[i]) =>
            unit.order[i] \in entered
    BY DEF SiteInv, EnteredSomehow
  <2>2. pass = "summary" => Aloud
    BY DEF Aloud
  <2> QED BY <2>1, <2>2, TakenAlike DEF EnteredSomehow
<1>5. ClaimedOrPending'
  <2> SUFFICES ASSUME Aloud', NEW d, NEW s, NEW j, Registration(d, s, j),
                      KnowsRouter(d, s.on, j)'
               PROVE  IsClaimed(d, s)' \/ Pending(Frames(stack'), d, s)
    BY <1>1 DEF ClaimedOrPending
  <2>1. Aloud
    BY DEF Aloud
  <2>2. CASE KnowsRouter(d, s.on, j)
    <3>1. IsClaimed(d, s) \/ Pending(Frames(stack), d, s)
      BY <2>1, <2>2 DEF SiteInv, ClaimedOrPending
    <3>2. PICK S : stack \in Seq(S)
      BY DEF TypeInv, StackTyped
    <3>3. Frames(stack) = {Top} \cup Frames(Tail(stack))
      BY <3>2, FramesPopped DEF Top
    <3>4. s.op = "register"
      BY DEF Registration, RegistersOn
    <3> QED BY <1>2, <2>1, <3>1, <3>3, <3>4 DEF Pending
  <2>3. CASE ~KnowsRouter(d, s.on, j)
    <3>1. PICK key \in DOMAIN enteredAt' : key[1] = d /\ Hands(key[2], j, s.on)
      BY <2>3 DEF KnowsRouter, EntriesOf
    <3>2. key \notin DOMAIN enteredAt
      BY <2>3, <3>1 DEF KnowsRouter, EntriesOf
    <3> QED BY <2>1, <3>1, <3>2
  <2> QED BY <2>2, <2>3
<1>6. ClaimedOrUnhanded'
  <2> SUFFICES ASSUME ~Aloud', NEW d, NEW s, NEW j, Registration(d, s, j)
               PROVE  IsClaimed(d, s)' \/ \E key \in EntriesOf(d)' : ~Hands(key[2], j, s.on)
    BY <1>1 DEF ClaimedOrUnhanded
  <2>1. IsClaimed(d, s) \/ \E key \in EntriesOf(d) : ~Hands(key[2], j, s.on)
    BY DEF SiteInv, ClaimedOrUnhanded, Aloud
  <2> QED BY <1>2, <2>1 DEF EntriesOf
<1> QED BY <1>3, <1>4, <1>5, <1>6 DEF SiteInv

(* The frames while a walk is under way.                                   *)
LEMMA WalkedFrames ==
  ASSUME TypeInv, SiteInv, stack # <<>>
  PROVE  /\ Frames(stack) = {Top} \cup Frames(Tail(stack))
         /\ Top.todo \in Seq(Statements)
         /\ \A f \in Frames(Tail(stack)) : f.todo \in Seq(Statements)
         /\ \E S : Tail(stack) \in Seq(S)
         /\ Top.silent = ~Aloud /\ entered \subseteq outright \cup {key[1] : key \in DOMAIN enteredAt}
         /\ unit \in Units
<1>1. PICK S : stack \in Seq(S)
  BY DEF TypeInv, StackTyped
<1>2. Frames(stack) = {Top} \cup Frames(Tail(stack)) /\ Tail(stack) \in Seq(S)
  BY <1>1, FramesPopped DEF Top
<1>3. pass \in {"outright", "summary", "anchor"}
  BY DEF TypeInv, TypeOK, SiteInv, Done
<1>4. Top.silent = ~Aloud
  BY <1>3, TopTyped DEF FrameTyped, Silent, Aloud
<1> QED BY <1>2, <1>4 DEF SiteInv, EnteredSomehow, TypeInv

(* The innermost frame, with some statements still to do and a scope, on   *)
(* the frames below it.                                                    *)
LEMMA ReplacedFrames ==
  ASSUME TypeInv, SiteInv, stack # <<>>, NEW todo \in Seq(Statements), NEW scope, NEW operands
  PROVE  /\ Frames(Replace(todo, scope, operands)) =
              {Frame(Top.decl, Top.seeds, todo, scope, Top.depth, Top.silent, operands)}
                \cup Frames(Tail(stack))
         /\ \E S : Replace(todo, scope, operands) \in Seq(S)
         /\ \A f \in Frames(Replace(todo, scope, operands)) : f.todo \in Seq(Statements)
<1> DEFINE g == Frame(Top.decl, Top.seeds, todo, scope, Top.depth, Top.silent, operands)
<1>1. PICK S : Tail(stack) \in Seq(S)
  BY WalkedFrames
<1>2. g.todo = todo
  BY DEF Frame
<1>3. Replace(todo, scope, operands) = <<g>> \o Tail(stack)
  BY DEF Replace
<1> HIDE DEF g
<1>4. Frames(<<g>> \o Tail(stack)) = {g} \cup Frames(Tail(stack))
      /\ <<g>> \o Tail(stack) \in Seq(S \cup {g})
  BY <1>1, FramesPushed
<1>5. /\ Frames(Replace(todo, scope, operands)) = {g} \cup Frames(Tail(stack))
      /\ \E T : Replace(todo, scope, operands) \in Seq(T)
  BY <1>3, <1>4
<1>6. \A f \in Frames(Replace(todo, scope, operands)) : f.todo \in Seq(Statements)
  BY <1>2, <1>5, WalkedFrames
<1> QED BY <1>5, <1>6 DEF g

(* The innermost frame awaits what it awaited, unless it came to it.       *)
LEMMA StillAwaited ==
  ASSUME TypeInv, SiteInv, stack # <<>>, NEW todo \in Seq(Statements), NEW scope, NEW operands,
         NEW d, NEW s, Awaits(Top, d, s), s \in Listed(todo),
         IsRouter(SimpleValue(s.on, scope, d))
  PROVE  Pending(Frames(Replace(todo, scope, operands)), d, s)
<1> DEFINE g == Frame(Top.decl, Top.seeds, todo, scope, Top.depth, Top.silent, operands)
<1>1. Awaits(g, d, s)
  BY DEF Awaits, Frame
<1>2. g \in Frames(Replace(todo, scope, operands))
  BY ReplacedFrames
<1> HIDE DEF g
<1> QED BY <1>1, <1>2 DEF Pending

(* A frame that has its first statement behind it, and may have bound one  *)
(* more name, awaits every registration but that statement.                *)
LEMMA AdvancedAwaits ==
  ASSUME TypeInv, SiteInv, stack # <<>>, Top.todo # <<>>, NEW scope,
         scope = Top.scope \/ \E name, value : scope = BindName(Top.scope, name, value)
  PROVE  /\ \E S : Advanced(scope) \in Seq(S)
         /\ \A f \in Frames(Advanced(scope)) : f.todo \in Seq(Statements)
         /\ Frames(Tail(stack)) \subseteq Frames(Advanced(scope))
         /\ \A d, s : Awaits(Top, d, s) /\ s # Statement => Pending(Frames(Advanced(scope)), d, s)
<1>1. /\ Listed(Top.todo) = {Statement} \cup Listed(Tail(Top.todo))
      /\ Tail(Top.todo) \in Seq(Statements)
  BY WalkedFrames, ListedPopped DEF Statement
<1>2. \A d, s : Awaits(Top, d, s) => IsRouter(SimpleValue(s.on, scope, d))
  BY KnownStaysKnown DEF Awaits
<1>3. \A d, s : Awaits(Top, d, s) /\ s # Statement => s \in Listed(Tail(Top.todo))
  BY <1>1 DEF Awaits
<1>4. /\ \E S : Advanced(scope) \in Seq(S)
      /\ \A f \in Frames(Advanced(scope)) : f.todo \in Seq(Statements)
      /\ Frames(Tail(stack)) \subseteq Frames(Advanced(scope))
  <2> DEFINE todo == Tail(Top.todo)
             operands == Top.operands
  <2>1. todo \in Seq(Statements)
    BY <1>1
  <2> HIDE DEF todo, operands
  <2>2. /\ \E S : Replace(todo, scope, operands) \in Seq(S)
        /\ \A f \in Frames(Replace(todo, scope, operands)) : f.todo \in Seq(Statements)
        /\ Frames(Tail(stack)) \subseteq Frames(Replace(todo, scope, operands))
    <3>1. Frames(Tail(stack)) \subseteq Frames(Replace(todo, scope, operands))
      BY <2>1, ReplacedFrames
    <3>2. \E S : Replace(todo, scope, operands) \in Seq(S)
      BY <2>1, ReplacedFrames
    <3>3. \A f \in Frames(Replace(todo, scope, operands)) : f.todo \in Seq(Statements)
      BY <2>1, ReplacedFrames
    <3> QED BY <3>1, <3>2, <3>3
  <2> QED BY <2>2 DEF Advanced, todo, operands
<1>5. ASSUME NEW d, NEW s, Awaits(Top, d, s), s # Statement
      PROVE  Pending(Frames(Advanced(scope)), d, s)
  BY <1>1, <1>2, <1>3, <1>5, StillAwaited DEF Advanced
<1> QED BY <1>4, <1>5

(* Statements that enter nothing and open no closure.                      *)
LEMMA QuietStepKeepsSites ==
  TypeInv /\ SiteInv /\ (Define \/ Register \/ Unclassified \/ Mount) => SiteInv'
<1> SUFFICES ASSUME TypeInv, SiteInv, Define \/ Register \/ Unclassified \/ Mount
             PROVE  SiteInv'
  OBVIOUS
<1>1. /\ stack # <<>> /\ Top.todo # <<>>
      /\ UNCHANGED <<unit, pass, outright, next, entered, enteredAt>>
  BY DEF Define, Register, Unclassified, Mount, At, Walking, walk
<1>2. PICK scope : /\ stack' = Advanced(scope)
                   /\ scope = Top.scope \/ \E name, value : scope = BindName(Top.scope, name, value)
  BY DEF Define, Register, Unclassified, Mount
<1>3. claims \subseteq claims'
  BY DEF Define, Register, Unclassified, Mount, walk
<1>4. /\ \A f \in Frames(stack') : f.todo \in Seq(Statements)
      /\ Frames(Tail(stack)) \subseteq Frames(stack')
      /\ \A d, s : Awaits(Top, d, s) /\ s # Statement => Pending(Frames(stack'), d, s)
  BY <1>1, <1>2, AdvancedAwaits
<1>5. ASSUME NEW d, NEW s, s.op = "register", Awaits(Top, d, s)
      PROVE  IsClaimed(d, s)' \/ Pending(Frames(stack'), d, s)
  <2>1. CASE s = Statement
    <3>1. Register
      BY <1>5, <2>1 DEF Define, Unclassified, Mount, At
    <3>2. Top.decl = d /\ ~Top.silent /\ IsRouter(SimpleValue(s.on, Top.scope, d))
      BY <1>5 DEF Awaits
    <3>3. IsRouter(ValueOf(s.on))
      <4>1. s.on.form # "call"
        BY <3>2 DEF SimpleValue, IsRouter, Nothing
      <4> QED BY <3>2, <4>1 DEF ValueOf, Value
    <3>4. [site |-> Site, value |-> ValueOf(Statement.on), distance |-> Top.depth] \in claims'
      BY <2>1, <3>1, <3>2, <3>3 DEF Register
    <3> QED BY <2>1, <3>2, <3>4 DEF IsClaimed, Site
  <2>2. CASE s # Statement
    BY <1>4, <1>5, <2>2
  <2> QED BY <2>1, <2>2
<1>6. entered \subseteq outright \cup {key[1] : key \in DOMAIN enteredAt}
  BY <1>1, WalkedFrames
<1> QED BY <1>1, <1>3, <1>4, <1>5, <1>6, StepKeepsSites

(* Whatever branch is taken, the statements after the guard follow it.     *)
LEMMA GuardKeepsSites == TypeInv /\ SiteInv /\ NilGuard => SiteInv'
<1> SUFFICES ASSUME TypeInv, SiteInv, NilGuard PROVE SiteInv'
  OBVIOUS
<1>1. /\ stack # <<>> /\ Top.todo # <<>> /\ Statement.op = "guard"
      /\ UNCHANGED <<unit, pass, outright, next, entered, enteredAt, claims>>
  BY DEF NilGuard, At, Walking, walk
<1>2. /\ Listed(Top.todo) = {Statement} \cup Listed(Tail(Top.todo))
      /\ Tail(Top.todo) \in Seq(Statements) /\ Statement \in Statements
  <2>1. Top.todo \in Seq(Statements)
    BY <1>1, WalkedFrames
  <2>2. Statement \in Statements
    BY <1>1, <2>1 DEF Statement
  <2> QED BY <1>1, <2>1, <2>2, ListedPopped DEF Statement
<1>3. Statement.then \in Seq(Statements) /\ Statement.else \in Seq(Statements)
  BY <1>1, <1>2, BodiesAreStatements
<1>4. PICK branches \in Seq(Statements) :
        stack' = Replace(branches \o Tail(Top.todo), Top.scope, Top.operands)
  <2>1. Statement.then \o Statement.else \in Seq(Statements)
    BY <1>3
  <2> QED BY <1>3, <2>1 DEF NilGuard
<1> DEFINE todo == branches \o Tail(Top.todo)
<1>5. todo \in Seq(Statements) /\ Listed(Tail(Top.todo)) \subseteq Listed(todo)
  BY <1>2, ListedAppended
<1> HIDE DEF todo
<1>6. stack' = Replace(todo, Top.scope, Top.operands)
  BY <1>4 DEF todo
<1>7. ASSUME NEW d, NEW s, s.op = "register", Awaits(Top, d, s)
      PROVE  Pending(Frames(stack'), d, s)
  <2>1. s \in Listed(todo)
    BY <1>1, <1>2, <1>5, <1>7 DEF Awaits
  <2>2. IsRouter(SimpleValue(s.on, Top.scope, d))
    BY <1>7 DEF Awaits
  <2> QED BY <1>1, <1>5, <1>6, <1>7, <2>1, <2>2, StillAwaited
<1>8. /\ \A f \in Frames(stack') : f.todo \in Seq(Statements)
      /\ Frames(Tail(stack)) \subseteq Frames(stack')
  BY <1>1, <1>5, <1>6, ReplacedFrames
<1>9. entered \subseteq outright \cup {key[1] : key \in DOMAIN enteredAt}
  BY <1>1, WalkedFrames
<1> QED BY <1>1, <1>7, <1>8, <1>9, StepKeepsSites

(* A closure goes on top of the body it stands in.                         *)
LEMMA DeriveKeepsSites == TypeInv /\ SiteInv /\ Derive => SiteInv'
<1> SUFFICES ASSUME TypeInv, SiteInv, Derive PROVE SiteInv'
  OBVIOUS
<1>1. /\ stack # <<>> /\ Top.todo # <<>> /\ Statement.op = "derive"
      /\ UNCHANGED <<unit, pass, outright, next, entered, enteredAt, claims>>
  BY DEF Derive, At, Walking, walk
<1>2. PICK closure, scope :
        /\ stack' = <<closure>> \o Advanced(scope) \/ stack' = Advanced(scope)
        /\ \E name, value : scope = BindName(Top.scope, name, value)
        /\ closure.todo = Statement.body
  <2> DEFINE receiver == ValueOf(Statement.on)
             value == DerivedValue(receiver, Statement.prefix, Site)
             inner == IF IsRouter(value) /\ Statement.param # ""
                        THEN BindRouter(Top.scope, Statement.param, value)
                        ELSE Top.scope
             f == Frame(Top.decl, NoSeeds, Statement.body, inner, Top.depth, Top.silent, <<>>)
             bound == BindName(Top.scope, Statement.to, value)
  <2>1. f.todo = Statement.body
    BY DEF Frame
  <2>2. stack' = <<f>> \o Advanced(bound) \/ stack' = Advanced(bound)
    BY DEF Derive
  <2>3. \E name, v : bound = BindName(Top.scope, name, v)
    OBVIOUS
  <2> HIDE DEF f, bound
  <2> QED BY <2>1, <2>2, <2>3
<1>3. /\ \E S : Advanced(scope) \in Seq(S)
      /\ \A f \in Frames(Advanced(scope)) : f.todo \in Seq(Statements)
      /\ Frames(Tail(stack)) \subseteq Frames(Advanced(scope))
      /\ \A d, s : Awaits(Top, d, s) /\ s # Statement => Pending(Frames(Advanced(scope)), d, s)
  BY <1>1, <1>2, AdvancedAwaits
<1>4. closure.todo \in Seq(Statements)
  <2>1. Top.todo \in Seq(Statements)
    BY <1>1, WalkedFrames
  <2>2. Statement \in Statements
    BY <1>1, <2>1 DEF Statement
  <2> QED BY <1>1, <1>2, <2>2, BodiesAreStatements
<1>5. /\ Frames(Advanced(scope)) \subseteq Frames(stack')
      /\ Frames(stack') \subseteq {closure} \cup Frames(Advanced(scope))
  <2>1. PICK S : Advanced(scope) \in Seq(S)
    BY <1>3
  <2>2. Frames(<<closure>> \o Advanced(scope)) = {closure} \cup Frames(Advanced(scope))
    BY <2>1, FramesPushed
  <2> QED BY <1>2, <2>2
<1>6. ASSUME NEW d, NEW s, s.op = "register", Awaits(Top, d, s)
      PROVE  Pending(Frames(stack'), d, s)
  BY <1>1, <1>3, <1>5, <1>6 DEF Pending
<1>7. entered \subseteq outright \cup {key[1] : key \in DOMAIN enteredAt}
  BY <1>1, WalkedFrames
<1>8. \A f \in Frames(stack') : f.todo \in Seq(Statements)
  BY <1>3, <1>4, <1>5
<1> QED BY <1>1, <1>3, <1>5, <1>6, <1>7, <1>8, StepKeepsSites

(* An edge followed in front of frames that keep what was awaited.         *)
LEMMA EdgeKeepsSites ==
  ASSUME TypeInv, SiteInv, stack # <<>>, NEW rest, \E S : rest \in Seq(S),
         \A f \in Frames(rest) : f.todo \in Seq(Statements),
         Frames(Tail(stack)) \subseteq Frames(rest),
         Aloud => \A d, s : s.op = "register" /\ Awaits(Top, d, s) =>
                    Pending(Frames(rest), d, s),
         NEW callee, NEW args, FollowEdge(callee, args, rest),
         UNCHANGED <<unit, pass, outright, next, claims>>
  PROVE  SiteInv'
<1> DEFINE seeds == Crossing(SeedsOf(args, Top.scope, Top.decl), Top.depth)
           f == EdgeFrame(callee, seeds)
           key == <<callee, seeds>>
<1>1. entered \subseteq outright \cup {k[1] : k \in DOMAIN enteredAt}
  BY WalkedFrames
<1>2. CASE EntersBody(callee, seeds)
  <2>1. /\ enteredAt' = Put(enteredAt, key, Top.depth + 1)
        /\ entered' = entered \cup {callee} /\ stack' = <<f>> \o rest
        /\ callee \in Declarations
    BY <1>2 DEF FollowEdge, EntersBody
  <2>2. /\ f.decl = callee /\ f.todo = unit.body[callee] /\ f.silent = Top.silent
        /\ f.scope = BoundScope(callee, seeds)
    BY DEF EdgeFrame, Frame
  <2>3. key[1] = callee /\ key[2] = seeds
    OBVIOUS
  <2> HIDE DEF f, key, seeds
  <2>4. DOMAIN enteredAt' = DOMAIN enteredAt \cup {key}
    BY <2>1 DEF Put
  <2>5. Frames(stack') = {f} \cup Frames(rest)
    BY <2>1, FramesPushed
  <2>6. f.todo \in Seq(Statements)
    BY <2>1, <2>2, WalkedFrames, BodiesAreStatements DEF Declarations
  <2>7. ASSUME NEW s, NEW j, Aloud, Registration(callee, s, j), Hands(seeds, j, s.on)
        PROVE  Pending(Frames(stack'), callee, s)
    <3>1. IsRouter(SimpleValue(s.on, f.scope, callee))
      BY <2>2, <2>7, WalkedFrames, HandedIsKnown
    <3>2. ~f.silent /\ s \in Listed(f.todo)
      BY <2>2, <2>7, WalkedFrames DEF Registration
    <3> QED BY <2>2, <2>5, <3>1, <3>2 DEF Pending, Awaits
  <2>8. entered' \subseteq outright \cup {k[1] : k \in DOMAIN enteredAt'}
    BY <1>1, <2>1, <2>3, <2>4
  <2>9. \A k \in DOMAIN enteredAt' \ DOMAIN enteredAt : \A s, j :
          Aloud /\ Registration(k[1], s, j) /\ Hands(k[2], j, s.on) =>
            Pending(Frames(stack'), k[1], s)
    BY <2>3, <2>4, <2>7
  <2>10. Aloud => \A d, s : s.op = "register" /\ Awaits(Top, d, s) =>
                    Pending(Frames(stack'), d, s)
    BY <2>5 DEF Pending
  <2>11. /\ \A g \in Frames(stack') : g.todo \in Seq(Statements)
         /\ Frames(Tail(stack)) \subseteq Frames(stack')
         /\ DOMAIN enteredAt \subseteq DOMAIN enteredAt' /\ entered \subseteq entered'
    BY <2>1, <2>4, <2>5, <2>6
  <2> QED BY <2>8, <2>9, <2>10, <2>11, StepKeepsSites
<1>3. CASE ~EntersBody(callee, seeds)
  <2>1. UNCHANGED <<enteredAt, entered>> /\ stack' = rest
    BY <1>3 DEF FollowEdge
  <2> QED BY <1>1, <2>1, StepKeepsSites
<1> QED BY <1>2, <1>3

LEMMA CallKeepsSites == TypeInv /\ SiteInv /\ Call => SiteInv'
<1> SUFFICES ASSUME TypeInv, SiteInv, Call PROVE SiteInv'
  OBVIOUS
<1> DEFINE value == ThroughHelper(Statement.args, Top.scope, Top.decl)
           scope == BindName(Top.scope, Statement.to, value)
           after == Advanced(scope)
<1>1. /\ stack # <<>> /\ Top.todo # <<>> /\ Statement.op = "call"
      /\ FollowEdge(Statement.callee, Statement.args, after)
      /\ UNCHANGED <<unit, pass, outright, next, claims>>
  BY DEF Call, At, Walking
<1> HIDE DEF value
<1>2. \E name, v : scope = BindName(Top.scope, name, v)
  OBVIOUS
<1> HIDE DEF scope
<1>3. /\ \E S : after \in Seq(S)
      /\ \A f \in Frames(after) : f.todo \in Seq(Statements)
      /\ Frames(Tail(stack)) \subseteq Frames(after)
      /\ \A d, s : Awaits(Top, d, s) /\ s # Statement => Pending(Frames(after), d, s)
  BY <1>1, <1>2, AdvancedAwaits
<1>4. \A d, s : s.op = "register" /\ Awaits(Top, d, s) => Pending(Frames(after), d, s)
  BY <1>1, <1>3
<1> HIDE DEF after
<1> QED BY <1>1, <1>3, <1>4, EdgeKeepsSites

(* The operands of a return are looked at in silence.                      *)
LEMMA OperandKeepsSites == TypeInv /\ SiteInv /\ (SkipOperand \/ FollowOperand) => SiteInv'
<1> SUFFICES ASSUME TypeInv, SiteInv, SkipOperand \/ FollowOperand PROVE SiteInv'
  OBVIOUS
<1>1. /\ stack # <<>> /\ Top.operands # <<>>
      /\ UNCHANGED <<unit, pass, outright, next, claims>>
  BY DEF SkipOperand, FollowOperand, AtOperand, Walking, walk, result
<1>2. ~Aloud
  BY <1>1, TopTyped DEF FrameTyped, Silent, Aloud
<1>3. <<>> \in Seq(Statements)
  OBVIOUS
<1>4. /\ \E S : NextOperand \in Seq(S)
      /\ \A f \in Frames(NextOperand) : f.todo \in Seq(Statements)
      /\ Frames(Tail(stack)) \subseteq Frames(NextOperand)
  <2> DEFINE left == Tail(Top.operands)
             none == <<>>
  <2>1. none \in Seq(Statements)
    BY <1>3
  <2> HIDE DEF left, none
  <2>2. \E S : Replace(none, Top.scope, left) \in Seq(S)
    BY <1>1, <2>1, ReplacedFrames
  <2>3. \A f \in Frames(Replace(none, Top.scope, left)) : f.todo \in Seq(Statements)
    BY <1>1, <2>1, ReplacedFrames
  <2>4. Frames(Tail(stack)) \subseteq Frames(Replace(none, Top.scope, left))
    BY <1>1, <2>1, ReplacedFrames
  <2>5. NextOperand = Replace(none, Top.scope, left)
    BY DEF NextOperand, left, none
  <2> QED BY <2>2, <2>3, <2>4, <2>5
<1>5. entered \subseteq outright \cup {key[1] : key \in DOMAIN enteredAt}
  BY <1>1, WalkedFrames
<1>6. CASE SkipOperand
  <2>1. stack' = NextOperand /\ UNCHANGED <<entered, enteredAt>>
    BY <1>6 DEF SkipOperand, walk
  <2> QED BY <1>1, <1>2, <1>4, <1>5, <2>1, StepKeepsSites
<1>7. CASE FollowOperand
  <2> DEFINE d == Operand.callee
             f == FollowFrame(d, 0, Top.depth + 1)
  <2>1. \/ FollowEdge(d, Operand.args, <<f>> \o NextOperand) /\ d \in Declarations
        \/ FollowEdge(d, Operand.args, NextOperand)
    BY <1>7 DEF FollowOperand
  <2>2. f.todo = unit.body[d]
    BY DEF FollowFrame, Frame
  <2>3. d \in Declarations => f.todo \in Seq(Statements)
    BY <1>1, <2>2, WalkedFrames, BodiesAreStatements DEF Declarations
  <2> HIDE DEF f, d
  <2>4. PICK S : NextOperand \in Seq(S)
    BY <1>4
  <2>5. Frames(<<f>> \o NextOperand) = {f} \cup Frames(NextOperand)
        /\ <<f>> \o NextOperand \in Seq(S \cup {f})
    BY <2>4, FramesPushed
  <2>6. PICK rest : /\ FollowEdge(d, Operand.args, rest) /\ \E T : rest \in Seq(T)
                    /\ \A g \in Frames(rest) : g.todo \in Seq(Statements)
                    /\ Frames(Tail(stack)) \subseteq Frames(rest)
    BY <1>4, <2>1, <2>3, <2>5
  <2> QED BY <1>1, <1>2, <2>6, EdgeKeepsSites
<1> QED BY <1>6, <1>7

(* A walk that ends has nothing left to wait for.                          *)
LEMMA ReturnKeepsSites == TypeInv /\ SiteInv /\ (Return \/ AnchorOperand) => SiteInv'
<1> SUFFICES ASSUME TypeInv, SiteInv, Return \/ AnchorOperand PROVE SiteInv'
  OBVIOUS
<1>1. /\ stack # <<>> /\ UNCHANGED <<unit, pass, outright, entered, enteredAt, claims>>
  BY DEF Return, AnchorOperand, AtOperand, walk
<1>2. entered \subseteq outright \cup {key[1] : key \in DOMAIN enteredAt}
      /\ \A f \in Frames(Tail(stack)) : f.todo \in Seq(Statements)
  BY <1>1, WalkedFrames
<1>3. CASE Return
  <2>1. stack' = Tail(stack) /\ Top.todo = <<>> /\ (pass # "anchor" => next' = next)
    BY <1>3 DEF Return
  <2>2. \A d, s : ~Awaits(Top, d, s)
    BY <2>1 DEF Awaits, Listed
  <2> QED BY <1>1, <1>2, <2>1, <2>2, StepKeepsSites DEF Aloud
<1>4. CASE AnchorOperand
  <2>1. stack' = <<>> /\ Top.operands # <<>>
    BY <1>4 DEF AnchorOperand, AtOperand
  <2>2. ~Aloud
    BY <1>1, <2>1, TopTyped DEF FrameTyped, Silent, Aloud
  <2>3. Frames(stack') = {}
    BY <2>1 DEF Frames
  <2> QED BY <1>1, <1>2, <2>2, <2>3, StepKeepsSites
<1> QED BY <1>3, <1>4

LEMMA FollowRootKeepsSites == TypeInv /\ SiteInv /\ FollowServeRoot => SiteInv'
<1> SUFFICES ASSUME TypeInv, SiteInv, FollowServeRoot PROVE SiteInv'
  OBVIOUS
<1> DEFINE root == unit.serveRoots[next]
           f == FollowFrame(root.function, root.result, 0)
<1>1. /\ stack = <<>> /\ pass = "anchor"
      /\ UNCHANGED <<unit, pass, outright, entered, enteredAt, claims>>
      /\ stack' = stack \/ (root.function \in Declarations /\ stack' = <<f>>)
  BY DEF FollowServeRoot, Resolves, walk
<1>2. f.todo = unit.body[root.function]
  BY DEF FollowFrame, Frame
<1>3. root.function \in Declarations => f.todo \in Seq(Statements)
  BY <1>2, BodiesAreStatements DEF Declarations, TypeInv
<1> HIDE DEF f, root
<1>4. Frames(<<f>>) = {f}
  BY DEF Frames
<1>5. \A g \in Frames(stack') : g.todo \in Seq(Statements)
  BY <1>1, <1>3, <1>4 DEF SiteInv
<1> QED BY <1>1, <1>5
        DEF SiteInv, Done, Aloud, EnteredSomehow, ClaimedOrPending, ClaimedOrUnhanded,
            Registration, RegistersOn, Declarations, EntriesOf, IsClaimed

(* A pass walks a body that takes a router, or none, with what it declares.*)
LEMMA WalkKeepsSites == TypeInv /\ SiteInv /\ WalkDeclaration => SiteInv'
<1> SUFFICES ASSUME TypeInv, SiteInv, WalkDeclaration PROVE SiteInv'
  OBVIOUS
<1> DEFINE d == unit.order[next]
           f == Frame(d, NoSeeds, unit.body[d], SeededScope(d), 0, FALSE, <<>>)
<1>1. /\ stack = <<>> /\ Aloud /\ ~Done /\ next' = next + 1 /\ next \in Nat
      /\ UNCHANGED <<unit, pass, enteredAt, claims>>
      /\ next <= Len(unit.order)
  BY DEF WalkDeclaration, Aloud, Done, TypeInv, TypeOK
<1>2. /\ unit \in Units /\ unit.order \in Seq(Declarations) /\ d \in Declarations
  <2>1. unit.order \in Seq(Declarations) /\ next \in DOMAIN unit.order
    BY <1>1, OrderIsDeclared DEF TypeInv, TypeOK, Declarations
  <2> QED BY <2>1 DEF TypeInv
<1>3. f.decl = d /\ f.todo = unit.body[d] /\ f.scope = SeededScope(d) /\ f.silent = FALSE
  BY DEF Frame
<1>4. \/ entered' = entered \cup {d} /\ outright' = outright \cup {d} /\ stack' = <<f>>
      \/ /\ UNCHANGED <<entered, outright, stack>>
         /\ pass = "summary" /\ TakesRouter(d) => d \in entered
  BY DEF WalkDeclaration
<1> HIDE DEF f, d
<1>5. \A e, s, j : Registration(e, s, j)' <=> Registration(e, s, j)
  BY <1>1 DEF Registration, RegistersOn, Declarations
<1>6. Frames(stack) = {} /\ Frames(<<f>>) = {f}
  BY <1>1 DEF Frames
<1>7. f.todo \in Seq(Statements)
  BY <1>2, <1>3, BodiesAreStatements DEF Declarations
<1>8. /\ \A g \in Frames(stack') : g.todo \in Seq(Statements)
      /\ (Done => stack = <<>>)' /\ ClaimedOrUnhanded'
  BY <1>1, <1>4, <1>6, <1>7 DEF Done, Aloud, ClaimedOrUnhanded
<1>9. EnteredSomehow'
  <2>1. entered' \subseteq outright' \cup {key[1] : key \in DOMAIN enteredAt'}
    BY <1>1, <1>4 DEF SiteInv, EnteredSomehow
  <2>2. ASSUME pass' = "summary", NEW i \in DOMAIN unit.order, i < next + 1,
               TakesRouter(unit.order[i])
        PROVE  unit.order[i] \in entered'
    <3>1. i \in Nat
      BY <1>2
    <3>2. CASE i = next
      BY <1>1, <1>4, <2>2, <3>2 DEF d
    <3>3. CASE i < next
      BY <1>1, <1>4, <2>2, <3>3 DEF SiteInv, EnteredSomehow
    <3> QED BY <1>1, <2>2, <3>1, <3>2, <3>3
  <2> QED BY <1>1, <2>1, <2>2, TakenAlike DEF EnteredSomehow
<1>10. ClaimedOrPending'
  <2> SUFFICES ASSUME NEW e, NEW s, NEW j, Registration(e, s, j), KnowsRouter(e, s.on, j)'
               PROVE  IsClaimed(e, s)' \/ Pending(Frames(stack'), e, s)
    BY <1>5 DEF ClaimedOrPending
  <2>1. CASE KnowsRouter(e, s.on, j)
    <3>1. IsClaimed(e, s) \/ Pending(Frames(stack), e, s)
      BY <1>1, <2>1 DEF SiteInv, ClaimedOrPending
    <3> QED BY <1>1, <1>6, <3>1 DEF IsClaimed, Pending
  <2>2. CASE ~KnowsRouter(e, s.on, j)
    <3>1. e = d /\ stack' = <<f>>
      BY <1>1, <1>4, <2>2 DEF KnowsRouter, EntriesOf
    <3>2. IsRouter(SimpleValue(s.on, f.scope, d))
      BY <1>2, <1>3, <3>1, TakenIsKnown
    <3>3. Awaits(f, d, s)
      BY <1>3, <3>1, <3>2 DEF Awaits, Registration
    <3> QED BY <1>6, <3>1, <3>3 DEF Pending
  <2> QED BY <2>1, <2>2
<1> QED BY <1>8, <1>9, <1>10 DEF SiteInv

(* When the second pass ends, every body that takes a router was entered,  *)
(* and nothing waits any more.                                             *)
LEMMA PassKeepsSites == TypeInv /\ SiteInv /\ NextPass => SiteInv'
<1> SUFFICES ASSUME TypeInv, SiteInv, NextPass PROVE SiteInv'
  OBVIOUS
<1>1. /\ stack = <<>> /\ stack' = <<>> /\ next' = 1
      /\ UNCHANGED <<unit, outright, entered, enteredAt, claims>>
      /\ \/ pass = "outright" /\ pass' = "summary"
         \/ pass = "summary" /\ pass' = "anchor" /\ next > Len(unit.order)
         \/ pass = "anchor" /\ pass' = "done"
  BY DEF NextPass, walk
<1>2. unit \in Units /\ unit.order \in Seq(Declarations) /\ next \in Nat
      /\ \A d \in Declarations : \E i \in DOMAIN unit.order : unit.order[i] = d
  BY OrderIsDeclared DEF TypeInv, TypeOK, Declarations
<1>3. Frames(stack) = {} /\ Frames(stack') = {}
  BY <1>1 DEF Frames
<1>4. \A d, s, j : Registration(d, s, j)' <=> Registration(d, s, j)
  BY <1>1 DEF Registration, RegistersOn, Declarations
<1>5. EnteredSomehow'
  <2>1. \A i \in DOMAIN unit.order : ~(i < 1)
    BY <1>2
  <2> QED BY <1>1, <2>1 DEF SiteInv, EnteredSomehow
<1>6. ClaimedOrPending'
  BY <1>1, <1>3, <1>4
     DEF SiteInv, ClaimedOrPending, Aloud, KnowsRouter, EntriesOf, IsClaimed, Pending
<1>7. ClaimedOrUnhanded'
  <2>1. CASE ~Aloud
    BY <1>1, <1>4, <2>1 DEF SiteInv, ClaimedOrUnhanded, Aloud, EntriesOf, IsClaimed
  <2>2. CASE pass = "outright"
    BY <1>1, <2>2 DEF ClaimedOrUnhanded, Aloud
  <2>3. CASE pass = "summary"
    <3> SUFFICES ASSUME NEW d, NEW s, NEW j, Registration(d, s, j), ~IsClaimed(d, s)
                 PROVE  \E key \in EntriesOf(d) : ~Hands(key[2], j, s.on)
      BY <1>1, <1>4 DEF ClaimedOrUnhanded, EntriesOf, IsClaimed
    <3>1. ~KnowsRouter(d, s.on, j)
      BY <1>3, <2>3 DEF SiteInv, ClaimedOrPending, Aloud, Pending
    <3>2. d \in entered
      <4>1. PICK i \in DOMAIN unit.order : unit.order[i] = d
        BY <1>2 DEF Registration
      <4>2. i < next
        BY <1>1, <1>2, <2>3
      <4>3. TakesRouter(d)
        BY <1>2, TakenIsKnown
      <4> QED BY <2>3, <4>1, <4>2, <4>3 DEF SiteInv, EnteredSomehow
    <3>3. PICK key \in DOMAIN enteredAt : key[1] = d
      BY <3>1, <3>2 DEF SiteInv, EnteredSomehow, KnowsRouter
    <3> QED BY <3>1, <3>3 DEF KnowsRouter, EntriesOf
  <2> QED BY <2>1, <2>2, <2>3 DEF Aloud
<1> QED BY <1>1, <1>3, <1>5, <1>6, <1>7 DEF SiteInv

LEMMA SiteInitially == Init => SiteInv
<1> SUFFICES ASSUME Init PROVE SiteInv
  OBVIOUS
<1>1. /\ stack = <<>> /\ enteredAt = <<>> /\ entered = {} /\ outright = {}
      /\ next = 1 /\ pass = "outright"
  BY DEF Init
<1>2. Frames(stack) = {} /\ DOMAIN enteredAt = {}
  BY <1>1 DEF Frames
<1> QED BY <1>1, <1>2 DEF SiteInv, Done, EnteredSomehow, ClaimedOrPending, ClaimedOrUnhanded,
           Aloud, KnowsRouter, EntriesOf

LEMMA SiteInductive == TypeInv /\ SiteInv /\ [Next]_vars => SiteInv'
<1> SUFFICES ASSUME TypeInv, SiteInv, [Next]_vars PROVE SiteInv'
  OBVIOUS
<1>1. CASE Step
  BY <1>1, QuietStepKeepsSites, GuardKeepsSites, DeriveKeepsSites, CallKeepsSites,
     OperandKeepsSites, ReturnKeepsSites, FollowRootKeepsSites, WalkKeepsSites,
     PassKeepsSites DEF Step
<1>2. CASE UNCHANGED vars
  <2>1. UNCHANGED <<unit, pass, next, stack, entered, enteredAt, claims, outright>>
    BY <1>2 DEF vars, walk
  <2>2. \A d, s, j : Registration(d, s, j)' <=> Registration(d, s, j)
    BY <2>1 DEF Registration, RegistersOn, Declarations
  <2>3. EnteredSomehow'
    BY <2>1, TakenAlike DEF SiteInv, EnteredSomehow
  <2>4. ClaimedOrPending' /\ ClaimedOrUnhanded'
    BY <2>1, <2>2 DEF SiteInv, ClaimedOrPending, ClaimedOrUnhanded, Aloud, KnowsRouter,
       EntriesOf, IsClaimed
  <2> QED BY <2>1, <2>3, <2>4 DEF SiteInv, Done
<1> QED BY <1>1, <1>2 DEF Next, Finished

(* A registration on a router its body takes is claimed, unless only edges *)
(* that kept that router back entered the body: enterBody of               *)
(* router-scope.ts marks a body as entered whatever the edge hands it.     *)
THEOREM DropsNoHandedSite == Spec => []NoSiteDropped
<1> DEFINE IInv == TypeInv /\ SiteInv
<1>1. Init => IInv
  BY TypeInitially, SiteInitially
<1>2. IInv /\ [Next]_vars => IInv'
  BY TypeInductive, SiteInductive
<1>3. IInv => NoSiteDropped
  <2> SUFFICES ASSUME TypeInv, SiteInv, NEW d \in Declarations, NEW i \in DOMAIN unit.body[d],
                      NEW j \in DOMAIN unit.params[d], RegistersOn(d, unit.body[d][i], j)
               PROVE  LET s == unit.body[d][i]
                      IN  /\ stack = <<>> /\ Aloud /\ KnowsRouter(d, s.on, j) => IsClaimed(d, s)
                          /\ Done => \/ IsClaimed(d, s)
                                     \/ \E key \in EntriesOf(d) : ~Hands(key[2], j, s.on)
    BY DEF NoSiteDropped
  <2> DEFINE s == unit.body[d][i]
  <2>1. Registration(d, s, j)
    BY DEF Registration, Listed
  <2> HIDE DEF s
  <2>2. stack = <<>> => Frames(stack) = {}
    BY DEF Frames
  <2>3. stack = <<>> /\ Aloud /\ KnowsRouter(d, s.on, j) => IsClaimed(d, s)
    BY <2>1, <2>2 DEF SiteInv, ClaimedOrPending, Pending
  <2>4. Done => \/ IsClaimed(d, s)
                \/ \E key \in EntriesOf(d) : ~Hands(key[2], j, s.on)
    BY <2>1 DEF SiteInv, ClaimedOrUnhanded, Done, Aloud
  <2> QED BY <2>3, <2>4 DEF s
<1> QED BY <1>1, <1>2, <1>3, PTL DEF Spec

-----------------------------------------------------------------------------
(* Straight readings.  What a reading meets lies at the end of a path of   *)
(* single steps, which says of it without recursion what it is.            *)

(* A set of numbers has a least one: how the lemmas below do induction.    *)
LEMMA LeastNumber ==
  ASSUME NEW S \in SUBSET Nat, S # {}
  PROVE  \E i \in S : \A j \in S : i <= j
<1>1. PICK i \in S : \A j \in S : <<j, i>> \notin OpToRel(<, Nat)
  BY NatLessThanWellFounded, WFMin
<1>2. \A j \in S : i <= j
  <2> SUFFICES ASSUME NEW j \in S, ~(i <= j) PROVE FALSE
    OBVIOUS
  <2>1. j \in Nat /\ i \in Nat /\ j < i
    OBVIOUS
  <2>2. <<j, i>> \in OpToRel(<, Nat)
    BY <2>1 DEF OpToRel
  <2> QED BY <1>1, <2>2
<1> QED BY <1>2

IsAfter(g, p, m) ==
  g = [n \in 0..m |-> IF n = 0 THEN {p} ELSE UNION {Continues(q) : q \in g[n - 1]}]

LEMMA AfterExists ==
  ASSUME NEW p, NEW L \in Nat
  PROVE  \A m \in 0..L : \E g : IsAfter(g, p, m)
<1> DEFINE Bad == {m \in 0..L : ~\E g : IsAfter(g, p, m)}
<1> SUFFICES ASSUME Bad # {} PROVE FALSE
  OBVIOUS
<1>1. PICK m \in Bad : \A k \in Bad : m <= k
  <2>1. Bad \in SUBSET Nat
    OBVIOUS
  <2> HIDE DEF Bad
  <2> QED BY <2>1, LeastNumber
<1>2. m \in 0..L
  OBVIOUS
<1>3. CASE m = 0
  <2>1. IsAfter([n \in 0..0 |-> {p}], p, 0)
    BY DEF IsAfter
  <2> QED BY <1>3, <2>1
<1>4. CASE m # 0
  <2>1. m - 1 \in 0..L /\ m - 1 \notin Bad
    BY <1>1, <1>2, <1>4
  <2>2. PICK f : IsAfter(f, p, m - 1)
    BY <2>1
  <2> DEFINE F(S) == UNION {Continues(q) : q \in S}
             g == [n \in 0..m |-> IF n = m THEN F(f[m - 1]) ELSE f[n]]
  <2>3. \A n \in 0..(m - 1) : f[n] = IF n = 0 THEN {p} ELSE F(f[n - 1])
    BY <2>2 DEF IsAfter
  <2> HIDE DEF F
  <2>4. ASSUME NEW n \in 0..m
        PROVE  g[n] = IF n = 0 THEN {p} ELSE F(g[n - 1])
    <3>1. CASE n = m
      <4>1. g[n] = F(f[m - 1])
        BY <3>1
      <4>2. g[n - 1] = f[m - 1]
        BY <3>1, <1>2, <1>4
      <4> QED BY <3>1, <4>1, <4>2, <1>4
    <3>2. CASE n # m
      <4>1. n \in 0..(m - 1)
        BY <3>2, <1>2
      <4>2. g[n] = f[n] /\ (n # 0 => g[n - 1] = f[n - 1])
        BY <4>1, <3>2, <1>2
      <4> QED BY <4>1, <4>2, <2>3
    <3> QED BY <3>1, <3>2
  <2>5. IsAfter(g, p, m)
    <3> HIDE DEF g
    <3>1. g = [n \in 0..m |-> g[n]]
      BY DEF g
    <3>2. g = [n \in 0..m |-> IF n = 0 THEN {p} ELSE F(g[n - 1])]
      BY <2>4, <3>1
    <3> QED BY <3>2 DEF IsAfter, F
  <2> QED BY <2>5
<1> QED BY <1>3, <1>4

(* A path of n steps from p to q.                                          *)
IsPath(t, n, p, q) ==
  /\ DOMAIN t = 0..n /\ t[0] = p /\ t[n] = q
  /\ \A i \in 1..n : t[i] \in Continues(t[i - 1])

Leads(p, q) == \E n \in 0..Longest[unit] : \E t : IsPath(t, n, p, q)

ReadsByPaths == unit \in Units => \A p, q : q \in Reading(p) <=> Leads(p, q)

LEMMA ReadingIsPaths == ReadsByPaths
<1> SUFFICES ASSUME unit \in Units, NEW p, NEW q
             PROVE  q \in Reading(p) <=> Leads(p, q)
  BY DEF ReadsByPaths
<1> DEFINE L == Longest[unit]
           after == CHOOSE after : IsAfter(after, p, L)
<1>1. L \in Nat
  BY LongestIsBound
<1>2. Reading(p) = UNION {after[n] : n \in 0..L}
  BY DEF Reading, IsAfter
<1>3. IsAfter(after, p, L)
  <2>1. \E g : IsAfter(g, p, L)
    BY <1>1, AfterExists
  <2> QED BY <2>1
<1> HIDE DEF L, after
<1>4. \A n \in 0..L : after[n] = IF n = 0 THEN {p} ELSE UNION {Continues(r) : r \in after[n - 1]}
  BY <1>3 DEF IsAfter
<1>5. ASSUME q \in Reading(p) PROVE Leads(p, q)
  <2>1. PICK m \in 0..L : q \in after[m]
    BY <1>2, <1>5
  <2> DEFINE Bad == {n \in 0..L : \E r \in after[n] : ~\E t : IsPath(t, n, p, r)}
  <2>2. Bad = {}
    <3> SUFFICES ASSUME Bad # {} PROVE FALSE
      OBVIOUS
    <3>1. PICK n \in Bad : \A k \in Bad : n <= k
      <4>1. Bad \in SUBSET Nat
        BY <1>1
      <4> HIDE DEF Bad
      <4> QED BY <4>1, LeastNumber
    <3>2. PICK r \in after[n] : ~\E t : IsPath(t, n, p, r)
      OBVIOUS
    <3>3. n \in 0..L
      OBVIOUS
    <3>4. CASE n = 0
      <4> DEFINE t == [i \in 0..0 |-> p]
      <4>1. r = p
        BY <1>4, <3>2, <3>3, <3>4
      <4>2. DOMAIN t = 0..0 /\ t[0] = p /\ 1..0 = {}
        OBVIOUS
      <4> HIDE DEF t
      <4>3. IsPath(t, 0, p, p)
        BY <4>2 DEF IsPath
      <4> QED BY <3>2, <3>4, <4>1, <4>3
    <3>5. CASE n # 0
      <4>1. n - 1 \in 0..L /\ n - 1 \notin Bad
        BY <1>1, <3>1, <3>3, <3>5
      <4>2. PICK s \in after[n - 1] : r \in Continues(s)
        <5>1. after[n] = UNION {Continues(s) : s \in after[n - 1]}
          BY <1>4, <3>3, <3>5
        <5>2. r \in after[n]
          BY <3>2
        <5> QED BY ONLY <5>1, <5>2
      <4>3. PICK u : IsPath(u, n - 1, p, s)
        BY <4>1, <4>2
      <4> DEFINE t == [i \in 0..n |-> IF i = n THEN r ELSE u[i]]
      <4>4. DOMAIN t = 0..n /\ t[n] = r /\ \A i \in 0..(n - 1) : t[i] = u[i]
        BY <1>1, <3>3, <3>5
      <4> HIDE DEF t
      <4>5. t[0] = p
        BY <1>1, <3>3, <3>5, <4>3, <4>4 DEF IsPath
      <4>6. ASSUME NEW i \in 1..n PROVE t[i] \in Continues(t[i - 1])
        <5>1. CASE i = n
          <6>1. t[i - 1] = s
            BY <1>1, <3>3, <3>5, <4>3, <4>4, <5>1 DEF IsPath
          <6> QED BY <4>2, <4>4, <5>1, <6>1
        <5>2. CASE i # n
          <6>1. i \in 1..(n - 1) /\ i - 1 \in 0..(n - 1) /\ i \in 0..(n - 1)
            BY <1>1, <3>3, <5>2
          <6> QED BY <4>3, <4>4, <6>1 DEF IsPath
        <5> QED BY <5>1, <5>2
      <4>7. IsPath(t, n, p, r)
        BY <4>4, <4>5, <4>6 DEF IsPath
      <4> QED BY <3>2, <4>7
    <3> QED BY <3>4, <3>5
  <2>3. \E t : IsPath(t, m, p, q)
    BY <2>1, <2>2
  <2> QED BY <2>3 DEF Leads, L
<1>6. ASSUME Leads(p, q) PROVE q \in Reading(p)
  <2>1. PICK n \in 0..L : \E t : IsPath(t, n, p, q)
    BY <1>6 DEF Leads, L
  <2>2. PICK t : IsPath(t, n, p, q)
    BY <2>1
  <2> DEFINE Bad == {i \in 0..n : t[i] \notin after[i]}
  <2>3. Bad = {}
    <3> SUFFICES ASSUME Bad # {} PROVE FALSE
      OBVIOUS
    <3>1. PICK i \in Bad : \A k \in Bad : i <= k
      <4>1. Bad \in SUBSET Nat
        BY <1>1
      <4> HIDE DEF Bad
      <4> QED BY <4>1, LeastNumber
    <3>2. i \in 0..n /\ t[i] \notin after[i] /\ i \in 0..L /\ n \in Nat
      BY <1>1
    <3>3. CASE i = 0
      BY <1>4, <2>2, <3>2, <3>3 DEF IsPath
    <3>4. CASE i # 0
      <4>1. i - 1 \in 0..n /\ i - 1 \notin Bad /\ i \in 1..n
        BY <3>1, <3>2, <3>4
      <4>2. t[i - 1] \in after[i - 1] /\ t[i] \in Continues(t[i - 1])
        BY <2>2, <4>1 DEF IsPath
      <4>3. after[i] = UNION {Continues(s) : s \in after[i - 1]}
        BY <1>4, <3>2, <3>4
      <4>4. t[i] \in after[i]
        BY ONLY <4>2, <4>3
      <4> QED BY <3>2, <4>4
    <3> QED BY <3>3, <3>4
  <2>4. n \in 0..n /\ t[n] = q
    <3>1. n \in Nat
      BY <1>1
    <3> QED BY <2>2, <3>1 DEF IsPath
  <2>5. q \in after[n]
    BY <2>3, <2>4
  <2> QED BY <1>2, <2>1, <2>5
<1> QED BY <1>5, <1>6

(* A reading meets where it starts.                                        *)
LEMMA LeadsToItself == ASSUME unit \in Units, NEW p PROVE p \in Reading(p)
<1> DEFINE t == [i \in 0..0 |-> p]
<1>1. DOMAIN t = 0..0 /\ t[0] = p /\ 1..0 = {}
  OBVIOUS
<1> HIDE DEF t
<1>2. IsPath(t, 0, p, p)
  BY <1>1 DEF IsPath
<1>3. 0 \in 0..Longest[unit]
  BY LongestIsBound
<1> QED BY <1>2, <1>3, ReadingIsPaths DEF Leads, ReadsByPaths

(* What a position leads to, it leads to by one of its continuations.      *)
LEMMA LeadsByContinuing ==
  ASSUME unit \in Units, NEW p, NEW q \in Reading(p), q # p
  PROVE  \E r \in Continues(p) : q \in Reading(r)
<1>1. Longest[unit] \in Nat
  BY LongestIsBound
<1>2. PICK n \in 0..Longest[unit] : \E t : IsPath(t, n, p, q)
  BY ReadingIsPaths DEF ReadsByPaths, Leads
<1>3. PICK t : IsPath(t, n, p, q)
  BY <1>2
<1>4. n # 0
  BY <1>3 DEF IsPath
<1> DEFINE m == n - 1
           u == [i \in 0..m |-> t[i + 1]]
<1>5. m \in 0..Longest[unit] /\ n \in Nat /\ n = m + 1 /\ m \in Nat
  BY <1>1, <1>4
<1> HIDE DEF m
<1>6. DOMAIN u = 0..m /\ \A i \in 0..m : u[i] = t[i + 1]
  OBVIOUS
<1> HIDE DEF u
<1>7. u[0] = t[1] /\ u[m] = t[n]
  BY <1>5, <1>6
<1>8. \A i \in 1..m : u[i] \in Continues(u[i - 1])
  <2> TAKE i \in 1..m
  <2>1. i + 1 \in 1..n /\ i - 1 \in 0..m /\ i \in 0..m /\ (i + 1) - 1 = i /\ (i - 1) + 1 = i
    BY <1>5
  <2>2. t[i + 1] \in Continues(t[(i + 1) - 1])
    BY <2>1, <1>3 DEF IsPath
  <2>3. u[i] = t[i + 1] /\ u[i - 1] = t[(i - 1) + 1]
    BY <2>1, <1>6
  <2> QED BY <2>1, <2>2, <2>3
<1>9. IsPath(u, m, t[1], q)
  BY <1>3, <1>6, <1>7, <1>8 DEF IsPath
<1>10. q \in Reading(t[1])
  BY <1>5, <1>9, ReadingIsPaths DEF ReadsByPaths, Leads
<1>11. t[1] \in Continues(p)
  <2>1. 1 \in 1..n /\ 1 - 1 = 0
    BY <1>5
  <2> QED BY <2>1, <1>3 DEF IsPath
<1> QED BY <1>10, <1>11

(* One statement leaves what Remaining says it leaves.                     *)
LEMMA ContinuationLeaves ==
  ASSUME NEW p, p.todo \in Seq(Statements), NEW q \in Continues(p)
  PROVE  q.todo \in Seq(Statements) /\ q.todo \in Remaining(p.todo) /\ q.decl = p.decl
<1> DEFINE s == Head(p.todo)
           rest == Tail(p.todo)
<1>1. p.todo # <<>> /\ s \in Statements /\ rest \in Seq(Statements)
  BY DEF Continues
<1>2. q.decl = p.decl
  BY DEF Continues, Position
<1>3. q.todo = TodoAfter(p) \/ (s.op = "derive" /\ q.todo = s.body)
  <2>1. \/ q = Position(p.decl, TodoAfter(p), ScopeAfter(p))
        \/ Descends(p) /\ q = Position(p.decl, s.body, ClosureScope(p))
    BY DEF Continues
  <2>2. CASE q = Position(p.decl, TodoAfter(p), ScopeAfter(p))
    BY <2>2 DEF Position
  <2>3. CASE Descends(p) /\ q = Position(p.decl, s.body, ClosureScope(p))
    BY <2>3 DEF Position, Descends
  <2> QED BY <2>1, <2>2, <2>3
<1>4. CASE s.op = "derive" /\ q.todo = s.body
  BY <1>1, <1>2, <1>4, BodiesAreStatements DEF Remaining
<1>5. CASE q.todo = TodoAfter(p) /\ s.op # "guard"
  <2>1. <<>> \o rest = rest
    BY <1>1
  <2>2. q.todo = rest
    BY <1>5, <2>1 DEF TodoAfter
  <2> QED BY <1>1, <1>2, <1>5, <2>2 DEF Remaining
<1>6. CASE q.todo = TodoAfter(p) /\ s.op = "guard"
  <2>1. s.then \in Seq(Statements) /\ s.else \in Seq(Statements)
    BY <1>1, <1>6, BodiesAreStatements
  <2>2. s.then \o s.else \in Seq(Statements)
    BY <2>1
  <2>3. PICK b \in {s.then, s.else, s.then \o s.else} : q.todo = b \o rest
    BY <1>6 DEF TodoAfter
  <2>4. b \o rest \in Seq(Statements)
    <3>1. b \in Seq(Statements)
      BY <2>1, <2>2
    <3> QED BY <1>1, <3>1
  <2>5. b \o rest \in Remaining(p.todo)
    BY <1>1, <1>6 DEF Remaining
  <2> QED BY <1>2, <2>3, <2>4, <2>5
<1> QED BY <1>3, <1>4, <1>5, <1>6

IsLeft(g, u, d, m) ==
  g = [n \in 0..m |-> IF n = 0 THEN {u.body[d]} ELSE UNION {Remaining(todo) : todo \in g[n - 1]}]

LEMMA LeftExists ==
  ASSUME NEW u, NEW d, NEW L \in Nat
  PROVE  \A m \in 0..L : \E g : IsLeft(g, u, d, m)
<1> DEFINE Bad == {m \in 0..L : ~\E g : IsLeft(g, u, d, m)}
<1> SUFFICES ASSUME Bad # {} PROVE FALSE
  OBVIOUS
<1>1. PICK m \in Bad : \A k \in Bad : m <= k
  <2>1. Bad \in SUBSET Nat
    OBVIOUS
  <2> HIDE DEF Bad
  <2> QED BY <2>1, LeastNumber
<1>2. m \in 0..L
  OBVIOUS
<1>3. CASE m = 0
  <2>1. IsLeft([n \in 0..0 |-> {u.body[d]}], u, d, 0)
    BY DEF IsLeft
  <2> QED BY <1>3, <2>1
<1>4. CASE m # 0
  <2>1. m - 1 \in 0..L /\ m - 1 \notin Bad
    BY <1>1, <1>2, <1>4
  <2>2. PICK f : IsLeft(f, u, d, m - 1)
    BY <2>1
  <2> DEFINE F(S) == UNION {Remaining(todo) : todo \in S}
             g == [n \in 0..m |-> IF n = m THEN F(f[m - 1]) ELSE f[n]]
  <2>3. \A n \in 0..(m - 1) : f[n] = IF n = 0 THEN {u.body[d]} ELSE F(f[n - 1])
    BY <2>2 DEF IsLeft
  <2> HIDE DEF F
  <2>4. ASSUME NEW n \in 0..m
        PROVE  g[n] = IF n = 0 THEN {u.body[d]} ELSE F(g[n - 1])
    <3>1. CASE n = m
      <4>1. g[n] = F(f[m - 1])
        BY <3>1
      <4>2. g[n - 1] = f[m - 1]
        BY <3>1, <1>2, <1>4
      <4> QED BY <3>1, <4>1, <4>2, <1>4
    <3>2. CASE n # m
      <4>1. n \in 0..(m - 1)
        BY <3>2, <1>2
      <4>2. g[n] = f[n] /\ (n # 0 => g[n - 1] = f[n - 1])
        BY <4>1, <3>2, <1>2
      <4> QED BY <4>1, <4>2, <2>3
    <3> QED BY <3>1, <3>2
  <2>5. IsLeft(g, u, d, m)
    <3> HIDE DEF g
    <3>1. g = [n \in 0..m |-> g[n]]
      BY DEF g
    <3>2. g = [n \in 0..m |-> IF n = 0 THEN {u.body[d]} ELSE F(g[n - 1])]
      BY <2>4, <3>1
    <3> QED BY <3>2 DEF IsLeft, F
  <2> QED BY <2>5
<1> QED BY <1>3, <1>4

(* The reading of a body is read to its end within the bound.              *)
LEMMA ReadingContinues ==
  ASSUME unit \in Units, NEW p, p.decl \in Declarations, p.todo = unit.body[p.decl],
         NEW q \in Reading(p), NEW r \in Continues(q)
  PROVE  r \in Reading(p) /\ r.decl = p.decl
<1> DEFINE L == Longest[unit]
           d == p.decl
           left == CHOOSE left : IsLeft(left, unit, d, L)
<1>1. L \in Nat
  BY LongestIsBound
<1>2. left[L] \subseteq {<<>>}
  BY BodiesEnd DEF IsLeft, Declarations
<1>3. IsLeft(left, unit, d, L)
  <2>1. \E g : IsLeft(g, unit, d, L)
    <3> HIDE DEF L
    <3>1. L \in 0..L
      BY <1>1
    <3> QED BY <1>1, <3>1, LeftExists
  <2> QED BY <2>1
<1> HIDE DEF L, left
<1>4. \A n \in 0..L :
        left[n] = IF n = 0 THEN {unit.body[d]} ELSE UNION {Remaining(todo) : todo \in left[n - 1]}
  BY <1>3 DEF IsLeft
<1>5. PICK n \in 0..L : \E t : IsPath(t, n, p, q)
  BY ReadingIsPaths DEF ReadsByPaths, Leads, L
<1>6. PICK t : IsPath(t, n, p, q)
  BY <1>5
<1> DEFINE Good(i) == t[i].todo \in Seq(Statements) /\ t[i].todo \in left[i] /\ t[i].decl = d
           Bad == {i \in 0..n : ~Good(i)}
<1>7. n \in Nat
  BY <1>1
<1>8. unit.body[d] \in Seq(Statements)
  BY BodiesAreStatements DEF Declarations
<1>9. Bad = {}
  <2> SUFFICES ASSUME Bad # {} PROVE FALSE
    OBVIOUS
  <2>1. PICK i \in Bad : \A k \in Bad : i <= k
    <3>1. Bad \in SUBSET Nat
      BY <1>7
    <3> HIDE DEF Bad
    <3> QED BY <3>1, LeastNumber
  <2>2. i \in 0..n /\ ~Good(i) /\ i \in 0..L
    BY <1>1
  <2>3. CASE i = 0
    <3>1. t[0] = p
      BY <1>6 DEF IsPath
    <3>2. left[0] = {unit.body[d]}
      <4>1. 0 \in 0..L
        BY <1>1
      <4> QED BY <1>4, <4>1
    <3> QED BY <1>8, <2>2, <2>3, <3>1, <3>2
  <2>4. CASE i # 0
    <3>1. i - 1 \in 0..n /\ i - 1 \notin Bad /\ i \in 1..n
      BY <2>1, <2>2, <2>4
    <3>2. Good(i - 1) /\ t[i] \in Continues(t[i - 1])
      BY <1>6, <3>1 DEF IsPath
    <3>3. t[i].todo \in Seq(Statements) /\ t[i].todo \in Remaining(t[i - 1].todo) /\ t[i].decl = d
      BY <3>2, ContinuationLeaves
    <3>4. left[i] = UNION {Remaining(todo) : todo \in left[i - 1]}
      BY <1>4, <2>2, <2>4
    <3>5. t[i].todo \in left[i]
      BY <3>2, <3>3, <3>4
    <3> QED BY <2>2, <3>3, <3>5
  <2> QED BY <2>3, <2>4
<1>10. Good(n) /\ t[n] = q
  BY <1>6, <1>7, <1>9 DEF IsPath
<1>11. n # L
  <2> SUFFICES ASSUME n = L PROVE FALSE
    OBVIOUS
  <2>1. q.todo = <<>>
    BY <1>2, <1>10
  <2> QED BY <2>1 DEF Continues
<1> DEFINE m == n + 1
           u == [i \in 0..m |-> IF i = m THEN r ELSE t[i]]
<1>12. m \in 0..L /\ m \in Nat /\ n = m - 1
  BY <1>1, <1>7, <1>11
<1> HIDE DEF m
<1>13. DOMAIN u = 0..m /\ u[m] = r /\ \A i \in 0..n : u[i] = t[i]
  BY <1>7, <1>12
<1> HIDE DEF u
<1>14. u[0] = p
  BY <1>6, <1>7, <1>13 DEF IsPath
<1>15. ASSUME NEW i \in 1..m PROVE u[i] \in Continues(u[i - 1])
  <2>1. CASE i = m
    <3>1. u[i - 1] = q
      BY <1>7, <1>10, <1>12, <1>13, <2>1
    <3> QED BY <1>13, <2>1, <3>1
  <2>2. CASE i # m
    <3>1. i \in 1..n /\ i - 1 \in 0..n /\ i \in 0..n
      BY <1>7, <1>12, <2>2
    <3> QED BY <1>6, <1>13, <3>1 DEF IsPath
  <2> QED BY <2>1, <2>2
<1>16. IsPath(u, m, p, r)
  BY <1>13, <1>14, <1>15 DEF IsPath
<1>17. r \in Reading(p)
  BY <1>12, <1>16, ReadingIsPaths DEF ReadsByPaths, Leads, L
<1>18. r.decl = p.decl
  BY <1>10, ContinuationLeaves
<1> QED BY <1>17, <1>18

(* What the readings of an unchanged unit are made of does not change.     *)
LEMMA ReadingAlike == ASSUME UNCHANGED unit, unit \in Units PROVE \A p : Reading(p)' = Reading(p)
<1>1. ReadsByPaths' /\ ReadsByPaths
  BY ReadingIsPaths, PTL
<1>2. \A p, q : Leads(p, q)' <=> Leads(p, q)
  BY DEF Leads
<1>3. \A p, q : q \in Reading(p)' <=> q \in Reading(p)
  BY <1>1, <1>2 DEF ReadsByPaths
<1> SUFFICES ASSUME NEW p PROVE Reading(p)' = Reading(p)
  OBVIOUS
<1>4. \A q : q \in Reading(p)' <=> q \in Reading(p)
  BY <1>3
<1> QED BY <1>4

LEMMA SeedsAlike ==
  ASSUME UNCHANGED unit
  PROVE  \A args, scope, d : SeedsOf(args, scope, d)' = SeedsOf(args, scope, d)
<1>1. \A expr, scope, d : RecordArgument(expr, scope, d)' = RecordArgument(expr, scope, d)
  BY DEF RecordArgument
<1> QED BY <1>1 DEF SeedsOf

(* BoundScope, of the parameters alone.                                    *)
Bound(params, seeds) ==
  LET routers == {i \in DOMAIN params \cap DOMAIN seeds : IsRouter(seeds[i].value)}
      records == {i \in DOMAIN params \cap DOMAIN seeds : seeds[i].record # NoRecord}
      at(name, S) == CHOOSE i \in S : params[i].name = name
  IN  [bindings |-> [n \in {params[i].name : i \in routers} |-> seeds[at(n, routers)].value],
       records  |-> [n \in {params[i].name : i \in records} |-> seeds[at(n, records)].record],
       defined  |-> {params[i].name : i \in routers}]

(* SeededScope, of the parameters and the struct types alone.              *)
Unproven(fields, type) ==
  IF /\ type \in DOMAIN fields
     /\ \E f \in DOMAIN fields[type] : fields[type][f] = "Router"
    THEN [f \in DOMAIN fields[type] |->
            IF fields[type][f] = "Router" THEN Lost("cross_boundary") ELSE Plain(<<>>)]
    ELSE NoRecord

Seeded(params, fields) ==
  LET routers == {i \in DOMAIN params : params[i].type = "Router"}
      records == {i \in DOMAIN params : Unproven(fields, params[i].type) # NoRecord}
      typeOf(name) == params[CHOOSE i \in records : params[i].name = name].type
  IN  [bindings |-> [n \in {params[i].name : i \in routers} |-> Lost("cross_boundary")],
       records  |-> [n \in {params[i].name : i \in records} |-> Unproven(fields, typeOf(n))],
       defined  |-> {params[i].name : i \in routers}]

ScopesOfParameters ==
  /\ \A d, seeds : BoundScope(d, seeds) = Bound(unit.params[d], seeds)
  /\ \A d : SeededScope(d) = Seeded(unit.params[d], unit.fields)

LEMMA ScopesByParameters == ScopesOfParameters
<1>1. \A d, seeds : BoundScope(d, seeds) = Bound(unit.params[d], seeds)
  BY DEF BoundScope, Bound
<1>2. \A d : SeededScope(d) = Seeded(unit.params[d], unit.fields)
  BY DEF SeededScope, Seeded, UnprovenRecord, Unproven
<1> QED BY <1>1, <1>2 DEF ScopesOfParameters

LEMMA ScopesAlike ==
  ASSUME UNCHANGED unit
  PROVE  /\ \A d, seeds : BoundScope(d, seeds)' = BoundScope(d, seeds)
         /\ \A d : SeededScope(d)' = SeededScope(d)
<1>1. ScopesOfParameters /\ ScopesOfParameters'
  BY ScopesByParameters, PTL
<1> QED BY <1>1 DEF ScopesOfParameters

LEMMA CallsAlike ==
  ASSUME UNCHANGED unit
  PROVE  /\ \A p : SeedsAt(p)' = SeedsAt(p)
         /\ \A p : HandsOn(p)' <=> HandsOn(p)
         /\ \A p, n : Called(p, n)' = Called(p, n)
<1>1. \A p : SeedsAt(p)' = SeedsAt(p)
  BY SeedsAlike DEF SeedsAt
<1>2. \A p : HandsOn(p)' <=> HandsOn(p)
  BY <1>1 DEF HandsOn, Declarations
<1>3. \A p, n : Called(p, n)' = Called(p, n)
  <2> SUFFICES ASSUME NEW p, NEW n PROVE Called(p, n)' = Called(p, n)
    OBVIOUS
  <2>1. SeedsAt(p)' = SeedsAt(p)
    BY <1>1
  <2> DEFINE seeds == Crossing(SeedsAt(p), n)
  <2>2. seeds' = seeds
    BY <2>1
  <2> QED BY <2>2, ScopesAlike DEF Called
<1> QED BY <1>1, <1>2, <1>3

LEMMA ReadingOfAlike ==
  ASSUME UNCHANGED unit, unit \in Units PROVE \A s : ReadingOf(s)' = ReadingOf(s)
BY ReadingAlike DEF ReadingOf

-----------------------------------------------------------------------------
(* Levels.                                                                 *)

Levelled ==
  /\ Level[0] = {State(d, SeededScope(d)) : d \in outright}
  /\ \A n \in 0..(MAX_CALL_EDGES - 1) : Level[n + 1] = Successors(Level[n], n)

LEMMA LevelByLevel == Levelled
<1> DEFINE zero == {State(d, SeededScope(d)) : d \in outright}
           one == Successors(zero, 0)
           two == Successors(one, 1)
           three == Successors(two, 2)
           L(level) == level = [n \in 0..MAX_CALL_EDGES |->
                                  IF n = 0 THEN zero ELSE Successors(level[n - 1], n - 1)]
           all == [n \in 0..3 |-> IF n = 0 THEN zero ELSE IF n = 1 THEN one
                                  ELSE IF n = 2 THEN two ELSE three]
<1>1. Level = CHOOSE level : L(level)
  BY DEF Level
<1>2. \A n \in 0..3 : all[n] = IF n = 0 THEN zero ELSE Successors(all[n - 1], n - 1)
  <2> HIDE DEF zero
  <2>1. all[0] = zero /\ all[1] = Successors(all[0], 0) /\ all[2] = Successors(all[1], 1)
        /\ all[3] = Successors(all[2], 2)
    OBVIOUS
  <2> HIDE DEF all
  <2>2. \A n \in 0..3 : n = 0 \/ n = 1 \/ n = 2 \/ n = 3
    OBVIOUS
  <2>3. 1 - 1 = 0 /\ 2 - 1 = 1 /\ 3 - 1 = 2
    OBVIOUS
  <2> QED BY <2>1, <2>2, <2>3
<1>3. L(all)
  <2>1. all = [n \in 0..3 |-> all[n]]
    OBVIOUS
  <2> HIDE DEF all, zero
  <2>2. all = [n \in 0..3 |-> IF n = 0 THEN zero ELSE Successors(all[n - 1], n - 1)]
    BY <1>2, <2>1
  <2> QED BY <2>2 DEF MAX_CALL_EDGES
<1> HIDE DEF zero, all
<1>4. L(Level)
  BY <1>1, <1>3
<1>5. \A n \in 0..3 : Level[n] = IF n = 0 THEN zero ELSE Successors(Level[n - 1], n - 1)
  <2> HIDE DEF L
  <2>1. Level = [n \in 0..MAX_CALL_EDGES |->
                                  IF n = 0 THEN zero ELSE Successors(Level[n - 1], n - 1)]
    BY <1>4 DEF L
  <2> QED BY <2>1 DEF MAX_CALL_EDGES
<1>6. Level[0] = zero
  BY <1>5
<1>7. ASSUME NEW n \in 0..(MAX_CALL_EDGES - 1) PROVE Level[n + 1] = Successors(Level[n], n)
  <2>1. n + 1 \in 0..3 /\ n + 1 # 0 /\ (n + 1) - 1 = n
    BY DEF MAX_CALL_EDGES
  <2> QED BY <2>1, <1>5
<1> QED BY <1>6, <1>7 DEF Levelled, zero

(* The levels of a unit only grow with the bodies walked outright.         *)
LEMMA LevelsGrow ==
  ASSUME UNCHANGED unit, unit \in Units, outright \subseteq outright'
  PROVE  \A n \in 0..MAX_CALL_EDGES : Level[n] \subseteq Level'[n]
<1>1. Levelled /\ Levelled'
  BY LevelByLevel, PTL
<1>2. \A n \in 0..2 : Level[n + 1] = Successors(Level[n], n) /\ Level'[n + 1] = Successors(Level[n], n)'
  BY <1>1 DEF Levelled, MAX_CALL_EDGES
<1>3. ASSUME NEW n \in 0..2, Level[n] \subseteq Level'[n]
      PROVE  Level[n + 1] \subseteq Level'[n + 1]
  <2> SUFFICES ASSUME NEW s \in Successors(Level[n], n) PROVE s \in Successors(Level[n], n)'
    BY <1>2
  <2>1. PICK p \in UNION {ReadingOf(t) : t \in Level[n]} : HandsOn(p) /\ s = Called(p, n)
    BY DEF Successors
  <2>2. PICK t \in Level[n] : p \in ReadingOf(t)
    BY <2>1
  <2>3. t \in Level'[n] /\ p \in ReadingOf(t)'
    BY <1>3, <2>2, ReadingOfAlike
  <2>4. HandsOn(p)' /\ s = Called(p, n)'
    BY <2>1, CallsAlike
  <2> QED BY <2>3, <2>4 DEF Successors
<1>4. Level[0] \subseteq Level'[0]
  BY <1>1, ScopesAlike DEF Levelled
<1>5. Level[1] \subseteq Level'[1]
  BY <1>3, <1>4
<1>6. Level[2] \subseteq Level'[2]
  BY <1>3, <1>5
<1>7. Level[3] \subseteq Level'[3]
  BY <1>3, <1>6
<1> QED BY <1>4, <1>5, <1>6, <1>7 DEF MAX_CALL_EDGES

LEMMA ClaimsAtGrow ==
  ASSUME UNCHANGED unit, unit \in Units, outright \subseteq outright'
  PROVE  \A n \in 0..MAX_CALL_EDGES : ClaimsAt(n) \subseteq ClaimsAt(n)'
<1> SUFFICES ASSUME NEW n \in 0..MAX_CALL_EDGES, NEW c \in ClaimsAt(n) PROVE c \in ClaimsAt(n)'
  OBVIOUS
<1>1. PICK p \in UNION {ReadingOf(t) : t \in Level[n]} : Registers(p) /\ c = ClaimAt(p)
  BY DEF ClaimsAt
<1>2. PICK t \in Level[n] : p \in ReadingOf(t)
  BY <1>1
<1>3. t \in Level'[n] /\ p \in ReadingOf(t)'
  BY <1>2, LevelsGrow, ReadingOfAlike
<1> QED BY <1>1, <1>3 DEF ClaimsAt

LEMMA LevelsAlike ==
  ASSUME UNCHANGED <<unit, outright>>, unit \in Units
  PROVE  \A n \in 0..MAX_CALL_EDGES : Level'[n] = Level[n]
<1>1. Levelled /\ Levelled'
  BY LevelByLevel, PTL
<1>2. \A n \in 0..2 : Level[n + 1] = Successors(Level[n], n) /\ Level'[n + 1] = Successors(Level[n], n)'
  BY <1>1 DEF Levelled, MAX_CALL_EDGES
<1>3. ASSUME NEW n \in 0..2, Level'[n] \subseteq Level[n]
      PROVE  Level'[n + 1] \subseteq Level[n + 1]
  <2> SUFFICES ASSUME NEW s \in Successors(Level[n], n)' PROVE s \in Successors(Level[n], n)
    BY <1>2
  <2>1. PICK t \in Level'[n] : \E p \in ReadingOf(t)' : HandsOn(p)' /\ s = Called(p, n)'
    BY DEF Successors
  <2> PICK p \in ReadingOf(t)' : HandsOn(p)' /\ s = Called(p, n)'
    BY <2>1
  <2>2. t \in Level[n] /\ p \in ReadingOf(t) /\ HandsOn(p) /\ s = Called(p, n)
    BY <1>3, ReadingOfAlike, CallsAlike
  <2> QED BY <2>2 DEF Successors
<1>4. Level'[0] \subseteq Level[0]
  BY <1>1, ScopesAlike DEF Levelled
<1>5. Level'[1] \subseteq Level[1]
  BY <1>3, <1>4
<1>6. Level'[2] \subseteq Level[2]
  BY <1>3, <1>5
<1>7. Level'[3] \subseteq Level[3]
  BY <1>3, <1>6
<1>8. \A n \in 0..MAX_CALL_EDGES : Level'[n] \subseteq Level[n]
  BY <1>4, <1>5, <1>6, <1>7 DEF MAX_CALL_EDGES
<1> QED BY <1>8, LevelsGrow

LEMMA ClaimsAtAlike ==
  ASSUME UNCHANGED <<unit, outright>>, unit \in Units
  PROVE  \A n \in 0..MAX_CALL_EDGES : ClaimsAt(n)' = ClaimsAt(n)
BY LevelsAlike, ReadingOfAlike DEF ClaimsAt

LEMMA MountsAtAlike ==
  ASSUME UNCHANGED <<unit, outright>>, unit \in Units
  PROVE  \A n \in 0..MAX_CALL_EDGES : MountsAt(n)' = MountsAt(n)
BY LevelsAlike, ReadingOfAlike DEF MountsAt

-----------------------------------------------------------------------------
(* The nearest walk wins.  While the passes run, what is open lies on the  *)
(* way of some path, and what a body that was entered leads to is handled  *)
(* at the distance on record or still in sight of an open frame.           *)

PositionOf(f) == Position(f.decl, f.todo, f.scope)

OnAPath(f) ==
  f.depth <= MAX_CALL_EDGES => \E s \in Level[f.depth] : PositionOf(f) \in ReadingOf(s)

ClaimedByLevel(e) ==
  e.distance <= MAX_CALL_EDGES =>
    [site |-> e.site, value |-> e.value] \in ClaimsAt(e.distance)

SoundInv ==
  /\ Aloud => \A f \in Frames(stack) : OnAPath(f)
  /\ \A e \in claims : ClaimedByLevel(e)

IsMounted(m) ==
  m.key \in DOMAIN mounts /\ [prefix |-> m.prefix, parent |-> m.parent] \in mounts[m.key]

(* What the walk owes a position it read at distance n.                    *)
Handled(p, n) ==
  /\ Registers(p) => [site |-> SiteAt(p), value |-> ValueAt(p, Head(p.todo).on),
                      distance |-> n] \in claims
  /\ HandsOn(p) => Repeated(Head(p.todo).callee, Crossing(SeedsAt(p), n), n + 1)
  /\ \A m \in MountedAt(p) : IsMounted(m)

InSight(p, n) == \E f \in Frames(stack) : f.depth = n /\ p \in Reading(PositionOf(f))

ReadOut(state, n) == \A p \in ReadingOf(state) : Handled(p, n) \/ InSight(p, n)

Outset(d) == State(d, SeededScope(d))
EntryOf(key) == State(key[1], BoundScope(key[1], key[2]))

ReadInv ==
  Aloud => /\ \A d \in outright : ReadOut(Outset(d), 0)
           /\ \A key \in DOMAIN enteredAt : ReadOut(EntryOf(key), enteredAt[key])

(* Every registration of a level is claimed, there or nearer.              *)
ClaimedAsNear(c, n) ==
  \E e \in claims : e.site = c.site /\ e.value = c.value /\ e.distance <= n

LevelsClaimed ==
  ~Aloud => \A n \in 0..MAX_CALL_EDGES : \A c \in ClaimsAt(n) : ClaimedAsNear(c, n)

(* Every mount of a level is recorded.                                     *)
LevelsMounted ==
  ~Aloud => \A n \in 0..MAX_CALL_EDGES : \A m \in MountsAt(n) : IsMounted(m)

(* A level has states of declared bodies only.                             *)
LEMMA LevelsDeclared ==
  ASSUME TypeInv
  PROVE  \A n \in 0..MAX_CALL_EDGES : \A s \in Level[n] : s.decl \in Declarations
<1>1. \A d \in outright : d \in Declarations
  BY DEF TypeInv, TypeOK
<1>2. \A s \in Level[0] : s.decl \in Declarations
  BY <1>1, LevelByLevel DEF Levelled, State
<1>3. ASSUME NEW n \in 0..2, NEW s \in Level[n + 1] PROVE s.decl \in Declarations
  <2>1. s \in Successors(Level[n], n)
    BY <1>3, LevelByLevel DEF Levelled, MAX_CALL_EDGES
  <2> QED BY <2>1 DEF Successors, Called, State, HandsOn
<1>4. ASSUME NEW n \in 0..MAX_CALL_EDGES, n # 0 PROVE \A s \in Level[n] : s.decl \in Declarations
  <2>1. n - 1 \in 0..2 /\ n = (n - 1) + 1
    BY <1>4 DEF MAX_CALL_EDGES
  <2> QED BY <2>1, <1>3
<1> QED BY <1>2, <1>4

(* A step of the innermost walk is sound if what it opens continues the    *)
(* position it was at or enters what that calls, and what it claims is     *)
(* registered there.                                                       *)
LEMMA StepIsSound ==
  ASSUME TypeInv, SiteInv, SoundInv, Aloud, stack # <<>>, UNCHANGED <<unit, pass, outright>>,
         NEW p, p = PositionOf(Top),
         \A f \in Frames(stack') :
           \/ f \in Frames(Tail(stack))
           \/ f.depth = Top.depth /\ PositionOf(f) \in Continues(p)
           \/ /\ f.depth = Top.depth + 1 /\ HandsOn(p)
              /\ PositionOf(f) = Position(Called(p, Top.depth).decl,
                                          unit.body[Called(p, Top.depth).decl],
                                          Called(p, Top.depth).scope),
         \A e \in claims' :
           \/ e \in claims
           \/ /\ Registers(p) /\ e.distance = Top.depth
              /\ e.site = SiteAt(p) /\ e.value = ValueAt(p, Head(p.todo).on)
  PROVE  SoundInv'
<1>1. unit \in Units /\ Frames(stack) = {Top} \cup Frames(Tail(stack))
  BY WalkedFrames
<1>2. Top.depth \in Nat
  BY TopTyped
<1>3. \A n \in 0..MAX_CALL_EDGES : Level[n] \subseteq Level'[n] /\ ClaimsAt(n) \subseteq ClaimsAt(n)'
  BY <1>1, LevelsGrow, ClaimsAtGrow
<1>4. \A s : ReadingOf(s)' = ReadingOf(s)
  BY <1>1, ReadingOfAlike
<1>5. ASSUME NEW f, f.depth \in Nat, OnAPath(f) PROVE OnAPath(f)'
  <2> SUFFICES ASSUME f.depth <= MAX_CALL_EDGES PROVE OnAPath(f)'
    BY DEF OnAPath
  <2>1. f.depth \in 0..MAX_CALL_EDGES
    BY <1>5 DEF MAX_CALL_EDGES
  <2>2. PICK s \in Level[f.depth] : PositionOf(f) \in ReadingOf(s)
    BY <1>5 DEF OnAPath
  <2> QED BY <1>3, <1>4, <2>1, <2>2 DEF OnAPath
<1>6. ASSUME Top.depth <= MAX_CALL_EDGES
      PROVE  /\ Top.depth \in 0..MAX_CALL_EDGES
             /\ \E s \in Level[Top.depth] : p \in ReadingOf(s)
             /\ \E s \in Level[Top.depth] : p \in ReadingOf(s) /\ s.decl \in Declarations
  <2>1. Top.depth \in 0..MAX_CALL_EDGES
    BY <1>2, <1>6 DEF MAX_CALL_EDGES
  <2>2. \E s \in Level[Top.depth] : p \in ReadingOf(s)
    BY <1>1, <1>6 DEF SoundInv, OnAPath
  <2> QED BY <2>1, <2>2, LevelsDeclared
<1>7. ASSUME NEW f \in Frames(stack') PROVE OnAPath(f)'
  <2>1. CASE f \in Frames(Tail(stack))
    <3>1. f \in Frames(stack) /\ OnAPath(f)
      BY <1>1, <2>1 DEF SoundInv
    <3>2. f.depth \in Nat
      BY <3>1 DEF TypeInv, TypeOK, Frames
    <3> QED BY <1>5, <3>1, <3>2
  <2>2. CASE f.depth = Top.depth /\ PositionOf(f) \in Continues(p)
    <3> SUFFICES ASSUME Top.depth <= MAX_CALL_EDGES PROVE OnAPath(f)
      BY <1>2, <1>5, <2>2 DEF OnAPath
    <3>1. PICK s \in Level[Top.depth] : p \in ReadingOf(s) /\ s.decl \in Declarations
      BY <1>6
    <3> DEFINE o == Position(s.decl, unit.body[s.decl], s.scope)
    <3>2. o.decl = s.decl /\ o.todo = unit.body[s.decl] /\ p \in Reading(o)
      BY <3>1 DEF Position, ReadingOf
    <3> HIDE DEF o
    <3>3. PositionOf(f) \in Reading(o)
      BY <1>1, <2>2, <3>1, <3>2, ReadingContinues
    <3> QED BY <2>2, <3>3 DEF OnAPath, ReadingOf, o
  <2>3. CASE /\ f.depth = Top.depth + 1 /\ HandsOn(p)
             /\ PositionOf(f) = Position(Called(p, Top.depth).decl,
                                         unit.body[Called(p, Top.depth).decl],
                                         Called(p, Top.depth).scope)
    <3> DEFINE s == Called(p, Top.depth)
    <3> SUFFICES ASSUME Top.depth + 1 <= MAX_CALL_EDGES PROVE OnAPath(f)
      BY <1>2, <1>5, <2>3 DEF OnAPath
    <3>1. Top.depth \in 0..(MAX_CALL_EDGES - 1) /\ Top.depth <= MAX_CALL_EDGES
      BY <1>2 DEF MAX_CALL_EDGES
    <3>2. s \in Successors(Level[Top.depth], Top.depth)
      BY <1>6, <2>3, <3>1 DEF Successors
    <3>3. s \in Level[Top.depth + 1]
      BY <3>1, <3>2, LevelByLevel DEF Levelled
    <3>4. PositionOf(f) \in ReadingOf(s)
      BY <1>1, <2>3, LeadsToItself DEF ReadingOf
    <3> QED BY <2>3, <3>3, <3>4 DEF OnAPath
  <2> QED BY <2>1, <2>2, <2>3
<1>8. ASSUME NEW e \in claims' PROVE ClaimedByLevel(e)'
  <2>1. CASE e \in claims
    <3> SUFFICES ASSUME e.distance <= MAX_CALL_EDGES PROVE ClaimedByLevel(e)'
      BY DEF ClaimedByLevel
    <3>1. e.distance \in 0..MAX_CALL_EDGES
      BY <2>1 DEF TypeInv, TypeOK, MAX_CALL_EDGES
    <3>2. [site |-> e.site, value |-> e.value] \in ClaimsAt(e.distance)
      BY <2>1 DEF SoundInv, ClaimedByLevel
    <3> QED BY <1>3, <3>1, <3>2 DEF ClaimedByLevel
  <2>2. CASE /\ Registers(p) /\ e.distance = Top.depth
             /\ e.site = SiteAt(p) /\ e.value = ValueAt(p, Head(p.todo).on)
    <3> SUFFICES ASSUME Top.depth <= MAX_CALL_EDGES
                 PROVE  ClaimAt(p) \in ClaimsAt(e.distance)'
      BY <2>2 DEF ClaimedByLevel, ClaimAt
    <3>1. ClaimAt(p) \in ClaimsAt(e.distance)
      BY <1>6, <2>2 DEF ClaimsAt
    <3> QED BY <1>3, <1>6, <2>2, <3>1
  <2> QED BY <2>1, <2>2
<1> QED BY <1>7, <1>8 DEF SoundInv

(* It leaves nothing unread if it handles the position it was at, opens    *)
(* what continues it, and opens the body of every edge it enters.          *)
LEMMA StepReadsOut ==
  ASSUME TypeInv, SiteInv, ReadInv, Aloud, stack # <<>>, UNCHANGED <<unit, pass, outright>>,
         NEW p, p = PositionOf(Top),
         Frames(Tail(stack)) \subseteq Frames(stack'),
         \A q \in Continues(p) : \E f \in Frames(stack') : f.depth = Top.depth /\ PositionOf(f) = q,
         NEW depth, depth = Top.depth, Handled(p, depth)', claims \subseteq claims',
         \A m : IsMounted(m) => IsMounted(m)',
         \A key \in DOMAIN enteredAt :
           /\ key \in DOMAIN enteredAt'
           /\ enteredAt'[key] \in Nat /\ enteredAt'[key] <= enteredAt[key],
         \A key \in DOMAIN enteredAt' :
           \/ key \in DOMAIN enteredAt /\ enteredAt'[key] = enteredAt[key]
           \/ \E f \in Frames(stack') :
                /\ f.depth = enteredAt'[key]
                /\ PositionOf(f) = Position(key[1], unit.body[key[1]],
                                            BoundScope(key[1], key[2]))
  PROVE  ReadInv'
<1>1. unit \in Units /\ Frames(stack) = {Top} \cup Frames(Tail(stack))
  BY WalkedFrames
<1>2. \A s : ReadingOf(s)' = ReadingOf(s)
  BY <1>1, ReadingOfAlike
<1>3. \A q : Reading(q)' = Reading(q)
  BY <1>1, ReadingAlike
<1>4. ASSUME NEW q, NEW n \in Nat, Handled(q, n) PROVE Handled(q, n)'
  <2>1. HandsOn(q)' => HandsOn(q)
    BY CallsAlike
  <2>2. SeedsAt(q)' = SeedsAt(q)
    BY CallsAlike
  <2>3. \A d, seeds : Repeated(d, seeds, n + 1) => Repeated(d, seeds, n + 1)'
    <3> SUFFICES ASSUME NEW key \in DOMAIN enteredAt, enteredAt[key] <= n + 1
                 PROVE  key \in DOMAIN enteredAt' /\ enteredAt'[key] <= n + 1
      BY DEF Repeated
    <3>1. enteredAt[key] \in Nat
      BY DEF TypeInv, TypeOK
    <3>2. enteredAt'[key] \in Nat /\ enteredAt'[key] <= enteredAt[key] /\ key \in DOMAIN enteredAt'
      OBVIOUS
    <3> QED BY <3>1, <3>2
  <2> DEFINE seeds == Crossing(SeedsAt(q), n)
  <2>4. seeds' = seeds
    BY <2>2
  <2>5. HandsOn(q) => Repeated(Head(q.todo).callee, seeds, n + 1)
    BY <1>4 DEF Handled
  <2> HIDE DEF seeds
  <2>6. HandsOn(q)' => Repeated(Head(q.todo).callee, seeds, n + 1)'
    BY <2>1, <2>3, <2>4, <2>5
  <2>7. \A m \in MountedAt(q) : IsMounted(m)'
    BY <1>4 DEF Handled
  <2> QED BY <1>4, <2>4, <2>6, <2>7 DEF Handled, seeds
<1>5. ASSUME NEW s, NEW n \in Nat, ReadOut(s, n) PROVE ReadOut(s, n)'
  <2> SUFFICES ASSUME NEW q \in ReadingOf(s) PROVE Handled(q, n)' \/ InSight(q, n)'
    BY <1>2 DEF ReadOut
  <2>1. CASE Handled(q, n)
    BY <1>4, <2>1
  <2>2. CASE InSight(q, n)
    <3>1. PICK f \in Frames(stack) : f.depth = n /\ q \in Reading(PositionOf(f))
      BY <2>2 DEF InSight
    <3>2. CASE f \in Frames(Tail(stack))
      <4>1. f \in Frames(stack')
        BY <3>2
      <4> QED BY <1>3, <3>1, <4>1 DEF InSight
    <3>3. CASE f = Top
      <4>1. CASE q = p
        BY <3>1, <3>3, <4>1
      <4>2. CASE q # p
        <5>1. PICK r \in Continues(p) : q \in Reading(r)
          BY <1>1, <3>1, <3>3, <4>2, LeadsByContinuing
        <5>2. PICK g \in Frames(stack') : g.depth = Top.depth /\ PositionOf(g) = r
          BY <5>1
        <5>3. q \in Reading(PositionOf(g))'
          BY <1>3, <5>1, <5>2
        <5> QED BY <3>1, <3>3, <5>2, <5>3 DEF InSight
      <4> QED BY <4>1, <4>2
    <3> QED BY <1>1, <3>1, <3>2, <3>3
  <2> QED BY <1>5, <2>1, <2>2 DEF ReadOut
<1>6. Aloud' = Aloud
  BY DEF Aloud
<1>7. ASSUME NEW d \in outright' PROVE ReadOut(Outset(d), 0)'
  <2>1. Outset(d)' = Outset(d)
    BY ScopesAlike DEF Outset
  <2> DEFINE s == Outset(d)
  <2>2. ReadOut(s, 0)
    BY DEF ReadInv
  <2>3. PICK t : t = s
    OBVIOUS
  <2>4. ReadOut(t, 0)'
    BY <1>5, <2>2, <2>3
  <2> QED BY <2>1, <2>3, <2>4
<1>8. ASSUME NEW key \in DOMAIN enteredAt' PROVE ReadOut(EntryOf(key), enteredAt[key])'
  <2>1. EntryOf(key)' = EntryOf(key)
    BY ScopesAlike DEF EntryOf
  <2>2. PICK s, n : s = EntryOf(key) /\ n = enteredAt'[key]
    OBVIOUS
  <2>3. CASE key \in DOMAIN enteredAt /\ enteredAt'[key] = enteredAt[key]
    <3>1. ReadOut(s, n) /\ n \in Nat
      BY <2>2, <2>3 DEF ReadInv, TypeInv, TypeOK
    <3>2. ReadOut(s, n)'
      BY <1>5, <3>1
    <3> QED BY <2>1, <2>2, <3>2
  <2>4. CASE \E f \in Frames(stack') :
                /\ f.depth = enteredAt'[key]
                /\ PositionOf(f) = Position(key[1], unit.body[key[1]], BoundScope(key[1], key[2]))
    <3>1. PICK f \in Frames(stack') :
                /\ f.depth = n
                /\ PositionOf(f) = Position(key[1], unit.body[key[1]], BoundScope(key[1], key[2]))
      BY <2>2, <2>4
    <3>2. ReadingOf(s) = Reading(PositionOf(f))
      BY <2>2, <3>1 DEF ReadingOf, EntryOf, State
    <3>3. \A q \in ReadingOf(s)' : q \in Reading(PositionOf(f))'
      BY <1>2, <1>3, <3>2
    <3>4. ReadOut(s, n)'
      BY <3>1, <3>3 DEF ReadOut, InSight
    <3> QED BY <2>1, <2>2, <3>4
  <2> QED BY <2>3, <2>4
<1> QED BY <1>6, <1>7, <1>8 DEF ReadInv

(* What the innermost frame reads is what the reading meets there.         *)
LEMMA InnermostPosition ==
  ASSUME TypeInv, SiteInv, stack # <<>>, NEW p, p = PositionOf(Top)
  PROVE  /\ p.decl = Top.decl /\ p.todo = Top.todo /\ p.scope = Top.scope
         /\ Head(p.todo) = Statement /\ SiteAt(p) = Site
         /\ \A expr : ValueAt(p, expr) = ValueOf(expr)
         /\ Top.todo # <<>> => Tail(Top.todo) \in Seq(Statements) /\ Statement \in Statements
<1>1. p.decl = Top.decl /\ p.todo = Top.todo /\ p.scope = Top.scope
  BY DEF PositionOf, Position
<1>2. Head(p.todo) = Statement /\ SiteAt(p) = Site
  BY <1>1 DEF Statement, SiteAt, Site
<1>3. \A expr : ValueAt(p, expr) = ValueOf(expr)
  BY <1>1 DEF ValueAt, ValueOf
<1>4. Top.todo # <<>> => Tail(Top.todo) \in Seq(Statements) /\ Head(Top.todo) \in Statements
  <2> DEFINE todo == Top.todo
  <2>1. todo \in Seq(Statements)
    BY WalkedFrames
  <2> HIDE DEF todo
  <2>2. todo # <<>> => Tail(todo) \in Seq(Statements) /\ Head(todo) \in Statements
    BY <2>1
  <2> QED BY <2>2 DEF todo
<1> QED BY <1>1, <1>2, <1>3, <1>4 DEF Statement

(* The position after a statement, in a frame of the same distance.        *)
LEMMA MovedFrame ==
  ASSUME TypeInv, SiteInv, stack # <<>>, Top.todo # <<>>, NEW p, p = PositionOf(Top), NEW operands
  PROVE  \E f : /\ PositionOf(f) = Position(p.decl, TodoAfter(p), ScopeAfter(p))
                /\ f.depth = Top.depth
                /\ Frames(Replace(TodoAfter(p), ScopeAfter(p), operands)) = {f} \cup Frames(Tail(stack))
                /\ \E S : Replace(TodoAfter(p), ScopeAfter(p), operands) \in Seq(S)
<1> DEFINE todo == TodoAfter(p)
           scope == ScopeAfter(p)
           f == Frame(Top.decl, Top.seeds, todo, scope, Top.depth, Top.silent, operands)
<1>1. todo \in Seq(Statements)
  <2>1. Position(p.decl, todo, scope) \in Continues(p) /\ Position(p.decl, todo, scope).todo = todo
    BY InnermostPosition DEF Continues, Position
  <2>2. p.todo \in Seq(Statements)
    BY WalkedFrames, InnermostPosition
  <2> HIDE DEF todo, scope
  <2> QED BY <2>1, <2>2, ContinuationLeaves
<1>2. PositionOf(f) = Position(p.decl, todo, scope) /\ f.depth = Top.depth
  <2> HIDE DEF todo, scope
  <2> QED BY InnermostPosition DEF PositionOf, Position, Frame
<1> HIDE DEF todo, scope
<1>3. /\ Frames(Replace(todo, scope, operands)) = {f} \cup Frames(Tail(stack))
      /\ \E S : Replace(todo, scope, operands) \in Seq(S)
  BY <1>1, ReplacedFrames
<1> QED BY <1>2, <1>3 DEF todo, scope

NearInv == SoundInv /\ ReadInv /\ LevelsClaimed /\ LevelsMounted

(* Mounts are only added to, and what a statement mounts is added.         *)
LEMMA MountIsRecorded ==
  ASSUME ~Top.silent, NEW key, NEW record, mounts' = Recorded(key, record)
  PROVE  /\ \A m : IsMounted(m) => IsMounted(m)'
         /\ key \in DOMAIN mounts' /\ record \in mounts'[key]
<1>1. /\ DOMAIN mounts' = DOMAIN mounts \cup {key}
      /\ mounts'[key] = {record} \cup (IF key \in DOMAIN mounts THEN mounts[key] ELSE {})
      /\ \A k \in DOMAIN mounts : k # key => mounts'[k] = mounts[k]
  BY DEF Recorded, Put
<1>2. \A k \in DOMAIN mounts : mounts[k] \subseteq mounts'[k]
  BY <1>1
<1> QED BY <1>1, <1>2 DEF IsMounted

LEMMA StatementMounts ==
  ASSUME TypeInv, SiteInv, Aloud, stack # <<>>, NEW p, p = PositionOf(Top),
         \/ Define \/ Register \/ Unclassified \/ Mount \/ Derive \/ NilGuard \/ Call \/ Return
  PROVE  /\ \A m : IsMounted(m) => IsMounted(m)'
         /\ \A m \in MountedAt(p) : IsMounted(m)'
<1>1. /\ p.todo = Top.todo /\ Head(p.todo) = Statement /\ SiteAt(p) = Site
      /\ \A expr : ValueAt(p, expr) = ValueOf(expr)
  BY InnermostPosition
<1>2. ~Top.silent
  BY WalkedFrames
<1>3. CASE Mount
  <2> DEFINE parent == ValueOf(Statement.on)
             mounted == ValueOf(Statement.sub)
             record == [prefix |-> Statement.prefix, parent |-> ParentOf(parent)]
             m == [key |-> mounted.key, prefix |-> Statement.prefix, parent |-> ParentOf(parent)]
  <2>1. Top.todo # <<>> /\ Statement.op = "mount"
    BY <1>3 DEF Mount, At
  <2>2. MountedAt(p) = IF IsRouter(parent) /\ IsProven(mounted) THEN {m} ELSE {}
    BY <1>1, <2>1 DEF MountedAt, Meets
  <2>3. mounts' = IF IsRouter(parent) /\ IsProven(mounted)
                    THEN Recorded(mounted.key, record) ELSE mounts
    BY <1>3 DEF Mount
  <2>4. CASE IsRouter(parent) /\ IsProven(mounted)
    <3>1. mounts' = Recorded(mounted.key, record)
      BY <2>3, <2>4
    <3>2. m.key = mounted.key /\ [prefix |-> m.prefix, parent |-> m.parent] = record
      OBVIOUS
    <3> HIDE DEF m, record, mounted, parent
    <3>3. /\ \A n : IsMounted(n) => IsMounted(n)'
          /\ mounted.key \in DOMAIN mounts' /\ record \in mounts'[mounted.key]
      BY <1>2, <3>1, MountIsRecorded
    <3>4. \A n \in MountedAt(p) : n = m
      BY <2>2
    <3>5. ASSUME NEW n, n = m PROVE IsMounted(n)'
      BY <3>2, <3>3, <3>5 DEF IsMounted
    <3> QED BY <3>3, <3>4, <3>5
  <2>5. CASE ~(IsRouter(parent) /\ IsProven(mounted))
    BY <2>2, <2>3, <2>5 DEF IsMounted
  <2> QED BY <2>4, <2>5
<1>4. CASE Derive
  <2> DEFINE receiver == ValueOf(Statement.on)
             fresh == Statement.prefix # "" /\ IsProven(receiver)
             record == [prefix |-> Statement.prefix, parent |-> receiver.key]
             m == [key |-> Site, prefix |-> Statement.prefix, parent |-> receiver.key]
  <2>1. Top.todo # <<>> /\ Statement.op = "derive"
    BY <1>4 DEF Derive, At
  <2>2. MountedAt(p) = IF fresh THEN {m} ELSE {}
    BY <1>1, <2>1 DEF MountedAt, Meets
  <2>3. mounts' = IF fresh THEN Recorded(Site, record) ELSE mounts
    BY <1>4 DEF Derive
  <2>4. CASE fresh
    <3>1. mounts' = Recorded(Site, record)
      BY <2>3, <2>4
    <3>2. m.key = Site /\ [prefix |-> m.prefix, parent |-> m.parent] = record
      OBVIOUS
    <3>3. PICK key : key = Site
      OBVIOUS
    <3> HIDE DEF m, record, receiver, fresh
    <3>4. /\ \A n : IsMounted(n) => IsMounted(n)'
          /\ key \in DOMAIN mounts' /\ record \in mounts'[key]
      BY <1>2, <3>1, <3>3, MountIsRecorded
    <3>5. \A n \in MountedAt(p) : n = m
      BY <2>2
    <3>6. ASSUME NEW n, n = m PROVE IsMounted(n)'
      BY <3>2, <3>3, <3>4, <3>6 DEF IsMounted
    <3> QED BY <3>4, <3>5, <3>6
  <2>5. CASE ~fresh
    BY <2>2, <2>3, <2>5 DEF IsMounted
  <2> QED BY <2>4, <2>5
<1>5. CASE Define \/ Register \/ Unclassified \/ NilGuard \/ Call \/ Return
  <2>1. mounts' = mounts
    BY <1>5 DEF Define, Register, Unclassified, NilGuard, Call, Return, walk
  <2>2. Top.todo = <<>> \/ Statement.op \in {"define", "register", "use", "guard", "call"}
    BY <1>5 DEF Define, Register, Unclassified, NilGuard, Call, Return, At
  <2>3. MountedAt(p) = {}
    BY <1>1, <2>2 DEF MountedAt, Meets
  <2> QED BY <2>1, <2>3 DEF IsMounted
<1> QED BY <1>3, <1>4, <1>5

(* The statements that enter no body and open no closure.                  *)
LEMMA MovesOnNear ==
  ASSUME TypeInv, SiteInv, NearInv, Aloud, stack # <<>>, Top.todo # <<>>,
         UNCHANGED <<unit, pass, outright, enteredAt>>,
         NEW p, p = PositionOf(Top), Statement.op \notin {"derive", "call"},
         NEW operands, stack' = Replace(TodoAfter(p), ScopeAfter(p), operands),
         claims' = IF Registers(p)
                     THEN claims \cup {[site |-> Site, value |-> ValueOf(Statement.on),
                                        distance |-> Top.depth]}
                     ELSE claims,
         \A m : IsMounted(m) => IsMounted(m)',
         \A m \in MountedAt(p) : IsMounted(m)'
  PROVE  NearInv'
<1>1. /\ p.todo # <<>> /\ Head(p.todo) = Statement /\ SiteAt(p) = Site
      /\ \A expr : ValueAt(p, expr) = ValueOf(expr)
  BY InnermostPosition
<1>2. PICK f : /\ PositionOf(f) = Position(p.decl, TodoAfter(p), ScopeAfter(p))
               /\ f.depth = Top.depth /\ Frames(stack') = {f} \cup Frames(Tail(stack))
  BY MovedFrame
<1>3. Continues(p) = {Position(p.decl, TodoAfter(p), ScopeAfter(p))}
  BY <1>1 DEF Continues, Descends
<1>4. ~HandsOn(p)
  BY <1>1 DEF HandsOn, Meets
<1>5. SoundInv'
  <2>1. \A g \in Frames(stack') :
           \/ g \in Frames(Tail(stack))
           \/ g.depth = Top.depth /\ PositionOf(g) \in Continues(p)
    BY <1>2, <1>3
  <2>2. \A e \in claims' :
           \/ e \in claims
           \/ /\ Registers(p) /\ e.distance = Top.depth
              /\ e.site = SiteAt(p) /\ e.value = ValueAt(p, Head(p.todo).on)
    BY <1>1
  <2> QED BY <2>1, <2>2, StepIsSound DEF NearInv
<1>6. ReadInv'
  <2>1. PICK depth : depth = Top.depth
    OBVIOUS
  <2>2. HandsOn(p)' <=> HandsOn(p)
    BY CallsAlike
  <2>3. Handled(p, depth)'
    BY <1>1, <1>4, <2>1, <2>2 DEF Handled
  <2>4. \A q \in Continues(p) : \E g \in Frames(stack') : g.depth = Top.depth /\ PositionOf(g) = q
    BY <1>2, <1>3
  <2>5. Frames(Tail(stack)) \subseteq Frames(stack') /\ claims \subseteq claims'
    BY <1>2
  <2>6. \A key \in DOMAIN enteredAt :
           key \in DOMAIN enteredAt' /\ enteredAt'[key] \in Nat /\ enteredAt'[key] <= enteredAt[key]
    BY DEF TypeInv, TypeOK
  <2> QED BY <2>1, <2>3, <2>4, <2>5, <2>6, StepReadsOut DEF NearInv
<1>7. LevelsClaimed' /\ LevelsMounted'
  BY DEF LevelsClaimed, LevelsMounted, Aloud
<1> QED BY <1>5, <1>6, <1>7 DEF NearInv

(* What is silent leaves the claims and the levels as they are.            *)
LEMMA SilentKeepsNear ==
  ASSUME TypeInv, NearInv, ~Aloud, ~Aloud', UNCHANGED <<unit, outright, claims, mounts>>
  PROVE  NearInv'
<1>1. \A n \in 0..MAX_CALL_EDGES : ClaimsAt(n)' = ClaimsAt(n)
  BY ClaimsAtAlike DEF TypeInv
<1>2. LevelsClaimed'
  BY <1>1 DEF NearInv, LevelsClaimed, ClaimedAsNear
<1>3. ASSUME NEW e \in claims PROVE ClaimedByLevel(e)'
  <2> SUFFICES ASSUME e.distance <= MAX_CALL_EDGES PROVE ClaimedByLevel(e)'
    BY DEF ClaimedByLevel
  <2>1. e.distance \in 0..MAX_CALL_EDGES
    BY DEF TypeInv, TypeOK, MAX_CALL_EDGES
  <2> QED BY <1>1, <2>1 DEF NearInv, SoundInv, ClaimedByLevel
<1>4. LevelsMounted'
  <2>1. \A n \in 0..MAX_CALL_EDGES : MountsAt(n)' = MountsAt(n)
    BY MountsAtAlike DEF TypeInv
  <2> QED BY <2>1 DEF NearInv, LevelsMounted, IsMounted
<1> QED BY <1>2, <1>3, <1>4 DEF NearInv, SoundInv, ReadInv

LEMMA StatementKeepsNear ==
  ASSUME TypeInv, SiteInv, NearInv, Aloud,
         Define \/ Register \/ Unclassified \/ Mount \/ NilGuard
  PROVE  NearInv'
<1> DEFINE p == PositionOf(Top)
<1>1. /\ stack # <<>> /\ Top.todo # <<>> /\ UNCHANGED <<unit, pass, outright, enteredAt>>
      /\ Statement.op \in {"define", "register", "use", "mount", "guard"}
  BY DEF Define, Register, Unclassified, Mount, NilGuard, At, Walking, walk
<1>2. /\ p.decl = Top.decl /\ p.todo = Top.todo /\ p.scope = Top.scope
      /\ Head(p.todo) = Statement
      /\ \A expr : ValueAt(p, expr) = ValueOf(expr)
      /\ Tail(Top.todo) \in Seq(Statements)
  BY <1>1, InnermostPosition
<1> HIDE DEF p
<1>3. ~Top.silent
  BY <1>1, WalkedFrames
<1>4. Registers(p) <=> Statement.op = "register" /\ IsRouter(ValueOf(Statement.on))
  BY <1>1, <1>2 DEF Registers, Meets
<1>5. claims' = IF Registers(p)
                  THEN claims \cup {[site |-> Site, value |-> ValueOf(Statement.on),
                                     distance |-> Top.depth]}
                  ELSE claims
  <2>1. CASE Register
    BY <1>3, <1>4, <2>1 DEF Register, At
  <2>2. CASE Define \/ Unclassified \/ Mount \/ NilGuard
    <3>1. claims' = claims /\ Statement.op # "register"
      BY <2>2 DEF Define, Unclassified, Mount, NilGuard, At, walk
    <3> QED BY <1>4, <3>1
  <2> QED BY <2>1, <2>2
<1>6. Statement.op # "guard" => TodoAfter(p) = Tail(Top.todo)
  <2>1. <<>> \o Tail(Top.todo) = Tail(Top.todo)
    BY <1>2
  <2> QED BY <1>2, <2>1 DEF TodoAfter
<1>7. stack' = Replace(TodoAfter(p), ScopeAfter(p), Top.operands)
  <2>1. CASE Define
    <3>1. Statement.op = "define"
          /\ stack' = Advanced(BindName(Top.scope, Statement.to, ValueOf(Statement.from)))
      BY <2>1 DEF Define, At
    <3>2. ScopeAfter(p) = BindName(Top.scope, Statement.to, ValueOf(Statement.from))
      BY <1>2, <3>1 DEF ScopeAfter
    <3> QED BY <1>6, <3>1, <3>2 DEF Advanced
  <2>2. CASE Register \/ Unclassified \/ Mount
    <3>1. Statement.op \in {"register", "use", "mount"} /\ stack' = Advanced(Top.scope)
      BY <2>2 DEF Register, Unclassified, Mount, At
    <3>2. ScopeAfter(p) = Top.scope
      BY <1>2, <3>1 DEF ScopeAfter
    <3> QED BY <1>6, <3>1, <3>2 DEF Advanced
  <2>3. CASE NilGuard
    <3>1. Statement.op = "guard"
      BY <2>3 DEF NilGuard, At
    <3>2. ScopeAfter(p) = Top.scope
      BY <1>2, <3>1 DEF ScopeAfter
    <3> DEFINE proven == /\ Statement.name \in DOMAIN Top.scope.bindings
                         /\ IsProven(Top.scope.bindings[Statement.name])
               branches == IF ~proven THEN Statement.then \o Statement.else
                           ELSE IF Statement.eq THEN Statement.else ELSE Statement.then
    <3>3. stack' = Replace(branches \o Tail(Top.todo), Top.scope, Top.operands)
      BY <2>3 DEF NilGuard
    <3>4. TodoAfter(p) = branches \o Tail(Top.todo)
      BY <1>2, <3>1 DEF TodoAfter
    <3> QED BY <3>2, <3>3, <3>4
  <2> QED BY <2>1, <2>2, <2>3
<1>8. Statement.op \notin {"derive", "call"}
  BY <1>1
<1>9. p = PositionOf(Top)
  BY DEF p
<1>10. PICK r, operands : r = p /\ operands = Top.operands
  OBVIOUS
<1>11. (\A m : IsMounted(m) => IsMounted(m)') /\ \A m \in MountedAt(p) : IsMounted(m)'
  BY <1>1, <1>9, StatementMounts
<1> QED BY <1>1, <1>5, <1>7, <1>8, <1>9, <1>10, <1>11, MovesOnNear

(* A closure is opened where the reading descends into it.                 *)
LEMMA DeriveKeepsNear == ASSUME TypeInv, SiteInv, NearInv, Aloud, Derive PROVE NearInv'
<1> DEFINE q == PositionOf(Top)
<1>1. PICK p : p = q
  OBVIOUS
<1> HIDE DEF q
<1>2. /\ stack # <<>> /\ Top.todo # <<>> /\ Statement.op = "derive"
      /\ UNCHANGED <<unit, pass, outright, enteredAt, claims>>
  BY DEF Derive, At, Walking, walk
<1>3. p = PositionOf(Top)
  BY <1>1 DEF q
<1>4. /\ p.decl = Top.decl /\ p.todo = Top.todo /\ p.scope = Top.scope
      /\ Head(p.todo) = Statement /\ SiteAt(p) = Site
      /\ \A expr : ValueAt(p, expr) = ValueOf(expr)
      /\ Tail(Top.todo) \in Seq(Statements)
  BY <1>2, <1>3, InnermostPosition
<1>5. TodoAfter(p) = Tail(Top.todo)
  <2>1. <<>> \o Tail(Top.todo) = Tail(Top.todo)
    BY <1>4
  <2> QED BY <1>2, <1>4, <2>1 DEF TodoAfter
<1>6. ~HandsOn(p) /\ ~Registers(p)
  BY <1>2, <1>4 DEF HandsOn, Registers, Meets
<1> DEFINE receiver == ValueOf(Statement.on)
           value == DerivedValue(receiver, Statement.prefix, Site)
           inner == IF IsRouter(value) /\ Statement.param # ""
                      THEN BindRouter(Top.scope, Statement.param, value)
                      ELSE Top.scope
           closure == Frame(Top.decl, NoSeeds, Statement.body, inner, Top.depth, Top.silent, <<>>)
           after == Advanced(BindName(Top.scope, Statement.to, value))
<1>7. stack' = IF IsRouter(receiver) \/ Statement.to = "" THEN <<closure>> \o after ELSE after
  BY DEF Derive
<1>8. DerivedAt(p) = value
  BY <1>4 DEF DerivedAt
<1>9. inner = ClosureScope(p)
  BY <1>4, <1>8 DEF ClosureScope
<1>10. after = Replace(TodoAfter(p), ScopeAfter(p), Top.operands)
  <2>1. ScopeAfter(p) = BindName(Top.scope, Statement.to, value)
    BY <1>2, <1>4, <1>8 DEF ScopeAfter
  <2> QED BY <1>5, <2>1 DEF Advanced
<1>11. Descends(p) <=> IsRouter(receiver) \/ Statement.to = ""
  BY <1>2, <1>4 DEF Descends
<1>12. PositionOf(closure) = Position(p.decl, Head(p.todo).body, ClosureScope(p))
       /\ closure.depth = Top.depth
  <2> HIDE DEF inner
  <2> QED BY <1>4, <1>9 DEF PositionOf, Position, Frame
<1> HIDE DEF receiver, value, inner, closure, after
<1>13. PICK f : /\ PositionOf(f) = Position(p.decl, TodoAfter(p), ScopeAfter(p))
                /\ f.depth = Top.depth /\ Frames(after) = {f} \cup Frames(Tail(stack))
                /\ \E S : after \in Seq(S)
  BY <1>2, <1>3, <1>10, MovedFrame
<1>14. Frames(stack') = {f} \cup Frames(Tail(stack)) \cup (IF Descends(p) THEN {closure} ELSE {})
  <2>1. CASE Descends(p)
    <3>1. PICK S : after \in Seq(S)
      BY <1>13
    <3>2. Frames(<<closure>> \o after) = {closure} \cup Frames(after)
      BY <3>1, FramesPushed
    <3> QED BY <1>7, <1>11, <1>13, <2>1, <3>2
  <2>2. CASE ~Descends(p)
    BY <1>7, <1>11, <1>13, <2>2
  <2> QED BY <2>1, <2>2
<1>15. Continues(p) = {PositionOf(f)} \cup (IF Descends(p) THEN {PositionOf(closure)} ELSE {})
  BY <1>2, <1>4, <1>12, <1>13 DEF Continues
<1>16. SoundInv'
  <2>1. \A g \in Frames(stack') :
           \/ g \in Frames(Tail(stack))
           \/ g.depth = Top.depth /\ PositionOf(g) \in Continues(p)
    BY <1>12, <1>13, <1>14, <1>15
  <2> QED BY <1>2, <1>3, <2>1, StepIsSound DEF NearInv
<1>17. (\A m : IsMounted(m) => IsMounted(m)') /\ \A m \in MountedAt(p) : IsMounted(m)'
  BY <1>2, <1>3, StatementMounts
<1>18. ReadInv'
  <2>1. PICK depth : depth = Top.depth
    OBVIOUS
  <2>2. HandsOn(p)' <=> HandsOn(p)
    BY <1>2, CallsAlike
  <2>3. Handled(p, depth)'
    BY <1>6, <1>17, <2>2 DEF Handled
  <2>4. \A r \in Continues(p) : \E g \in Frames(stack') : g.depth = Top.depth /\ PositionOf(g) = r
    BY <1>12, <1>13, <1>14, <1>15
  <2>5. Frames(Tail(stack)) \subseteq Frames(stack') /\ claims \subseteq claims'
    BY <1>2, <1>14
  <2>6. \A key \in DOMAIN enteredAt :
           key \in DOMAIN enteredAt' /\ enteredAt'[key] \in Nat /\ enteredAt'[key] <= enteredAt[key]
    BY <1>2 DEF TypeInv, TypeOK
  <2>7. \A key \in DOMAIN enteredAt' : key \in DOMAIN enteredAt /\ enteredAt'[key] = enteredAt[key]
    BY <1>2
  <2> QED BY <1>2, <1>3, <1>17, <2>1, <2>3, <2>4, <2>5, <2>6, <2>7, StepReadsOut DEF NearInv
<1>19. LevelsClaimed' /\ LevelsMounted'
  BY <1>2 DEF LevelsClaimed, LevelsMounted, Aloud
<1> QED BY <1>16, <1>18, <1>19 DEF NearInv

(* An edge enters a body unless a walk as near or nearer carried its       *)
(* seeds.                                                                  *)
LEMMA CallKeepsNear == ASSUME TypeInv, SiteInv, NearInv, Aloud, Call PROVE NearInv'
<1> DEFINE q == PositionOf(Top)
<1>1. PICK p, depth : p = q /\ depth = Top.depth
  OBVIOUS
<1> HIDE DEF q
<1>2. /\ stack # <<>> /\ Top.todo # <<>> /\ Statement.op = "call"
      /\ UNCHANGED <<unit, pass, outright, claims>>
  BY DEF Call, At, Walking
<1>3. p = PositionOf(Top)
  BY <1>1 DEF q
<1>4. /\ p.decl = Top.decl /\ p.todo = Top.todo /\ p.scope = Top.scope
      /\ Head(p.todo) = Statement
      /\ Tail(Top.todo) \in Seq(Statements)
  BY <1>2, <1>3, InnermostPosition
<1>5. TodoAfter(p) = Tail(Top.todo)
  <2>1. <<>> \o Tail(Top.todo) = Tail(Top.todo)
    BY <1>4
  <2> QED BY <1>2, <1>4, <2>1 DEF TodoAfter
<1> DEFINE after == Advanced(BindName(Top.scope, Statement.to,
                               ThroughHelper(Statement.args, Top.scope, Top.decl)))
           callee == Statement.callee
           seeds == Crossing(SeedsOf(Statement.args, Top.scope, Top.decl), Top.depth)
           body == EdgeFrame(callee, seeds)
           key == <<callee, seeds>>
<1>6. after = Replace(TodoAfter(p), ScopeAfter(p), Top.operands)
  <2>1. ScopeAfter(p) = BindName(Top.scope, Statement.to,
                                 ThroughHelper(Statement.args, Top.scope, Top.decl))
    BY <1>2, <1>4 DEF ScopeAfter
  <2> QED BY <1>5, <2>1 DEF Advanced
<1>7. \/ /\ EntersBody(callee, seeds) /\ enteredAt' = Put(enteredAt, key, Top.depth + 1)
         /\ stack' = <<body>> \o after
      \/ ~EntersBody(callee, seeds) /\ enteredAt' = enteredAt /\ stack' = after
  BY DEF Call, FollowEdge
<1>8. SeedsAt(p) = SeedsOf(Statement.args, Top.scope, Top.decl)
  BY <1>4 DEF SeedsAt
<1>9. seeds = Crossing(SeedsAt(p), depth) /\ DOMAIN seeds = DOMAIN SeedsAt(p)
  BY <1>1, <1>8 DEF Crossing
<1>10. HandsOn(p) <=> callee \in Declarations /\ DOMAIN seeds # {}
  BY <1>2, <1>4, <1>9 DEF HandsOn, Meets
<1>11. EntersBody(callee, seeds) <=> HandsOn(p) /\ ~Repeated(callee, seeds, depth + 1)
  BY <1>1, <1>10 DEF EntersBody
<1>12. /\ PositionOf(body) = Position(callee, unit.body[callee], BoundScope(callee, seeds))
       /\ body.depth = Top.depth + 1
  <2> HIDE DEF callee, seeds
  <2> QED BY DEF PositionOf, EdgeFrame, Frame
<1>13. ~Registers(p)
  BY <1>2, <1>4 DEF Registers, Meets
<1>14. Called(p, Top.depth) = State(callee, BoundScope(callee, seeds))
  BY <1>1, <1>4, <1>9 DEF Called
<1>15. Continues(p) = {Position(p.decl, TodoAfter(p), ScopeAfter(p))}
  BY <1>2, <1>4 DEF Continues, Descends
<1>16. key[1] = callee /\ key[2] = seeds
  OBVIOUS
<1>17. Top.depth \in Nat /\ \A k \in DOMAIN enteredAt : enteredAt[k] \in Nat
  BY <1>2, TopTyped DEF TypeInv, TypeOK
<1>18. Head(p.todo).callee = callee
  BY <1>4
<1>19. Repeated(callee, seeds, depth + 1) <=> key \in DOMAIN enteredAt /\ enteredAt[key] <= depth + 1
  BY DEF Repeated
<1> HIDE DEF after, callee, seeds, body, key
<1>20. PICK f : /\ PositionOf(f) = Position(p.decl, TodoAfter(p), ScopeAfter(p))
                /\ f.depth = Top.depth /\ Frames(after) = {f} \cup Frames(Tail(stack))
                /\ \E S : after \in Seq(S)
  BY <1>2, <1>3, <1>6, MovedFrame
<1>21. Frames(stack') = {f} \cup Frames(Tail(stack)) \cup
                          (IF EntersBody(callee, seeds) THEN {body} ELSE {})
  <2>1. PICK S : after \in Seq(S)
    BY <1>20
  <2>2. Frames(<<body>> \o after) = {body} \cup Frames(after)
    BY <2>1, FramesPushed
  <2> QED BY <1>7, <1>20, <2>2
<1>22. SoundInv'
  <2>1. Called(p, Top.depth).decl = callee /\ Called(p, Top.depth).scope = BoundScope(callee, seeds)
    BY <1>14 DEF State
  <2>2. \A g \in Frames(stack') :
           \/ g \in Frames(Tail(stack))
           \/ g.depth = Top.depth /\ PositionOf(g) \in Continues(p)
           \/ /\ g.depth = Top.depth + 1 /\ HandsOn(p)
              /\ PositionOf(g) = Position(Called(p, Top.depth).decl,
                                          unit.body[Called(p, Top.depth).decl],
                                          Called(p, Top.depth).scope)
    BY <1>11, <1>12, <1>15, <1>20, <1>21, <2>1
  <2> QED BY <1>2, <1>3, <2>2, StepIsSound DEF NearInv
<1>23. key \in DOMAIN Put(enteredAt, key, Top.depth + 1)
       /\ DOMAIN Put(enteredAt, key, Top.depth + 1) = DOMAIN enteredAt \cup {key}
       /\ Put(enteredAt, key, Top.depth + 1)[key] = depth + 1
       /\ \A k \in DOMAIN enteredAt : k # key => Put(enteredAt, key, Top.depth + 1)[k] = enteredAt[k]
  BY <1>1 DEF Put
<1>24. (\A m : IsMounted(m) => IsMounted(m)') /\ \A m \in MountedAt(p) : IsMounted(m)'
  BY <1>2, <1>3, StatementMounts
<1>25. ReadInv'
  <2>1. /\ HandsOn(p)' <=> HandsOn(p)
        /\ SeedsAt(p)' = SeedsAt(p)
    BY <1>2, CallsAlike
  <2>2. HandsOn(p) => key \in DOMAIN enteredAt' /\ enteredAt'[key] <= depth + 1
    <3>1. CASE EntersBody(callee, seeds)
      BY <1>1, <1>7, <1>17, <1>23, <3>1
    <3>2. CASE ~EntersBody(callee, seeds)
      BY <1>7, <1>11, <1>19, <3>2
    <3> QED BY <3>1, <3>2
  <2>3. Handled(p, depth)'
    <3>1. Crossing(SeedsAt(p), depth)' = seeds
      BY <1>9, <2>1
    <3>2. HandsOn(p) => Repeated(Head(p.todo).callee, Crossing(SeedsAt(p), depth), depth + 1)'
      BY <1>18, <2>2, <3>1 DEF Repeated, key
    <3> QED BY <1>13, <1>24, <2>1, <3>2 DEF Handled
  <2>4. \A r \in Continues(p) : \E g \in Frames(stack') : g.depth = Top.depth /\ PositionOf(g) = r
    BY <1>15, <1>20, <1>21
  <2>5. Frames(Tail(stack)) \subseteq Frames(stack') /\ claims \subseteq claims'
    BY <1>2, <1>21
  <2>6. ASSUME NEW k \in DOMAIN enteredAt
        PROVE  k \in DOMAIN enteredAt' /\ enteredAt'[k] \in Nat /\ enteredAt'[k] <= enteredAt[k]
    <3>1. CASE EntersBody(callee, seeds) /\ k = key
      <4>1. ~(enteredAt[key] <= depth + 1)
        BY <1>11, <1>19, <3>1
      <4>2. enteredAt'[key] = depth + 1
        BY <1>7, <1>23, <3>1
      <4> QED BY <1>1, <1>7, <1>17, <1>23, <3>1, <4>1, <4>2
    <3>2. CASE ~(EntersBody(callee, seeds) /\ k = key)
      <4>1. k \in DOMAIN enteredAt' /\ enteredAt'[k] = enteredAt[k]
        BY <1>7, <1>23, <3>2
      <4> QED BY <1>17, <4>1
    <3> QED BY <3>1, <3>2
  <2>7. ASSUME NEW k \in DOMAIN enteredAt'
        PROVE  \/ k \in DOMAIN enteredAt /\ enteredAt'[k] = enteredAt[k]
               \/ \E g \in Frames(stack') :
                    /\ g.depth = enteredAt'[k]
                    /\ PositionOf(g) = Position(k[1], unit.body[k[1]], BoundScope(k[1], k[2]))
    <3>1. CASE EntersBody(callee, seeds) /\ k = key
      <4>1. enteredAt'[k] = Top.depth + 1
        BY <1>1, <1>7, <1>23, <3>1
      <4>2. body \in Frames(stack')
        BY <1>21, <3>1
      <4> QED BY <1>12, <1>16, <3>1, <4>1, <4>2
    <3>2. CASE ~(EntersBody(callee, seeds) /\ k = key)
      BY <1>7, <1>23, <3>2
    <3> QED BY <3>1, <3>2
  <2> QED BY <1>1, <1>2, <1>3, <1>24, <2>3, <2>4, <2>5, <2>6, <2>7, StepReadsOut DEF NearInv
<1>26. LevelsClaimed' /\ LevelsMounted'
  BY <1>2 DEF LevelsClaimed, LevelsMounted, Aloud
<1> QED BY <1>22, <1>25, <1>26 DEF NearInv

(* A body is left when nothing of it is left to read.                      *)
LEMMA ReturnKeepsNear == ASSUME TypeInv, SiteInv, NearInv, Aloud, Return PROVE NearInv'
<1> DEFINE q == PositionOf(Top)
<1>1. PICK p, depth : p = q /\ depth = Top.depth
  OBVIOUS
<1> HIDE DEF q
<1>2. /\ stack # <<>> /\ Top.todo = <<>> /\ stack' = Tail(stack)
      /\ UNCHANGED <<unit, pass, outright, enteredAt, claims>>
  BY DEF Return, walk
<1>3. p = PositionOf(Top) /\ p.todo = <<>>
  BY <1>1, <1>2, InnermostPosition DEF q
<1>4. Continues(p) = {} /\ ~Registers(p) /\ ~HandsOn(p)
  BY <1>3 DEF Continues, Registers, HandsOn, Meets
<1>5. SoundInv'
  BY <1>2, <1>3, StepIsSound DEF NearInv
<1>6. (\A m : IsMounted(m) => IsMounted(m)') /\ \A m \in MountedAt(p) : IsMounted(m)'
  BY <1>2, <1>3, StatementMounts
<1>7. ReadInv'
  <2>1. HandsOn(p)' <=> HandsOn(p)
    BY <1>2, CallsAlike
  <2>2. Handled(p, depth)'
    BY <1>4, <1>6, <2>1 DEF Handled
  <2>3. \A key \in DOMAIN enteredAt :
           key \in DOMAIN enteredAt' /\ enteredAt'[key] \in Nat /\ enteredAt'[key] <= enteredAt[key]
    BY <1>2 DEF TypeInv, TypeOK
  <2>4. \A key \in DOMAIN enteredAt' : key \in DOMAIN enteredAt /\ enteredAt'[key] = enteredAt[key]
    BY <1>2
  <2> QED BY <1>1, <1>2, <1>3, <1>4, <1>6, <2>2, <2>3, <2>4, StepReadsOut DEF NearInv
<1>8. LevelsClaimed' /\ LevelsMounted'
  BY <1>2 DEF LevelsClaimed, LevelsMounted, Aloud
<1> QED BY <1>5, <1>7, <1>8 DEF NearInv

(* A pass opens the body of a declaration with what it declares.           *)
LEMMA WalkKeepsNear == ASSUME TypeInv, SiteInv, NearInv, WalkDeclaration PROVE NearInv'
<1>0. PICK d, f : /\ d = unit.order[next]
                  /\ f = Frame(d, NoSeeds, unit.body[d], SeededScope(d), 0, FALSE, <<>>)
  OBVIOUS
<1>1. /\ stack = <<>> /\ Aloud /\ Aloud' /\ unit \in Units
      /\ UNCHANGED <<unit, pass, enteredAt, claims, mounts>>
      /\ \/ outright' = outright \cup {d} /\ stack' = <<f>>
         \/ outright' = outright /\ stack' = <<>>
  BY <1>0 DEF WalkDeclaration, Aloud, TypeInv
<1>2. /\ f.depth = 0
      /\ PositionOf(f) = Position(Outset(d).decl, unit.body[Outset(d).decl], Outset(d).scope)
  BY <1>0 DEF PositionOf, Frame, Outset, State
<1>3. Frames(<<>>) = {} /\ Frames(<<f>>) = {f}
  BY DEF Frames
<1>4. outright \subseteq outright'
  BY <1>1
<1>5. /\ \A s : ReadingOf(s)' = ReadingOf(s)
      /\ \A q : Reading(q)' = Reading(q)
      /\ \A e : Outset(e)' = Outset(e)
      /\ \A key : EntryOf(key)' = EntryOf(key)
  BY <1>1, ReadingOfAlike, ReadingAlike, ScopesAlike DEF Outset, EntryOf
<1>6. SoundInv'
  <2>1. ASSUME NEW g \in Frames(stack') PROVE OnAPath(g)'
    <3>1. g = f /\ d \in outright'
      BY <1>1, <1>3
    <3>2. Levelled'
      BY LevelByLevel, PTL
    <3>3. Outset(d) \in Level'[0]
      BY <1>1, <3>1, <3>2, ScopesAlike DEF Levelled, Outset
    <3>4. PositionOf(f) \in ReadingOf(Outset(d))
      BY <1>1, <1>2, LeadsToItself DEF ReadingOf
    <3> QED BY <1>2, <1>5, <3>1, <3>3, <3>4 DEF OnAPath, PositionOf
  <2>2. ASSUME NEW e \in claims' PROVE ClaimedByLevel(e)'
    <3> SUFFICES ASSUME e.distance <= MAX_CALL_EDGES PROVE ClaimedByLevel(e)'
      BY DEF ClaimedByLevel
    <3>1. e \in claims /\ e.distance \in 0..MAX_CALL_EDGES
      BY <1>1 DEF TypeInv, TypeOK, MAX_CALL_EDGES
    <3>2. [site |-> e.site, value |-> e.value] \in ClaimsAt(e.distance)
      BY <3>1 DEF NearInv, SoundInv, ClaimedByLevel
    <3>3. ClaimsAt(e.distance) \subseteq ClaimsAt(e.distance)'
      BY <1>1, <1>4, <3>1, ClaimsAtGrow
    <3> QED BY <3>2, <3>3 DEF ClaimedByLevel
  <2> QED BY <2>1, <2>2 DEF SoundInv
<1>7. ReadInv'
  <2>1. \A q, n : ~InSight(q, n)
    BY <1>1, <1>3 DEF InSight
  <2>2. ASSUME NEW q, NEW n, Handled(q, n) PROVE Handled(q, n)'
    <3>1. (HandsOn(q)' <=> HandsOn(q)) /\ SeedsAt(q)' = SeedsAt(q)
      BY <1>1, CallsAlike
    <3> QED BY <1>1, <2>2, <3>1 DEF Handled, Repeated, IsMounted
  <2>3. ASSUME NEW s, NEW n, ReadOut(s, n) PROVE ReadOut(s, n)'
    BY <1>5, <2>1, <2>2, <2>3 DEF ReadOut
  <2>4. ASSUME NEW e \in outright' PROVE ReadOut(Outset(e), 0)'
    <3>1. PICK s : s = Outset(e)
      OBVIOUS
    <3>2. CASE e \in outright
      <4>1. ReadOut(s, 0)
        BY <1>1, <3>1, <3>2 DEF NearInv, ReadInv
      <4>2. ReadOut(s, 0)'
        BY <2>3, <4>1
      <4> QED BY <1>5, <3>1, <4>2
    <3>3. CASE e \notin outright
      <4>1. e = d /\ f \in Frames(stack')
        BY <1>1, <1>3, <3>3
      <4>2. ReadingOf(s)' = Reading(PositionOf(f))'
        BY <1>2, <1>5, <3>1, <4>1 DEF ReadingOf
      <4>3. \A q \in ReadingOf(s)' : InSight(q, 0)'
        BY <1>2, <4>1, <4>2 DEF InSight
      <4>4. ReadOut(s, 0)'
        BY <4>3 DEF ReadOut
      <4> QED BY <1>5, <3>1, <4>4
    <3> QED BY <3>2, <3>3
  <2>5. ASSUME NEW key \in DOMAIN enteredAt' PROVE ReadOut(EntryOf(key), enteredAt[key])'
    <3>1. PICK s, n : s = EntryOf(key) /\ n = enteredAt[key]
      OBVIOUS
    <3>2. ReadOut(s, n)
      BY <1>1, <3>1 DEF NearInv, ReadInv
    <3>3. ReadOut(s, n)'
      BY <2>3, <3>2
    <3> QED BY <1>1, <1>5, <3>1, <3>3
  <2> QED BY <2>4, <2>5 DEF ReadInv
<1>8. LevelsClaimed' /\ LevelsMounted'
  BY <1>1 DEF LevelsClaimed, LevelsMounted
<1> QED BY <1>6, <1>7, <1>8 DEF NearInv

(* When the passes are over every state of a level was walked, at its      *)
(* distance or nearer, so its registrations are claimed and its mounts     *)
(* recorded.                                                               *)
LEMMA LevelsWalked ==
  ASSUME TypeInv, ReadInv, Aloud, stack = <<>>
  PROVE  \A n \in 0..MAX_CALL_EDGES : /\ \A c \in ClaimsAt(n) : ClaimedAsNear(c, n)
                                      /\ \A m \in MountsAt(n) : IsMounted(m)
<1> DEFINE Read(s, m) == \A p \in ReadingOf(s) : Handled(p, m)
           Walked(n) == \A s \in Level[n] : \E m \in 0..n : Read(s, m)
<1>1. \A p, n : ~InSight(p, n)
  BY DEF InSight, Frames
<1>2. \A d \in outright : Read(Outset(d), 0)
  BY <1>1 DEF ReadInv, ReadOut
<1>3. \A key \in DOMAIN enteredAt : Read(EntryOf(key), enteredAt[key]) /\ enteredAt[key] \in Nat
  BY <1>1 DEF ReadInv, ReadOut, TypeInv, TypeOK
<1> HIDE DEF Read
<1>4. Walked(0)
  BY <1>2, LevelByLevel DEF Levelled, Outset
<1>5. ASSUME NEW n \in 0..2, Walked(n) PROVE Walked(n + 1)
  <2> SUFFICES ASSUME NEW s \in Level[n + 1] PROVE \E m \in 0..(n + 1) : Read(s, m)
    OBVIOUS
  <2>1. s \in Successors(Level[n], n)
    BY LevelByLevel DEF Levelled, MAX_CALL_EDGES
  <2>2. PICK t \in Level[n] : \E p \in ReadingOf(t) : HandsOn(p) /\ s = Called(p, n)
    BY <2>1 DEF Successors
  <2>3. PICK p \in ReadingOf(t) : HandsOn(p) /\ s = Called(p, n)
    BY <2>2
  <2>4. PICK m \in 0..n : Read(t, m)
    BY <1>5
  <2> DEFINE callee == Head(p.todo).callee
             seeds == SeedsAt(p)
             key == <<callee, seeds>>
  <2>5. Crossing(seeds, n) = seeds /\ Crossing(seeds, m) = seeds
    BY DEF Crossing, MAX_CALL_EDGES
  <2>6. Repeated(callee, seeds, m + 1)
    BY <2>3, <2>4, <2>5 DEF Read, Handled
  <2>7. key \in DOMAIN enteredAt /\ enteredAt[key] <= m + 1
    BY <2>6 DEF Repeated
  <2>8. EntryOf(key) = s
    BY <2>3, <2>5 DEF EntryOf, Called
  <2> HIDE DEF key
  <2>9. Read(s, enteredAt[key]) /\ enteredAt[key] \in 0..(n + 1)
    BY <1>3, <2>7, <2>8
  <2> QED BY <2>9
<1>6. \A n \in 0..MAX_CALL_EDGES : Walked(n)
  <2> HIDE DEF Walked
  <2>1. Walked(1)
    BY <1>4, <1>5
  <2>2. Walked(2)
    BY <1>5, <2>1
  <2>3. Walked(3)
    BY <1>5, <2>2
  <2> QED BY <1>4, <2>1, <2>2, <2>3 DEF MAX_CALL_EDGES
<1>7. ASSUME NEW n \in 0..MAX_CALL_EDGES, NEW c \in ClaimsAt(n) PROVE ClaimedAsNear(c, n)
  <2>1. PICK s \in Level[n] : \E p \in ReadingOf(s) : Registers(p) /\ c = ClaimAt(p)
    BY DEF ClaimsAt
  <2>2. PICK p \in ReadingOf(s) : Registers(p) /\ c = ClaimAt(p)
    BY <2>1
  <2>3. PICK m \in 0..n : Read(s, m)
    BY <1>6
  <2> DEFINE e == [site |-> SiteAt(p), value |-> ValueAt(p, Head(p.todo).on), distance |-> m]
  <2>4. e \in claims /\ e.site = c.site /\ e.value = c.value /\ e.distance = m
    BY <2>2, <2>3 DEF Read, Handled, ClaimAt
  <2> HIDE DEF e
  <2> QED BY <2>4 DEF ClaimedAsNear
<1>8. ASSUME NEW n \in 0..MAX_CALL_EDGES, NEW m \in MountsAt(n) PROVE IsMounted(m)
  <2>1. PICK s \in Level[n] : \E p \in ReadingOf(s) : m \in MountedAt(p)
    BY DEF MountsAt
  <2>2. PICK p \in ReadingOf(s) : m \in MountedAt(p)
    BY <2>1
  <2>3. PICK k \in 0..n : Read(s, k)
    BY <1>6
  <2> QED BY <2>2, <2>3 DEF Read, Handled
<1> QED BY <1>7, <1>8

LEMMA PassKeepsNear == ASSUME TypeInv, SiteInv, NearInv, NextPass PROVE NearInv'
<1>1. /\ stack = <<>> /\ stack' = <<>> /\ unit \in Units
      /\ UNCHANGED <<unit, outright, enteredAt, claims, mounts>>
      /\ \/ Aloud /\ Aloud'
         \/ Aloud /\ ~Aloud'
         \/ ~Aloud /\ ~Aloud'
  BY DEF NextPass, walk, Aloud, TypeInv
<1>2. CASE ~Aloud /\ ~Aloud'
  BY <1>1, <1>2, SilentKeepsNear
<1>3. CASE Aloud
  <2>1. \A n \in 0..MAX_CALL_EDGES : ClaimsAt(n)' = ClaimsAt(n)
    BY <1>1, ClaimsAtAlike
  <2>2. \A n \in 0..MAX_CALL_EDGES : /\ \A c \in ClaimsAt(n) : ClaimedAsNear(c, n)
                                     /\ \A m \in MountsAt(n) : IsMounted(m)
    BY <1>1, <1>3, LevelsWalked DEF NearInv
  <2>3. LevelsClaimed' /\ LevelsMounted'
    <3>1. \A n \in 0..MAX_CALL_EDGES : MountsAt(n)' = MountsAt(n)
      BY <1>1, MountsAtAlike
    <3>2. \A m : IsMounted(m)' <=> IsMounted(m)
      BY <1>1 DEF IsMounted
    <3> QED BY <1>1, <2>1, <2>2, <3>1, <3>2 DEF LevelsClaimed, ClaimedAsNear, LevelsMounted
  <2>4. Frames(stack') = {}
    BY <1>1 DEF Frames
  <2>5. ASSUME NEW e \in claims' PROVE ClaimedByLevel(e)'
    <3> SUFFICES ASSUME e.distance <= MAX_CALL_EDGES PROVE ClaimedByLevel(e)'
      BY DEF ClaimedByLevel
    <3>1. e \in claims /\ e.distance \in 0..MAX_CALL_EDGES
      BY <1>1 DEF TypeInv, TypeOK, MAX_CALL_EDGES
    <3> QED BY <2>1, <3>1 DEF NearInv, SoundInv, ClaimedByLevel
  <2>6. SoundInv'
    BY <2>4, <2>5 DEF SoundInv
  <2>7. ASSUME NEW s, NEW n, ReadOut(s, n) PROVE ReadOut(s, n)'
    <3>1. \A q : ~InSight(q, n)
      BY <1>1 DEF InSight, Frames
    <3>2. \A q : (HandsOn(q)' <=> HandsOn(q)) /\ SeedsAt(q)' = SeedsAt(q)
      BY <1>1, CallsAlike
    <3>3. \A q : Handled(q, n) => Handled(q, n)'
      BY <1>1, <3>2 DEF Handled, Repeated, IsMounted
    <3> QED BY <1>1, <2>7, <3>1, <3>3, ReadingOfAlike DEF ReadOut
  <2>8. ReadInv'
    <3>1. ASSUME NEW d \in outright PROVE ReadOut(Outset(d), 0)'
      <4>1. PICK s : s = Outset(d)
        OBVIOUS
      <4>2. ReadOut(s, 0)'
        BY <1>3, <2>7, <4>1 DEF NearInv, ReadInv
      <4> QED BY <1>1, <4>1, <4>2, ScopesAlike DEF Outset
    <3>2. ASSUME NEW key \in DOMAIN enteredAt PROVE ReadOut(EntryOf(key), enteredAt[key])'
      <4>1. PICK s, n : s = EntryOf(key) /\ n = enteredAt[key]
        OBVIOUS
      <4>2. ReadOut(s, n)'
        BY <1>3, <2>7, <4>1 DEF NearInv, ReadInv
      <4> QED BY <1>1, <4>1, <4>2, ScopesAlike DEF EntryOf
    <3> QED BY <1>1, <3>1, <3>2 DEF ReadInv
  <2> QED BY <2>3, <2>6, <2>8 DEF NearInv
<1> QED BY <1>1, <1>2, <1>3

(* The follows of the serve roots are silent, whatever they walk.          *)
LEMMA OperandsAreSilent ==
  ASSUME TypeInv, SiteInv, FollowServeRoot \/ AnchorOperand \/ SkipOperand \/ FollowOperand
  PROVE  ~Aloud
<1>1. CASE FollowServeRoot
  BY <1>1 DEF FollowServeRoot, Aloud
<1>2. CASE AnchorOperand \/ SkipOperand \/ FollowOperand
  <2>1. stack # <<>> /\ Top.operands # <<>>
    BY <1>2 DEF AnchorOperand, SkipOperand, FollowOperand, AtOperand
  <2> QED BY <2>1, TopTyped DEF FrameTyped, Silent, Aloud
<1> QED BY <1>1, <1>2

LEMMA SilentStepKeepsNear ==
  ASSUME TypeInv, SiteInv, NearInv, ~Aloud,
         \/ Define \/ Register \/ Unclassified \/ Mount \/ Derive \/ NilGuard \/ Call \/ Return
         \/ FollowServeRoot \/ AnchorOperand \/ SkipOperand \/ FollowOperand
  PROVE  NearInv'
<1>1. UNCHANGED <<unit, pass, outright>>
  BY DEF Define, Register, Unclassified, Mount, Derive, NilGuard, Call, Return,
         FollowServeRoot, AnchorOperand, SkipOperand, FollowOperand, Walking
<1>2. claims' = claims
  <2>1. CASE Register
    <3>1. Top.silent
      BY <2>1, WalkedFrames DEF Register, At
    <3> QED BY <2>1, <3>1 DEF Register
  <2>2. CASE ~Register
    BY <2>2 DEF Define, Unclassified, Mount, Derive, NilGuard, Call, Return,
         FollowServeRoot, AnchorOperand, SkipOperand, FollowOperand, walk
  <2> QED BY <2>1, <2>2
<1>3. mounts' = mounts
  <2>1. CASE Mount \/ Derive
    <3>1. Top.silent
      BY <2>1, WalkedFrames DEF Mount, Derive, At
    <3> QED BY <2>1, <3>1 DEF Mount, Derive, Recorded
  <2>2. CASE ~(Mount \/ Derive)
    BY <2>2 DEF Define, Register, Unclassified, NilGuard, Call, Return,
         FollowServeRoot, AnchorOperand, SkipOperand, FollowOperand, walk
  <2> QED BY <2>1, <2>2
<1>4. ~Aloud'
  BY <1>1 DEF Aloud
<1> QED BY <1>1, <1>2, <1>3, <1>4, SilentKeepsNear

LEMMA NearInitially == Init => NearInv
<1> SUFFICES ASSUME Init PROVE NearInv
  OBVIOUS
<1>1. stack = <<>> /\ claims = {} /\ outright = {} /\ enteredAt = <<>> /\ Aloud
  BY DEF Init, Aloud
<1>2. Frames(stack) = {} /\ DOMAIN enteredAt = {}
  BY <1>1 DEF Frames
<1> QED BY <1>1, <1>2 DEF NearInv, SoundInv, ReadInv, LevelsClaimed, LevelsMounted

LEMMA NearStutters == ASSUME TypeInv, SiteInv, NearInv, UNCHANGED vars PROVE NearInv'
<1>1. UNCHANGED <<unit, pass, stack, enteredAt, claims, mounts, outright>> /\ unit \in Units
  BY DEF vars, walk, TypeInv
<1>2. /\ \A s : ReadingOf(s)' = ReadingOf(s)
      /\ \A q : Reading(q)' = Reading(q)
      /\ \A e : Outset(e)' = Outset(e)
      /\ \A key : EntryOf(key)' = EntryOf(key)
      /\ \A q : (HandsOn(q)' <=> HandsOn(q)) /\ SeedsAt(q)' = SeedsAt(q)
  BY <1>1, ReadingOfAlike, ReadingAlike, ScopesAlike, CallsAlike DEF Outset, EntryOf
<1>3. CASE ~Aloud
  BY <1>1, <1>3, SilentKeepsNear DEF Aloud
<1>4. CASE Aloud
  <2>1. LevelsClaimed' /\ LevelsMounted'
    BY <1>1, <1>4 DEF LevelsClaimed, LevelsMounted, Aloud
  <2>2. SoundInv'
    <3>1. \A n \in 0..MAX_CALL_EDGES : Level[n] \subseteq Level'[n] /\ ClaimsAt(n) \subseteq ClaimsAt(n)'
      BY <1>1, LevelsGrow, ClaimsAtGrow
    <3>2. ASSUME NEW e \in claims' PROVE ClaimedByLevel(e)'
      <4> SUFFICES ASSUME e.distance <= MAX_CALL_EDGES PROVE ClaimedByLevel(e)'
        BY DEF ClaimedByLevel
      <4>1. e \in claims /\ e.distance \in 0..MAX_CALL_EDGES
        BY <1>1 DEF TypeInv, TypeOK, MAX_CALL_EDGES
      <4> QED BY <3>1, <4>1 DEF NearInv, SoundInv, ClaimedByLevel
    <3>3. ASSUME NEW f \in Frames(stack') PROVE OnAPath(f)'
      <4> SUFFICES ASSUME f.depth <= MAX_CALL_EDGES PROVE OnAPath(f)'
        BY DEF OnAPath
      <4>1. f \in Frames(stack) /\ f.depth \in 0..MAX_CALL_EDGES
        BY <1>1 DEF TypeInv, TypeOK, Frames, MAX_CALL_EDGES
      <4>2. PICK s \in Level[f.depth] : PositionOf(f) \in ReadingOf(s)
        BY <1>4, <4>1 DEF NearInv, SoundInv, OnAPath
      <4> QED BY <1>2, <3>1, <4>1, <4>2 DEF OnAPath
    <3> QED BY <3>2, <3>3 DEF SoundInv
  <2>3. \A q, n : Handled(q, n) => Handled(q, n)'
    BY <1>1, <1>2 DEF Handled, Repeated, IsMounted
  <2>4. \A q, n : InSight(q, n) => InSight(q, n)'
    BY <1>1, <1>2 DEF InSight
  <2>5. \A s, n : ReadOut(s, n) => ReadOut(s, n)'
    BY <1>2, <2>3, <2>4 DEF ReadOut
  <2>6. ReadInv'
    <3>1. ASSUME NEW d \in outright PROVE ReadOut(Outset(d), 0)'
      <4>1. PICK s : s = Outset(d)
        OBVIOUS
      <4>2. ReadOut(s, 0)'
        BY <1>4, <2>5, <4>1 DEF NearInv, ReadInv
      <4> QED BY <1>2, <4>1, <4>2
    <3>2. ASSUME NEW key \in DOMAIN enteredAt PROVE ReadOut(EntryOf(key), enteredAt[key])'
      <4>1. PICK s, n : s = EntryOf(key) /\ n = enteredAt[key]
        OBVIOUS
      <4>2. ReadOut(s, n)'
        BY <1>4, <2>5, <4>1 DEF NearInv, ReadInv
      <4> QED BY <1>1, <1>2, <4>1, <4>2
    <3> QED BY <1>1, <3>1, <3>2 DEF ReadInv
  <2> QED BY <2>1, <2>2, <2>6 DEF NearInv
<1> QED BY <1>3, <1>4

LEMMA NearInductive == TypeInv /\ SiteInv /\ NearInv /\ [Next]_vars => NearInv'
<1> SUFFICES ASSUME TypeInv, SiteInv, NearInv, [Next]_vars PROVE NearInv'
  OBVIOUS
<1>1. CASE WalkDeclaration
  BY <1>1, WalkKeepsNear
<1>2. CASE NextPass
  BY <1>2, PassKeepsNear
<1>3. CASE /\ Aloud
           /\ Define \/ Register \/ Unclassified \/ Mount \/ Derive \/ NilGuard \/ Call \/ Return
  BY <1>3, StatementKeepsNear, DeriveKeepsNear, CallKeepsNear, ReturnKeepsNear
<1>4. CASE /\ ~Aloud
           /\ Define \/ Register \/ Unclassified \/ Mount \/ Derive \/ NilGuard \/ Call \/ Return
  BY <1>4, SilentStepKeepsNear
<1>5. CASE FollowServeRoot \/ AnchorOperand \/ SkipOperand \/ FollowOperand
  BY <1>5, OperandsAreSilent, SilentStepKeepsNear
<1>6. CASE UNCHANGED vars
  BY <1>6, NearStutters
<1> QED BY <1>1, <1>2, <1>3, <1>4, <1>5, <1>6 DEF Next, Step, Finished

(* What is claimed nearest is what the nearest level registers.            *)
LEMMA NearIsEnough == TypeInv /\ NearInv => NearestWalkWins
<1> SUFFICES ASSUME TypeInv, NearInv, Done,
                    NEW n \in 0..MAX_CALL_EDGES, NEW c \in ClaimsAt(n),
                    \A m \in 0..(n - 1) : \A e \in ClaimsAt(m) : e.site # c.site
             PROVE  ValuesOf(c.site, Nearest) = ValuesOf(c.site, ClaimsAt(n))
  BY DEF NearestWalkWins
<1>1. n \in Nat /\ n <= MAX_CALL_EDGES /\ MAX_CALL_EDGES \in Nat
  BY DEF MAX_CALL_EDGES
<1>2. \A e \in claims : e.distance \in Nat
  BY DEF TypeInv, TypeOK
<1>3. \A b \in ClaimsAt(n) : ClaimedAsNear(b, n)
  BY DEF NearInv, LevelsClaimed, Done, Aloud
<1>4. ASSUME NEW e \in claims, e.distance <= n PROVE [site |-> e.site, value |-> e.value] \in ClaimsAt(e.distance)
  <2>1. e.distance <= MAX_CALL_EDGES
    BY <1>1, <1>2, <1>4
  <2> QED BY <2>1 DEF NearInv, SoundInv, ClaimedByLevel
<1>5. ASSUME NEW e \in claims, e.site = c.site PROVE n <= e.distance
  <2> SUFFICES ASSUME e.distance < n PROVE FALSE
    BY <1>1, <1>2
  <2>1. e.distance \in 0..(n - 1) /\ e.distance <= n
    BY <1>1, <1>2
  <2>2. [site |-> e.site, value |-> e.value] \in ClaimsAt(e.distance)
    BY <1>4, <2>1
  <2>3. [site |-> e.site, value |-> e.value].site = c.site
    BY <1>5
  <2> QED BY <2>1, <2>2, <2>3
<1>6. ASSUME NEW b \in ClaimsAt(n), b.site = c.site PROVE b.value \in ValuesOf(c.site, Nearest)
  <2>1. PICK e \in claims : e.site = b.site /\ e.value = b.value /\ e.distance <= n
    BY <1>3 DEF ClaimedAsNear
  <2>2. e \in Nearest
    <3> SUFFICES ASSUME NEW g \in claims, g.site = e.site PROVE e.distance <= g.distance
      BY DEF Nearest
    <3> QED BY <1>1, <1>2, <1>5, <1>6, <2>1
  <2> QED BY <1>6, <2>1, <2>2 DEF ValuesOf
<1>7. ASSUME NEW e \in Nearest, e.site = c.site PROVE e.value \in ValuesOf(c.site, ClaimsAt(n))
  <2>1. PICK g \in claims : g.site = c.site /\ g.distance <= n
    BY <1>3 DEF ClaimedAsNear
  <2>2. e \in claims /\ e.distance <= g.distance
    BY <1>7, <2>1 DEF Nearest
  <2>3. e.distance = n
    BY <1>1, <1>2, <1>5, <1>7, <2>1, <2>2
  <2> DEFINE b == [site |-> e.site, value |-> e.value]
  <2>4. b \in ClaimsAt(n) /\ b.site = c.site /\ b.value = e.value
    BY <1>1, <1>4, <1>7, <2>2, <2>3
  <2> HIDE DEF b
  <2> QED BY <2>4 DEF ValuesOf
<1> QED BY <1>6, <1>7 DEF ValuesOf

(* However the calls of a unit are written and in whatever order its files *)
(* list them, a site is claimed in the end for the values of the nearest   *)
(* walk and for no other (DLT-044): the `enteredAt` of router-scope.ts,    *)
(* which lets a walk of a body pass when one as near or nearer carried the *)
(* same seeds, loses no shorter path and keeps no longer one.              *)
THEOREM ClaimsTheNearest == Spec => []NearestWalkWins
<1> DEFINE IInv == TypeInv /\ SiteInv /\ NearInv
<1>1. Init => IInv
  BY TypeInitially, SiteInitially, NearInitially
<1>2. IInv /\ [Next]_vars => IInv'
  BY TypeInductive, SiteInductive, NearInductive
<1>3. IInv => NearestWalkWins
  BY NearIsEnough
<1> QED BY <1>1, <1>2, <1>3, PTL DEF Spec

-----------------------------------------------------------------------------
(* What is mounted twice.                                                  *)

(* The mounts stay finite, which counting those of a value takes.          *)
Mounted == UNION {mounts[k] : k \in DOMAIN mounts}
Parents == {m.parent : m \in Mounted}

MountsFinite == IsFiniteSet(DOMAIN mounts) /\ IsFiniteSet(Mounted) /\ IsFiniteSet(Parents)

LEMMA RecordedFinite ==
  ASSUME MountsFinite, NEW key, NEW record, mounts' = Recorded(key, record) \/ mounts' = mounts
  PROVE  MountsFinite'
<1>1. CASE mounts' = mounts
  BY <1>1 DEF MountsFinite, Mounted, Parents
<1>2. CASE mounts' # mounts
  <2>1. /\ DOMAIN mounts' = DOMAIN mounts \cup {key}
        /\ mounts'[key] = {record} \cup (IF key \in DOMAIN mounts THEN mounts[key] ELSE {})
        /\ \A k \in DOMAIN mounts : k # key => mounts'[k] = mounts[k]
    BY <1>2 DEF Recorded, Put
  <2>2. Mounted' = Mounted \cup {record}
    BY <2>1 DEF Mounted
  <2>3. Parents' = Parents \cup {record.parent}
    BY <2>2 DEF Parents
  <2>4. IsFiniteSet(DOMAIN mounts')
    BY <2>1, FS_AddElement DEF MountsFinite
  <2>5. IsFiniteSet(Mounted \cup {record}) /\ IsFiniteSet(Parents \cup {record.parent})
    BY FS_AddElement DEF MountsFinite
  <2> QED BY <2>2, <2>3, <2>4, <2>5 DEF MountsFinite
<1> QED BY <1>1, <1>2

LEMMA MountsStayFinite == MountsFinite /\ [Next]_vars => MountsFinite'
<1> SUFFICES ASSUME MountsFinite, [Next]_vars PROVE MountsFinite'
  OBVIOUS
<1>1. PICK key, record : mounts' = Recorded(key, record) \/ mounts' = mounts
  <2>1. CASE Mount \/ Derive
    BY <2>1 DEF Mount, Derive
  <2>2. CASE ~(Mount \/ Derive)
    BY <2>2 DEF Next, Step, Finished, WalkDeclaration, NextPass, Define, Register, Unclassified,
         NilGuard, Call, Return, FollowServeRoot, AnchorOperand, SkipOperand, FollowOperand,
         vars, walk
  <2> QED BY <2>1, <2>2
<1> QED BY <1>1, RecordedFinite

LEMMA MountsBeginFinite == Init => MountsFinite
<1> SUFFICES ASSUME Init PROVE MountsFinite
  OBVIOUS
<1>1. mounts = <<>>
  BY DEF Init
<1>2. DOMAIN mounts = {} /\ Mounted = {} /\ Parents = {}
  BY <1>1 DEF Mounted, Parents
<1> QED BY <1>2, FS_EmptySet DEF MountsFinite

(* One link of the chain above every value, given those shorter by one.    *)
RecordsOf(k) == IF k \in DOMAIN mounts THEN mounts[k] ELSE {}

Link(n, K, shorter) ==
  [k \in K |->
     CASE RecordsOf(k) = {} -> AnchoredHead(k)
       [] Cardinality(RecordsOf(k)) > 1 \/ n = 0 -> Unanchored
       [] OTHER ->
            LET record == CHOOSE m \in RecordsOf(k) : TRUE
                above == IF record.parent = NoParent THEN AnchoredHead(k)
                         ELSE shorter[record.parent]
            IN  IF above = Unanchored THEN Unanchored
                ELSE Append(above, record.prefix)]

IsChain(g, K, m) == g = [n \in 0..m |-> Link(n, K, g[n - 1])]

LEMMA ChainExists ==
  ASSUME NEW K, NEW L \in Nat
  PROVE  \A m \in 0..L : \E g : IsChain(g, K, m)
<1> DEFINE Bad == {m \in 0..L : ~\E g : IsChain(g, K, m)}
<1> SUFFICES ASSUME Bad # {} PROVE FALSE
  OBVIOUS
<1>1. PICK m \in Bad : \A k \in Bad : m <= k
  <2>1. Bad \in SUBSET Nat
    OBVIOUS
  <2> HIDE DEF Bad
  <2> QED BY <2>1, LeastNumber
<1>2. m \in 0..L
  OBVIOUS
<1>3. \A f, g : Link(0, K, f) = Link(0, K, g)
  BY DEF Link
<1>4. CASE m = 0
  <2> DEFINE g == [n \in 0..0 |-> Link(0, K, 0)]
  <2>1. \A n \in 0..0 : g[n] = Link(n, K, g[n - 1])
    <3>1. \A n \in 0..0 : n = 0 /\ g[n] = Link(0, K, 0)
      OBVIOUS
    <3> HIDE DEF g
    <3> QED BY <1>3, <3>1
  <2>2. g = [n \in 0..0 |-> g[n]]
    OBVIOUS
  <2> HIDE DEF g
  <2>3. g = [n \in 0..0 |-> Link(n, K, g[n - 1])]
    BY <2>1, <2>2
  <2> QED BY <1>4, <2>3 DEF IsChain
<1>5. CASE m # 0
  <2>1. m - 1 \in 0..L /\ m - 1 \notin Bad
    BY <1>1, <1>2, <1>5
  <2>2. PICK f : IsChain(f, K, m - 1)
    BY <2>1
  <2> DEFINE g == [n \in 0..m |-> IF n = m THEN Link(m, K, f[m - 1]) ELSE f[n]]
  <2>3. \A n \in 0..(m - 1) : f[n] = Link(n, K, f[n - 1])
    BY <2>2 DEF IsChain
  <2>4. ASSUME NEW n \in 0..m PROVE g[n] = Link(n, K, g[n - 1])
    <3>1. CASE n = m
      <4>1. g[n] = Link(m, K, f[m - 1])
        BY <3>1
      <4>2. g[n - 1] = f[m - 1]
        BY <3>1, <1>2, <1>5
      <4> QED BY <3>1, <4>1, <4>2
    <3>2. CASE n # m
      <4>1. n \in 0..(m - 1)
        BY <3>2, <1>2
      <4>2. g[n] = f[n] /\ (n # 0 => g[n - 1] = f[n - 1])
        BY <4>1, <3>2, <1>2
      <4>3. f[n] = Link(n, K, f[n - 1])
        BY <2>3, <4>1
      <4> HIDE DEF g
      <4> QED BY <1>3, <4>2, <4>3
    <3> QED BY <3>1, <3>2
  <2>5. IsChain(g, K, m)
    <3>1. g = [n \in 0..m |-> g[n]]
      OBVIOUS
    <3> HIDE DEF g
    <3>2. g = [n \in 0..m |-> Link(n, K, g[n - 1])]
      BY <2>4, <3>1
    <3> QED BY <3>2 DEF IsChain
  <2> QED BY <2>5
<1> QED BY <1>4, <1>5

(* A value with two mounts on record has no prefixes.                      *)
LEMMA TwoMountsNoPath ==
  ASSUME MountsFinite, NEW key \in DOMAIN mounts, NEW a \in mounts[key], NEW b \in mounts[key], a # b
  PROVE  PrefixChain(key) = Unanchored
<1> DEFINE Keys == {key} \cup DOMAIN mounts \cup
                     {m.parent : m \in UNION {mounts[k] : k \in DOMAIN mounts}}
           N == Cardinality(Keys)
           C(g) == g = [n \in 0..N |-> Link(n, Keys, g[n - 1])]
<1>1. PrefixChain(key) = (CHOOSE g : C(g))[N][key]
  BY DEF PrefixChain, Link, RecordsOf
<1>2. IsFiniteSet(Keys)
  <2>1. Keys = {key} \cup DOMAIN mounts \cup Parents
    BY DEF Parents, Mounted
  <2>2. IsFiniteSet({key})
    BY FS_Singleton
  <2>3. IsFiniteSet({key} \cup DOMAIN mounts)
    BY <2>2, FS_Union DEF MountsFinite
  <2>4. IsFiniteSet({key} \cup DOMAIN mounts \cup Parents)
    BY <2>3, FS_Union DEF MountsFinite
  <2> QED BY <2>1, <2>4
<1>3. N \in Nat
  BY <1>2, FS_CardinalityType
<1>4. key \in Keys
  OBVIOUS
<1> HIDE DEF Keys
<1>5. \E g : C(g)
  <2>1. PICK K, L : K = Keys /\ L = N
    OBVIOUS
  <2>2. L \in Nat /\ L \in 0..L
    BY <1>3, <2>1
  <2>3. PICK g : IsChain(g, K, L)
    BY <2>2, ChainExists
  <2> QED BY <2>1, <2>3 DEF IsChain
<1> DEFINE chain == CHOOSE g : C(g)
<1>6. C(chain)
  BY <1>5
<1> HIDE DEF chain
<1>7. chain[N] = Link(N, Keys, chain[N - 1])
  BY <1>3, <1>6
<1>8. Cardinality(mounts[key]) > 1
  <2>1. mounts[key] \in SUBSET Mounted
    BY DEF Mounted
  <2>2. IsFiniteSet(mounts[key])
    BY <2>1, FS_Subset DEF MountsFinite
  <2>3. Cardinality(mounts[key]) \in Nat
    BY <2>2, FS_CardinalityType
  <2>4. Cardinality(mounts[key]) # 0
    BY <2>2, FS_EmptySet
  <2>5. Cardinality(mounts[key]) # 1
    BY <2>2, FS_Singleton
  <2> QED BY <2>3, <2>4, <2>5
<1>9. RecordsOf(key) = mounts[key] /\ mounts[key] # {}
  BY DEF RecordsOf
<1>10. Link(N, Keys, chain[N - 1])[key] = Unanchored
  BY <1>4, <1>8, <1>9 DEF Link
<1> QED BY <1>1, <1>7, <1>10 DEF chain

LEMMA MountsAreEnough == MountsFinite /\ NearInv => MountedTwiceHasNoPath
<1> SUFFICES ASSUME MountsFinite, NearInv, Done,
                    NEW m \in 0..MAX_CALL_EDGES, NEW n \in 0..MAX_CALL_EDGES,
                    NEW a \in MountsAt(m), NEW b \in MountsAt(n), a.key = b.key, a # b
             PROVE  PrefixChain(a.key) = Unanchored
  BY DEF MountedTwiceHasNoPath
<1>1. IsMounted(a) /\ IsMounted(b)
  BY DEF NearInv, LevelsMounted, Done, Aloud
<1>2. ASSUME NEW k, NEW c \in MountsAt(k)
      PROVE  c = [key |-> c.key, prefix |-> c.prefix, parent |-> c.parent]
  <2>1. PICK p : c \in MountedAt(p)
    BY <1>2 DEF MountsAt
  <2>2. \E x, y, z : c = [key |-> x, prefix |-> y, parent |-> z]
    BY <2>1 DEF MountedAt
  <2> QED BY <2>2
<1> DEFINE r(c) == [prefix |-> c.prefix, parent |-> c.parent]
<1>3. r(a) # r(b)
  <2> SUFFICES ASSUME r(a) = r(b) PROVE FALSE
    OBVIOUS
  <2>1. a.prefix = b.prefix /\ a.parent = b.parent
    OBVIOUS
  <2>2. a = [key |-> a.key, prefix |-> a.prefix, parent |-> a.parent]
        /\ b = [key |-> b.key, prefix |-> b.prefix, parent |-> b.parent]
    BY <1>2
  <2> HIDE DEF r
  <2> QED BY <2>1, <2>2
<1>4. a.key \in DOMAIN mounts /\ r(a) \in mounts[a.key] /\ r(b) \in mounts[a.key]
  BY <1>1 DEF IsMounted
<1> HIDE DEF r
<1> QED BY <1>3, <1>4, TwoMountsNoPath

(* Whatever the calls of a unit and their order, a router that paths       *)
(* within the budget mount twice, under two prefixes or on two parents, is *)
(* published under no path: addMount of router-scope.ts loses no mount of  *)
(* a walk it let pass, and prefixChain of chi.ts sees both.                *)
THEOREM PublishesNoneMountedTwice == Spec => []MountedTwiceHasNoPath
<1> DEFINE IInv == TypeInv /\ SiteInv /\ NearInv /\ MountsFinite
<1>1. Init => IInv
  BY TypeInitially, SiteInitially, NearInitially, MountsBeginFinite
<1>2. IInv /\ [Next]_vars => IInv'
  BY TypeInductive, SiteInductive, NearInductive, MountsStayFinite
<1>3. IInv => MountedTwiceHasNoPath
  BY MountsAreEnough
<1> QED BY <1>1, <1>2, <1>3, PTL DEF Spec

-----------------------------------------------------------------------------
(* The theorems.                                                           *)

(* However the bodies of a unit call one another, a registration claimed   *)
(* past the third edge belongs to a router its own body constructed or to  *)
(* none: followEdge of router-scope.ts hands no identity over a fourth.    *)
THEOREM RefusesTheFourthEdge == Spec => []FourthEdgeRefused
<1>1. WalkInv => FourthEdgeRefused
  BY DEF WalkInv
<1> QED BY <1>1, WalkInductive, PTL

(* No cycle of a call graph makes enterBody of router-scope.ts walk a body *)
(* inside a walk of the same body with the same seeds.                     *)
THEOREM NeverReenters == Spec => []NothingOpenTwice
<1>1. WalkInv => NothingOpenTwice
  <2> SUFFICES ASSUME WalkInv, NEW i \in DOMAIN stack, NEW j \in DOMAIN stack, i # j,
                      stack[i].decl = stack[j].decl, stack[i].seeds = stack[j].seeds
               PROVE  stack[i].seeds = NoSeeds
    BY DEF NothingOpenTwice
  <2>1. Key(stack[i]) = Key(stack[j])
    BY DEF Key
  <2> QED BY <2>1 DEF WalkInv, Orderly
<1> QED BY <1>1, WalkInductive, PTL
=============================================================================
