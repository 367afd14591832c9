------------------------- MODULE InboundFactsProofs -------------------------
(***************************************************************************)
(* What the report says of the endpoints of every set of units, whatever   *)
(* the readers of the sources find: declared routes are counted or         *)
(* reported, conflicts are double declarations, the order of the drafts    *)
(* has no effect, and registrations without a route stay apart.            *)
(***************************************************************************)
EXTENDS InboundFacts, FactMergeProofs

-----------------------------------------------------------------------------
(* Sequences.                                                              *)

LEMMA SequenceDomain ==
  ASSUME NEW S, NEW s \in Seq(S)
  PROVE  /\ DOMAIN s = 1..Len(s) /\ Len(s) \in Nat
         /\ \A i \in DOMAIN s : i \in Nat \ {0} /\ s[i] \in S
OBVIOUS

LEMMA WiderSequence ==
  ASSUME NEW A, NEW B, A \subseteq B, NEW s \in Seq(A)
  PROVE  s \in Seq(B)
<1>1. Len(s) \in Nat /\ \A i \in 1..Len(s) : s[i] \in B
  OBVIOUS
<1>2. s = [i \in 1..Len(s) |-> s[i]]
  OBVIOUS
<1> QED BY <1>1, <1>2

(* The prefixes FlattenSeq concatenates, as far as m.                      *)
IsFlattening(f, ss, m) ==
  f = [i \in 1..m |-> IF i = 1 THEN ss[i] ELSE f[i - 1] \o ss[i]]

LEMMA FlatteningExists ==
  ASSUME NEW n \in Nat, NEW ss
  PROVE  \A m \in 1..n : \E f : IsFlattening(f, ss, m)
<1> DEFINE Bad == {m \in 1..n : ~\E f : IsFlattening(f, ss, m)}
<1> SUFFICES ASSUME Bad # {} PROVE FALSE
  OBVIOUS
<1>1. PICK m \in Bad : \A k \in Bad : m <= k
  <2> HIDE DEF Bad
  <2>1. Bad \in SUBSET (1..n)
    BY DEF Bad
  <2> QED BY <2>1, LeastIndex
<1>2. m \in 1..n
  OBVIOUS
<1>3. CASE m = 1
  <2>1. IsFlattening([i \in 1..1 |-> ss[1]], ss, 1)
    BY DEF IsFlattening
  <2> QED BY <1>3, <2>1
<1>4. CASE m # 1
  <2>1. m - 1 \in 1..n /\ m - 1 \notin Bad
    BY <1>1, <1>2, <1>4
  <2>2. PICK f : IsFlattening(f, ss, m - 1)
    BY <2>1
  <2> DEFINE g == [i \in 1..m |-> IF i = m THEN f[m - 1] \o ss[m] ELSE f[i]]
  <2>3. \A i \in 1..(m - 1) : f[i] = IF i = 1 THEN ss[i] ELSE f[i - 1] \o ss[i]
    BY <2>2 DEF IsFlattening
  <2>4. ASSUME NEW i \in 1..m
        PROVE  g[i] = IF i = 1 THEN ss[i] ELSE g[i - 1] \o ss[i]
    <3>1. CASE i = m
      <4>1. g[i] = f[m - 1] \o ss[m]
        BY <3>1
      <4>2. g[i - 1] = f[m - 1]
        BY <3>1, <1>2, <1>4
      <4> QED BY <3>1, <4>1, <4>2, <1>4
    <3>2. CASE i = 1
      BY <3>2, <2>3, <1>2, <1>4
    <3>3. CASE i # m /\ i # 1
      <4>1. i \in 1..(m - 1) /\ i - 1 \in 1..m /\ i - 1 # m
        BY <3>3, <1>2
      <4>2. g[i] = f[i] /\ g[i - 1] = f[i - 1]
        BY <4>1, <3>3
      <4> QED BY <4>1, <4>2, <2>3
    <3> QED BY <3>1, <3>2, <3>3
  <2>5. IsFlattening(g, ss, m)
    BY <2>4 DEF IsFlattening
  <2> QED BY <2>5
<1> QED BY <1>3, <1>4

LEMMA FlattenedIsSequence ==
  ASSUME NEW S, NEW ss \in Seq(Seq(S))
  PROVE  FlattenSeq(ss) \in Seq(S)
<1> DEFINE n == Len(ss)
<1> DEFINE f == CHOOSE f : f = [i \in 1..n |-> IF i = 1 THEN ss[i] ELSE f[i - 1] \o ss[i]]
<1>1. CASE n = 0
  BY <1>1 DEF FlattenSeq
<1>2. CASE n # 0
  <2>1. n \in Nat /\ n \in 1..n /\ \A i \in 1..n : ss[i] \in Seq(S)
    BY <1>2
  <2>2. \E g : g = [i \in 1..n |-> IF i = 1 THEN ss[i] ELSE g[i - 1] \o ss[i]]
    BY <2>1, FlatteningExists DEF IsFlattening
  <2>3. f = [i \in 1..n |-> IF i = 1 THEN ss[i] ELSE f[i - 1] \o ss[i]]
    BY <2>2
  <2>4. FlattenSeq(ss) = f[n]
    BY <1>2 DEF FlattenSeq
  <2> DEFINE Bad == {i \in 1..n : f[i] \notin Seq(S)}
  <2> HIDE DEF f, n
  <2>5. ASSUME Bad # {} PROVE FALSE
    <3>1. Bad \in SUBSET (1..n)
      OBVIOUS
    <3>2. PICK i \in Bad : \A j \in Bad : i <= j
      <4> HIDE DEF Bad
      <4> QED BY <2>1, <2>5, <3>1, LeastIndex
    <3>3. CASE i = 1
      BY <2>1, <2>3, <3>3
    <3>4. CASE i # 1
      <4>1. i \in 1..n /\ i - 1 \in 1..n /\ i - 1 \notin Bad
        BY <2>1, <3>2, <3>4
      <4>2. f[i - 1] \in Seq(S)
        BY <4>1
      <4>3. f[i] = f[i - 1] \o ss[i]
        BY <2>3, <4>1, <3>4
      <4>4. f[i - 1] \o ss[i] \in Seq(S)
        BY <4>1, <4>2, <2>1
      <4> QED BY <4>3, <4>4
    <3> QED BY <3>3, <3>4
  <2> QED BY <2>1, <2>4, <2>5
<1> QED BY <1>1, <1>2

(* A canonical path is a sequence of segments.                             *)
LEMMA CanonicalPathIsSequence ==
  ASSUME NEW a \in Seq(STRING), NEW b \in Seq(STRING)
  PROVE  CanonicalPath(<<a, b>>) \in Seq(STRING \cup {"{}", "{*}"})
<1> DEFINE S == STRING \cup {"{}", "{*}"}
<1>0. a \in Seq(S) /\ b \in Seq(S)
  <2>1. STRING \subseteq S
    OBVIOUS
  <2> QED BY <2>1, WiderSequence
<1> HIDE DEF S
<1>1. ASSUME NEW s \in Seq(S) PROVE BeforeQuery(s) \in Seq(S)
  <2> DEFINE queries == {i \in DOMAIN s : s[i] \in Queries}
  <2>1. CASE queries = {}
    BY <2>1 DEF BeforeQuery
  <2>2. CASE queries # {}
    <3> DEFINE q == CHOOSE i \in queries : \A j \in queries : i <= j
    <3>1. queries \in SUBSET (1..Len(s)) /\ Len(s) \in Nat
      OBVIOUS
    <3>2. q \in 1..Len(s)
      <4> HIDE DEF queries
      <4>1. \E i \in queries : \A j \in queries : i <= j
        BY <2>2, <3>1, LeastIndex
      <4> QED BY <3>1, <4>1
    <3>3. BeforeQuery(s) = SubSeq(s, 1, q - 1)
      BY <2>2 DEF BeforeQuery
    <3> HIDE DEF q, queries
    <3> QED BY <3>1, <3>2, <3>3
  <2> QED BY <2>1, <2>2
<1>2. ASSUME NEW s \in Seq(S) PROVE Canonical(s) \in Seq(S)
  <2> DEFINE ss == [i \in DOMAIN s |-> IF s[i] = "" THEN <<>> ELSE <<CanonicalSegment(s[i])>>]
  <2>1. ASSUME NEW i \in DOMAIN s PROVE CanonicalSegment(s[i]) \in S
    <3>1. s[i] \in S
      OBVIOUS
    <3> QED BY <3>1 DEF CanonicalSegment, S
  <2>2. ASSUME NEW i \in DOMAIN s PROVE ss[i] \in Seq(S)
    <3> DEFINE segment == CanonicalSegment(s[i])
    <3>1. segment \in S
      BY <2>1
    <3> HIDE DEF segment
    <3>2. <<segment>> \in Seq(S) /\ <<>> \in Seq(S)
      BY <3>1
    <3>3. ss[i] = <<>> \/ ss[i] = <<segment>>
      BY DEF segment
    <3> QED BY <3>2, <3>3
  <2>3. ss \in Seq(Seq(S))
    <3> HIDE DEF ss
    <3>1. DOMAIN ss = 1..Len(s) /\ Len(s) \in Nat /\ DOMAIN s = 1..Len(s)
      BY DEF ss
    <3>2. ss = [i \in 1..Len(s) |-> ss[i]]
      BY <3>1 DEF ss
    <3> QED BY <2>2, <3>1, <3>2
  <2> HIDE DEF ss
  <2>4. FlattenSeq(ss) \in Seq(S)
    BY <2>3, FlattenedIsSequence
  <2> QED BY <2>4 DEF Canonical, ss
<1> DEFINE parts == [i \in DOMAIN <<a, b>> |-> BeforeQuery(<<a, b>>[i])]
<1>3. parts \in Seq(Seq(S))
  <2>1. BeforeQuery(a) \in Seq(S) /\ BeforeQuery(b) \in Seq(S)
    BY <1>0, <1>1
  <2>2. parts = <<BeforeQuery(a), BeforeQuery(b)>>
    OBVIOUS
  <2> HIDE DEF parts
  <2> QED BY <2>1, <2>2
<1> HIDE DEF parts
<1>4. FlattenSeq(parts) \in Seq(S)
  BY <1>3, FlattenedIsSequence
<1>5. Canonical(FlattenSeq(parts)) \in Seq(S)
  BY <1>2, <1>4
<1> QED BY <1>5 DEF CanonicalPath, parts, S

-----------------------------------------------------------------------------
(* The inductive invariant.                                                *)

ServedDocument(e) == unit.specs[DocumentOf(unit.serves[e])]

DraftOf(e, i) ==
  InventoryDraft(WithUniqueIds(ServedDocument(e).operations)[i], unit.serves[e],
                 DocumentOf(unit.serves[e]))

(* The declared operations of the entries behind `next`.                   *)
Ingested == {o \in DeclaredOperations : stage = "inventory" => o[1] < next}

(* Every draft is that of a registration, or of the declared operation     *)
(* that `of` names, and each operation is drafted once.                    *)
Accounts(of) ==
  /\ DOMAIN of = DOMAIN drafts
  /\ \A k \in DOMAIN drafts :
       \/ of[k] \in Ingested /\ drafts[k] = DraftOf(of[k][1], of[k][2])
       \/ of[k] = <<0, 0>> /\ IsRegistration(drafts[k])
  /\ \A o \in Ingested : \E k \in DOMAIN drafts : of[k] = o
  /\ \A j, k \in DOMAIN drafts : j # k /\ of[j] = of[k] => of[j] = <<0, 0>>

DraftsInv ==
  /\ unit \in Units
  /\ stage = "inventory" => next \in 1..(Len(unit.serves) + 1)
  /\ drafts \in Seq(ToSet(drafts))
  /\ \E of : Accounts(of)

(* Only the cross-check brings its codes into the report.                  *)
ReportInv ==
  /\ \A site \in inbound : site.code \notin MissingHalfCodes
  /\ ~Reported => \A d \in diagnostics : d.code \notin MissingHalfCodes
  /\ stage \in {"sites", "methods", "reported"} => endpoints = FinalizeEndpoints(drafts)
  /\ Reported => coverage.inbound = InboundCoverage(endpoints, HasInventory)
  /\ Reported => \A d : d.code \in MissingHalfCodes =>
                   (d \in diagnostics <=> d \in CrossCheck(endpoints, HasInventory))

-----------------------------------------------------------------------------
(* Declared operations and their drafts.                                   *)

LEMMA UnitAlike ==
  ASSUME unit' = unit
  PROVE  /\ DeclaredOperations' = DeclaredOperations
         /\ \A e, i : DraftOf(e, i)' = DraftOf(e, i)
         /\ HasInventory' = HasInventory
<1>1. DeclaredOperations' = DeclaredOperations
  BY DEF DeclaredOperations, DocumentOf
<1>2. \A e, i : DraftOf(e, i)' = DraftOf(e, i)
  BY DEF DraftOf, DocumentOf, ServedDocument
<1>3. HasInventory' = HasInventory
  BY DEF HasInventory
<1> QED BY <1>1, <1>2, <1>3

LEMMA DocumentIsFound ==
  ASSUME unit \in Units, NEW entry
  PROVE  DocumentOf(entry) = 0 \/ DocumentOf(entry) \in DOMAIN unit.specs
<1> DEFINE found == {i \in DOMAIN unit.specs : unit.specs[i].locator = entry.spec}
<1>1. unit.specs \in Seq([locator : STRING, readable : BOOLEAN, operations : Seq(DeclaredOperation)])
  BY UnitsDeclare
<1>2. found \in SUBSET (1..Len(unit.specs)) /\ Len(unit.specs) \in Nat
      /\ DOMAIN unit.specs = 1..Len(unit.specs)
  BY <1>1
<1>3. CASE found = {}
  BY <1>3 DEF DocumentOf
<1>4. CASE found # {}
  <2>1. DocumentOf(entry) = CHOOSE i \in found : \A j \in found : i <= j
    BY <1>4 DEF DocumentOf
  <2> HIDE DEF found
  <2>2. \E i \in found : \A j \in found : i <= j
    BY <1>2, <1>4, LeastIndex
  <2> QED BY <1>2, <2>1, <2>2
<1> QED BY <1>3, <1>4

LEMMA DeclaredShape ==
  ASSUME unit \in Units, NEW o \in DeclaredOperations
  PROVE  /\ o = <<o[1], o[2]>> /\ o[1] \in DOMAIN unit.serves /\ o[1] \in Nat \ {0}
         /\ DocumentOf(unit.serves[o[1]]) \in DOMAIN unit.specs
         /\ DocumentOf(unit.serves[o[1]]) \in Nat
         /\ ServedDocument(o[1]).readable
         /\ ServedDocument(o[1]).operations \in Seq(DeclaredOperation)
         /\ o[2] \in DOMAIN ServedDocument(o[1]).operations
         /\ OperationAt(o[1], o[2]) \in DeclaredOperation
         /\ unit.serves[o[1]] \in [spec : STRING, contract : STRING, mount : Seq(STRING)]
<1>1. PICK e, i :
        /\ e \in DOMAIN unit.serves
        /\ DocumentOf(unit.serves[e]) # 0 /\ ServedDocument(e).readable
        /\ i \in DOMAIN ServedDocument(e).operations
        /\ o = <<e, i>>
  BY DEF DeclaredOperations, ServedDocument
<1>2. unit.specs \in Seq([locator : STRING, readable : BOOLEAN, operations : Seq(DeclaredOperation)])
  BY UnitsDeclare
<1>3. unit.serves \in Seq([spec : STRING, contract : STRING, mount : Seq(STRING)])
  BY UnitsDeclare
<1> DEFINE doc == DocumentOf(unit.serves[e])
<1>4. doc \in DOMAIN unit.specs
  BY <1>1, DocumentIsFound
<1> HIDE DEF doc
<1>5. doc \in Nat /\ unit.specs[doc].operations \in Seq(DeclaredOperation)
  <2>1. doc \in Nat
    BY <1>2, <1>4, SequenceDomain
  <2>2. unit.specs[doc] \in [locator : STRING, readable : BOOLEAN, operations : Seq(DeclaredOperation)]
    BY <1>2, <1>4, SequenceDomain
  <2>3. unit.specs[doc].operations \in Seq(DeclaredOperation)
    BY <2>2
  <2> QED BY <2>1, <2>3
<1>6. ServedDocument(e).operations \in Seq(DeclaredOperation)
  BY <1>5 DEF ServedDocument, doc
<1>7. OperationAt(e, i) \in DeclaredOperation
  <2>1. OperationAt(e, i) = ServedDocument(e).operations[i]
    BY DEF OperationAt, ServedDocument
  <2> HIDE DEF DeclaredOperation
  <2> QED BY <1>1, <1>6, <2>1
<1>8. e \in Nat \ {0} /\ unit.serves[e] \in [spec : STRING, contract : STRING, mount : Seq(STRING)]
  <2>1. e \in Nat \ {0}
    BY <1>1, <1>3, SequenceDomain
  <2>2. unit.serves[e] \in [spec : STRING, contract : STRING, mount : Seq(STRING)]
    BY <1>1, <1>3, SequenceDomain
  <2> QED BY <2>1, <2>2
<1> QED BY <1>1, <1>4, <1>5, <1>6, <1>7, <1>8 DEF doc

LEMMA LiteralIsKnown ==
  ASSUME NEW segments
  PROVE  /\ ~ContainsUnknown(Literal(segments))
         /\ LiteralOf(Literal(segments)) = segments
<1>1. ToSet(<<Text(segments)>>) = {Text(segments)}
  BY DEF ToSet
<1>2. Literal(segments).parts = <<Text(segments)>> /\ Literal(segments).kind = "literal"
  BY DEF Literal
<1>3. Text(segments).kind = "text" /\ Text(segments).is = segments
  BY DEF Text
<1>4. Reasons(Literal(segments)) = {}
  BY <1>1, <1>2, <1>3 DEF Reasons
<1>5. LiteralOf(Literal(segments)) = segments
  BY <1>2, <1>3 DEF LiteralOf
<1> QED BY <1>4, <1>5 DEF ContainsUnknown

LEMMA EqualLiterals ==
  ASSUME NEW a, NEW b, Literal(a) = Literal(b)
  PROVE  a = b
BY LiteralIsKnown

LEMMA UniqueIdsKept ==
  ASSUME unit \in Units, NEW o \in DeclaredOperations
  PROVE  WithUniqueIds(ServedDocument(o[1]).operations)[o[2]]
           = [OperationAt(o[1], o[2]) EXCEPT !.id = IdAt(o[1], o[2])]
<1> DEFINE declared == ServedDocument(o[1]).operations
<1> DEFINE i == o[2]
<1>1. i \in DOMAIN declared /\ OperationAt(o[1], i) = declared[i] /\ declared[i] \in DeclaredOperation
  BY DeclaredShape DEF OperationAt, ServedDocument
<1>2. \A j : OperationAt(o[1], j) = declared[j]
  BY DEF OperationAt, ServedDocument
<1>3. DOMAIN declared = DOMAIN unit.specs[DocumentOf(unit.serves[o[1]])].operations
  BY DEF ServedDocument
<1> DEFINE repeated == \E j \in DOMAIN declared : i # j /\ declared[i].id = declared[j].id
<1>4. IdAt(o[1], i) = IF repeated THEN "none" ELSE declared[i].id
  BY <1>2, <1>3 DEF IdAt
<1>5. WithUniqueIds(declared)[i] = IF repeated THEN [declared[i] EXCEPT !.id = "none"] ELSE declared[i]
  BY <1>1 DEF WithUniqueIds
<1> HIDE DEF declared, i, repeated
<1>6. declared[i] = [declared[i] EXCEPT !.id = declared[i].id]
  BY <1>1 DEF DeclaredOperation
<1>7. WithUniqueIds(declared)[i] = [OperationAt(o[1], i) EXCEPT !.id = IdAt(o[1], i)]
  BY <1>1, <1>4, <1>5, <1>6
<1> QED BY <1>7 DEF declared, i

LEMMA DraftFields ==
  ASSUME unit \in Units, NEW o \in DeclaredOperations
  PROVE  LET d == DraftOf(o[1], o[2])
             method == MethodNamed(RouteAt(o[1], o[2])[1])
             path == Literal(RouteAt(o[1], o[2])[2])
         IN  d = [operation |-> [method |-> method, path |-> path, destinations |-> {}],
                  refs |-> {[contract |-> unit.serves[o[1]].contract, id |-> IdAt(o[1], o[2]),
                             route |-> IF IdAt(o[1], o[2]) = "none" THEN <<method, path>> ELSE <<>>]},
                  provenance |-> {"openapi"},
                  resolution |-> DeriveResolution([method |-> method, path |-> path,
                                                   destinations |-> {}], FALSE),
                  evidence |-> {[file |-> DocumentOf(unit.serves[o[1]]), start |-> 0, end |-> 0,
                                 role |-> "inventory"]}]
<1> DEFINE declared == WithUniqueIds(ServedDocument(o[1]).operations)[o[2]]
<1>1. /\ declared.member = OperationAt(o[1], o[2]).member
      /\ declared.path = OperationAt(o[1], o[2]).path
      /\ declared.id = IdAt(o[1], o[2])
  <2>1. OperationAt(o[1], o[2]) \in DeclaredOperation
    BY DeclaredShape
  <2>2. declared = [OperationAt(o[1], o[2]) EXCEPT !.id = IdAt(o[1], o[2])]
    BY UniqueIdsKept
  <2> HIDE DEF declared
  <2> QED BY <2>1, <2>2 DEF DeclaredOperation
<1>2. DraftOf(o[1], o[2])
        = InventoryDraft(declared, unit.serves[o[1]], DocumentOf(unit.serves[o[1]]))
  BY DEF DraftOf
<1> HIDE DEF declared
<1>3. /\ RouteAt(o[1], o[2])[1] = OperationAt(o[1], o[2]).member
      /\ RouteAt(o[1], o[2])[2]
           = CanonicalPath(<<unit.serves[o[1]].mount, OperationAt(o[1], o[2]).path>>)
  BY DEF RouteAt
<1> QED BY <1>1, <1>2, <1>3 DEF InventoryDraft

LEMMA RegistrationFields ==
  ASSUME NEW d, IsRegistration(d)
  PROVE  /\ d.refs = {} /\ d.provenance = {"router"}
         /\ d.operation.destinations = {}
         /\ \E e : /\ e \in Sightings /\ e.role = "registration"
                  /\ d = [operation |-> [method |-> d.operation.method, path |-> d.operation.path,
                                         destinations |-> {}],
                          refs |-> {}, provenance |-> {"router"},
                          resolution |-> DeriveResolution(d.operation, FALSE), evidence |-> {e}]
<1>1. PICK x \in d.evidence :
        /\ AnchorOf(x) \in [file : Nat, start : Nat, end : Nat]
        /\ d = EndpointDraft(d.operation.method, d.operation.path, AnchorOf(x))
  BY DEF IsRegistration
<1> DEFINE a == AnchorOf(x)
<1> DEFINE e == [file |-> a.file, start |-> a.start, end |-> a.end, role |-> "registration"]
<1> DEFINE op == [method |-> d.operation.method, path |-> d.operation.path, destinations |-> {}]
<1>2. d = [operation |-> op, refs |-> {}, provenance |-> {"router"},
           resolution |-> DeriveResolution(op, FALSE), evidence |-> {e}]
  BY <1>1 DEF EndpointDraft
<1>3. e \in Sightings /\ e.role = "registration"
  <2> HIDE DEF a
  <2>1. a \in [file : Nat, start : Nat, end : Nat]
    BY <1>1 DEF a
  <2> QED BY <2>1 DEF Sightings
<1> HIDE DEF e, op
<1>4. d.operation = op /\ d.refs = {} /\ d.provenance = {"router"}
  BY <1>2
<1>5. op.destinations = {}
  BY DEF op
<1> QED BY <1>2, <1>3, <1>4, <1>5 DEF op

LEMMA DraftIsTyped ==
  ASSUME unit \in Units, NEW d, NEW V, NEW R,
         IsRegistration(d) \/ \E o \in DeclaredOperations : d = DraftOf(o[1], o[2]),
         d.operation.method \in V, d.operation.path \in V, d.refs \subseteq R
  PROVE  d \in EndpointDrafts(V, R)
<1> DEFINE Op(m, p) == [method |-> m, path |-> p, destinations |-> {}]
<1>1. \E refs, provenance, e, m, p :
         /\ provenance \in SUBSET {"openapi", "router"} /\ e \in Sightings
         /\ d = [operation |-> Op(m, p), refs |-> refs, provenance |-> provenance,
                 resolution |-> DeriveResolution(Op(m, p), FALSE), evidence |-> {e}]
  <2>1. CASE IsRegistration(d)
    <3>1. PICK e \in Sightings :
            d = [operation |-> [method |-> d.operation.method, path |-> d.operation.path,
                                destinations |-> {}],
                 refs |-> {}, provenance |-> {"router"},
                 resolution |-> DeriveResolution(d.operation, FALSE), evidence |-> {e}]
      BY <2>1, RegistrationFields
    <3>2. d.operation = [method |-> d.operation.method, path |-> d.operation.path, destinations |-> {}]
      BY <3>1
    <3> QED BY <3>1, <3>2
  <2>2. CASE \E o \in DeclaredOperations : d = DraftOf(o[1], o[2])
    <3>1. PICK o \in DeclaredOperations : d = DraftOf(o[1], o[2])
      BY <2>2
    <3> DEFINE method == MethodNamed(RouteAt(o[1], o[2])[1])
    <3> DEFINE path == Literal(RouteAt(o[1], o[2])[2])
    <3> DEFINE refs == {[contract |-> unit.serves[o[1]].contract, id |-> IdAt(o[1], o[2]),
                         route |-> IF IdAt(o[1], o[2]) = "none" THEN <<method, path>> ELSE <<>>]}
    <3> DEFINE e == [file |-> DocumentOf(unit.serves[o[1]]), start |-> 0, end |-> 0,
                     role |-> "inventory"]
    <3>2. d = [operation |-> Op(method, path), refs |-> refs, provenance |-> {"openapi"},
               resolution |-> DeriveResolution(Op(method, path), FALSE), evidence |-> {e}]
      BY <3>1, DraftFields
    <3>3. e \in Sightings
      BY DeclaredShape DEF Sightings
    <3> HIDE DEF method, path, refs, e
    <3> HIDE DEF Op
    <3> QED BY <3>2, <3>3
  <2> QED BY <2>1, <2>2
<1>2. PICK refs, provenance, e, m, p :
         /\ provenance \in SUBSET {"openapi", "router"} /\ e \in Sightings
         /\ d = [operation |-> Op(m, p), refs |-> refs, provenance |-> provenance,
                 resolution |-> DeriveResolution(Op(m, p), FALSE), evidence |-> {e}]
  BY <1>1
<1> DEFINE op == Op(m, p)
<1>3. d.operation = op /\ d.refs = refs /\ d.resolution = DeriveResolution(op, FALSE)
  <2> HIDE DEF Op
  <2> QED BY <1>2
<1>4. op.method = m /\ op.path = p
  OBVIOUS
<1>5. op \in [method : V, path : V, destinations : {{}}]
  <2>1. m \in V /\ p \in V
    BY <1>3, <1>4
  <2> QED BY <2>1
<1> HIDE DEF Op, op
<1>6. DeriveResolution(op, FALSE) \in {"resolved", "ambiguous", "unresolved"}
  BY DEF DeriveResolution
<1>7. refs \in SUBSET R
  BY <1>3
<1> QED BY <1>2, <1>3, <1>5, <1>6, <1>7 DEF EndpointDrafts, op

LEMMA DraftsAreTyped ==
  ASSUME DraftsInv
  PROVE  \E V, R : drafts \in Seq(EndpointDrafts(V, R))
<1> DEFINE V == {drafts[i].operation.method : i \in DOMAIN drafts}
                  \cup {drafts[i].operation.path : i \in DOMAIN drafts}
<1> DEFINE R == UNION {drafts[i].refs : i \in DOMAIN drafts}
<1>1. PICK of : Accounts(of)
  BY DEF DraftsInv
<1>2. ASSUME NEW i \in DOMAIN drafts PROVE drafts[i] \in EndpointDrafts(V, R)
  <2>1. /\ drafts[i].operation.method \in V /\ drafts[i].operation.path \in V
        /\ drafts[i].refs \subseteq R
    OBVIOUS
  <2>2. IsRegistration(drafts[i]) \/ \E o \in DeclaredOperations : drafts[i] = DraftOf(o[1], o[2])
    BY <1>1 DEF Accounts, Ingested
  <2>3. unit \in Units
    BY DEF DraftsInv
  <2> HIDE DEF V, R
  <2> QED BY <2>1, <2>2, <2>3, DraftIsTyped
<1> HIDE DEF V, R
<1>3. drafts \in Seq(ToSet(drafts))
  BY DEF DraftsInv
<1>4. DOMAIN drafts = 1..Len(drafts) /\ Len(drafts) \in Nat
  BY <1>3, SequenceDomain
<1>5. drafts = [i \in 1..Len(drafts) |-> drafts[i]]
  BY <1>3
<1>6. drafts \in Seq(EndpointDrafts(V, R))
  BY <1>2, <1>4, <1>5
<1> QED BY <1>6

-----------------------------------------------------------------------------
(* The invariant holds.                                                    *)

LEMMA InboundInitially == InboundInit => DraftsInv /\ ReportInv
<1> SUFFICES ASSUME InboundInit PROVE DraftsInv /\ ReportInv
  OBVIOUS
<1> DEFINE none == <<>>
<1>1. DOMAIN none = {} /\ drafts = none
  BY DEF InboundInit
<1>2. unit.serves \in Seq([spec : STRING, contract : STRING, mount : Seq(STRING)]) /\ unit \in Units
  BY UnitsDeclare DEF InboundInit
<1>3. next \in 1..(Len(unit.serves) + 1)
  BY <1>2, SequenceDomain DEF InboundInit
<1>4. drafts \in Seq(ToSet(drafts))
  BY <1>1
<1>5. Accounts(none)
  <2>1. Ingested = {}
    <3>1. ASSUME NEW o \in DeclaredOperations PROVE o[1] \in Nat \ {0}
      BY <1>2, DeclaredShape
    <3> QED BY <3>1 DEF Ingested, InboundInit
  <2> HIDE DEF none
  <2> QED BY <1>1, <2>1 DEF Accounts
<1>6. DraftsInv
  BY <1>2, <1>3, <1>4, <1>5 DEF DraftsInv
<1>7. ReportInv
  BY DEF ReportInv, InboundInit, Reported
<1> QED BY <1>6, <1>7

(* A step that draws nothing and passes no entry keeps the account.        *)
LEMMA AccountKept ==
  ASSUME DraftsInv, UNCHANGED <<unit, drafts>>, Ingested' = Ingested,
         stage' = "inventory" => next' \in 1..(Len(unit.serves) + 1)
  PROVE  DraftsInv'
<1>1. PICK of : Accounts(of)
  BY DEF DraftsInv
<1>2. \A e, i : DraftOf(e, i)' = DraftOf(e, i)
  BY UnitAlike
<1>3. \A d : IsRegistration(d)' = IsRegistration(d)
  OBVIOUS
<1>4. Accounts(of)'
  BY <1>1, <1>2, <1>3 DEF Accounts
<1> QED BY <1>4 DEF DraftsInv

LEMMA Concatenation ==
  ASSUME NEW S, NEW s \in Seq(S), NEW T, NEW t \in Seq(T)
  PROVE  /\ s \o t \in Seq(ToSet(s \o t))
         /\ DOMAIN (s \o t) = 1..(Len(s) + Len(t))
         /\ \A k \in 1..Len(s) : (s \o t)[k] = s[k]
         /\ \A k \in 1..Len(t) : (s \o t)[Len(s) + k] = t[k]
         /\ \A k \in (Len(s) + 1)..(Len(s) + Len(t)) : (s \o t)[k] = t[k - Len(s)]
<1>1. s \in Seq(S \cup T) /\ t \in Seq(S \cup T)
  BY WiderSequence
<1> DEFINE u == s \o t
<1>2. /\ u \in Seq(S \cup T) /\ DOMAIN u = 1..Len(u) /\ Len(u) = Len(s) + Len(t)
      /\ Len(u) \in Nat
      /\ \A k \in 1..Len(s) : u[k] = s[k]
      /\ \A k \in 1..Len(t) : u[Len(s) + k] = t[k]
      /\ \A k \in (Len(s) + 1)..(Len(s) + Len(t)) : u[k] = t[k - Len(s)]
  BY <1>1
<1> HIDE DEF u
<1>3. u \in Seq(ToSet(u))
  <2>1. \A k \in 1..Len(u) : u[k] \in ToSet(u)
    BY <1>2 DEF ToSet
  <2>2. u = [k \in 1..Len(u) |-> u[k]]
    BY <1>2
  <2> QED BY <1>2, <2>1, <2>2
<1> QED BY <1>2, <1>3 DEF u

LEMMA IngestKeepsDrafts ==
  ASSUME DraftsInv, IngestEntry
  PROVE  DraftsInv'
<1> DEFINE entry == unit.serves[next]
<1> DEFINE document == DocumentOf(entry)
<1> DEFINE ops == ServedDocument(next).operations
<1>1. /\ stage = "inventory" /\ stage' = "inventory" /\ next \in DOMAIN unit.serves
      /\ next' = next + 1 /\ unit' = unit /\ unit \in Units
      /\ drafts \in Seq(ToSet(drafts))
  BY DEF DraftsInv, IngestEntry
<1>2. unit.serves \in Seq([spec : STRING, contract : STRING, mount : Seq(STRING)])
  BY <1>1, UnitsDeclare
<1>3. next \in Nat \ {0} /\ next' \in 1..(Len(unit.serves) + 1)
  BY <1>1, <1>2, SequenceDomain
<1>4. /\ DeclaredOperations' = DeclaredOperations
      /\ \A e, i : DraftOf(e, i)' = DraftOf(e, i)
  BY <1>1, UnitAlike
<1>5. \A o : o \in Ingested' <=> o \in Ingested \/ (o \in DeclaredOperations /\ o[1] = next)
  <2>1. \A o \in DeclaredOperations : o[1] \in Nat
    BY <1>1, DeclaredShape
  <2> QED BY <1>1, <1>3, <1>4, <2>1 DEF Ingested
<1>6. CASE ~(document # 0 /\ unit.specs[document].readable)
  <2>1. UNCHANGED <<unit, drafts>>
    BY <1>6 DEF IngestEntry
  <2>2. ASSUME NEW o \in DeclaredOperations PROVE o[1] # next
    <3>1. /\ DocumentOf(unit.serves[o[1]]) \in DOMAIN unit.specs
          /\ unit.specs[DocumentOf(unit.serves[o[1]])].readable
      BY <1>1, DeclaredShape DEF ServedDocument
    <3>2. unit.specs \in Seq([locator : STRING, readable : BOOLEAN, operations : Seq(DeclaredOperation)])
      BY <1>1, UnitsDeclare
    <3>3. DocumentOf(unit.serves[o[1]]) # 0
      BY <3>1, <3>2, SequenceDomain
    <3> QED BY <1>6, <3>1, <3>3
  <2>3. Ingested' = Ingested
    BY <1>5, <2>2
  <2> QED BY <1>3, <2>1, <2>3, AccountKept
<1>7. CASE document # 0 /\ unit.specs[document].readable
  <2> DEFINE new == [i \in DOMAIN ops |-> DraftOf(next, i)]
  <2> DEFINE n == Len(drafts)
  <2> DEFINE m == Len(ops)
  <2>1. drafts' = drafts \o new
    <3>1. DOMAIN WithUniqueIds(ops) = DOMAIN ops
      BY DEF WithUniqueIds
    <3> QED BY <1>7, <3>1 DEF IngestEntry, DraftOf, ServedDocument
  <2>2. ops \in Seq(DeclaredOperation)
    <3>1. document \in DOMAIN unit.specs
      BY <1>1, <1>7, DocumentIsFound
    <3>2. unit.specs \in Seq([locator : STRING, readable : BOOLEAN, operations : Seq(DeclaredOperation)])
      BY <1>1, UnitsDeclare
    <3>3. unit.specs[document] \in [locator : STRING, readable : BOOLEAN, operations : Seq(DeclaredOperation)]
      BY <3>1, <3>2, SequenceDomain
    <3>4. ops = unit.specs[document].operations
      BY DEF ServedDocument
    <3> HIDE DEF document, ops
    <3> QED BY <3>3, <3>4
  <2>3. m \in Nat /\ DOMAIN ops = 1..m /\ n \in Nat /\ DOMAIN drafts = 1..n
    BY <1>1, <2>2, SequenceDomain
  <2> HIDE DEF ops, n, m
  <2>4. new \in Seq({DraftOf(next, i) : i \in 1..m}) /\ Len(new) = m
    BY <2>3
  <2> HIDE DEF new
  <2>5. /\ drafts' \in Seq(ToSet(drafts'))
        /\ DOMAIN drafts' = 1..(n + m)
        /\ \A k \in 1..n : drafts'[k] = drafts[k]
        /\ \A k \in 1..m : drafts'[n + k] = new[k]
        /\ \A k \in (n + 1)..(n + m) : drafts'[k] = new[k - n]
    <3>1. drafts \o new \in Seq(ToSet(drafts \o new))
      BY <1>1, <2>4, Concatenation
    <3>2. /\ DOMAIN (drafts \o new) = 1..(Len(drafts) + Len(new))
          /\ \A k \in 1..Len(drafts) : (drafts \o new)[k] = drafts[k]
          /\ \A k \in 1..Len(new) : (drafts \o new)[Len(drafts) + k] = new[k]
          /\ \A k \in (Len(drafts) + 1)..(Len(drafts) + Len(new)) :
               (drafts \o new)[k] = new[k - Len(drafts)]
      <4> DEFINE S == ToSet(drafts)
      <4> DEFINE T == {DraftOf(next, i) : i \in 1..m}
      <4>1. drafts \in Seq(S) /\ new \in Seq(T)
        BY <1>1, <2>4
      <4> HIDE DEF S, T
      <4>2. DOMAIN (drafts \o new) = 1..(Len(drafts) + Len(new))
        BY <4>1, Concatenation
      <4>3. /\ \A k \in 1..Len(drafts) : (drafts \o new)[k] = drafts[k]
            /\ \A k \in 1..Len(new) : (drafts \o new)[Len(drafts) + k] = new[k]
        BY <4>1, Concatenation
      <4>4. \A k \in (Len(drafts) + 1)..(Len(drafts) + Len(new)) :
               (drafts \o new)[k] = new[k - Len(drafts)]
        BY <4>1, Concatenation
      <4> QED BY <4>2, <4>3, <4>4
    <3> QED BY <2>1, <2>4, <3>1, <3>2 DEF n
  <2>6. \A k \in 1..m : new[k] = DraftOf(next, k)
    BY <2>3 DEF new
  <2>7. \A o : o \in DeclaredOperations /\ o[1] = next <=> \E i \in 1..m : o = <<next, i>>
    <3>1. ASSUME NEW o \in DeclaredOperations, o[1] = next PROVE \E i \in 1..m : o = <<next, i>>
      <4>1. o = <<o[1], o[2]>> /\ o[2] \in DOMAIN ServedDocument(o[1]).operations
        BY <1>1, DeclaredShape
      <4> QED BY <2>3, <3>1, <4>1 DEF ops
    <3>2. ASSUME NEW i \in 1..m PROVE <<next, i>> \in DeclaredOperations
      <4>1. i \in DOMAIN unit.specs[DocumentOf(unit.serves[next])].operations
        BY <2>3 DEF ops, ServedDocument
      <4> QED BY <1>1, <1>7, <4>1 DEF DeclaredOperations
    <3> QED BY <3>1, <3>2
  <2>8. PICK of : Accounts(of)
    BY DEF DraftsInv
  <2>18. PICK then : then = [k \in 1..(n + m) |-> IF k <= n THEN of[k] ELSE <<next, k - n>>]
    OBVIOUS
  <2>9. \A k \in 1..n : then[k] = of[k]
    BY <2>3, <2>18
  <2>10. \A k \in (n + 1)..(n + m) : then[k] = <<next, k - n>> /\ k - n \in 1..m
    BY <2>3, <2>18
  <2>11. DOMAIN then = 1..(n + m) /\ \A i \in 1..m : then[n + i] = <<next, i>> /\ n + i \in 1..(n + m)
    BY <2>3, <2>18
  <2>12. \A k \in 1..(n + m) : k \in 1..n \/ k \in (n + 1)..(n + m)
    BY <2>3
  <2>13. \A o \in Ingested : o[1] # next
    <3>1. \A o \in DeclaredOperations : o[1] \in Nat
      BY <1>1, DeclaredShape
    <3> QED BY <1>1, <1>3, <3>1 DEF Ingested
  <2>14. ASSUME NEW k \in 1..(n + m)
         PROVE  \/ then[k] \in Ingested' /\ drafts'[k] = DraftOf(then[k][1], then[k][2])'
                \/ then[k] = <<0, 0>> /\ IsRegistration(drafts'[k])
    <3>1. CASE k \in 1..n
      <4>1. \/ of[k] \in Ingested /\ drafts[k] = DraftOf(of[k][1], of[k][2])
            \/ of[k] = <<0, 0>> /\ IsRegistration(drafts[k])
        BY <2>3, <2>8, <3>1 DEF Accounts
      <4> QED BY <1>4, <1>5, <2>5, <2>9, <3>1, <4>1
    <3>2. CASE k \in (n + 1)..(n + m)
      <4>1. then[k] = <<next, k - n>> /\ drafts'[k] = DraftOf(next, k - n)
        BY <2>5, <2>6, <2>10, <3>2
      <4>2. <<next, k - n>> \in Ingested'
        BY <1>5, <2>7, <2>10, <3>2
      <4> QED BY <1>4, <4>1, <4>2
    <3> QED BY <2>12, <3>1, <3>2
  <2>15. ASSUME NEW o \in Ingested' PROVE \E k \in 1..(n + m) : then[k] = o
    <3>1. CASE o \in Ingested
      <4>1. PICK k \in DOMAIN drafts : of[k] = o
        BY <2>8, <3>1 DEF Accounts
      <4>2. k \in 1..(n + m)
        BY <2>3, <4>1
      <4> QED BY <2>3, <2>9, <4>1, <4>2
    <3>2. CASE o \in DeclaredOperations /\ o[1] = next
      <4>1. PICK i \in 1..m : o = <<next, i>>
        BY <2>7, <3>2
      <4> QED BY <2>11, <4>1
    <3> QED BY <1>5, <3>1, <3>2
  <2>16. ASSUME NEW j \in 1..(n + m), NEW k \in 1..(n + m), j # k, then[j] = then[k]
         PROVE  then[j] = <<0, 0>>
    <3>1. CASE j \in 1..n /\ k \in 1..n
      BY <2>3, <2>8, <2>9, <2>16, <3>1 DEF Accounts
    <3>2. CASE j \in (n + 1)..(n + m) /\ k \in (n + 1)..(n + m)
      <4>1. <<next, j - n>> = <<next, k - n>>
        BY <2>10, <2>16, <3>2
      <4> QED BY <2>3, <2>16, <3>2, <4>1
    <3>3. ASSUME NEW a \in 1..n, NEW b \in (n + 1)..(n + m), then[a] = then[b] PROVE FALSE
      <4>1. of[a] = <<next, b - n>>
        BY <2>9, <2>10, <3>3
      <4>2. of[a] \in Ingested \/ of[a] = <<0, 0>>
        BY <2>3, <2>8 DEF Accounts
      <4>3. of[a][1] = next
        BY <4>1
      <4> QED BY <1>3, <2>13, <4>1, <4>2, <4>3
    <3> QED BY <2>12, <2>16, <3>1, <3>2, <3>3
  <2>17. Accounts(then)'
    BY <2>5, <2>11, <2>14, <2>15, <2>16 DEF Accounts
  <2> QED BY <1>1, <1>3, <2>5, <2>17 DEF DraftsInv
<1> QED BY <1>6, <1>7

LEMMA ExtractKeepsDrafts ==
  ASSUME DraftsInv, Extract
  PROVE  DraftsInv'
<1>1. /\ stage # "inventory" /\ stage' # "inventory" /\ unit' = unit
      /\ drafts \in Seq(ToSet(drafts)) /\ drafts' \in Seq(ToSet(drafts'))
      /\ IsPrefix(drafts, drafts')
  BY DEF DraftsInv, Extract
<1>2. /\ DOMAIN drafts = 1..Len(drafts) /\ DOMAIN drafts' = 1..Len(drafts')
      /\ Len(drafts) \in Nat /\ Len(drafts') \in Nat
  BY <1>1, SequenceDomain
<1>3. Len(drafts) <= Len(drafts') /\ \A k \in DOMAIN drafts : drafts'[k] = drafts[k]
  <2>1. Len(drafts) <= Len(drafts')
        /\ SubSeq(drafts, 1, Len(drafts)) = SubSeq(drafts', 1, Len(drafts))
    BY <1>1 DEF IsPrefix
  <2>2. \A k \in 1..Len(drafts) : /\ SubSeq(drafts, 1, Len(drafts))[k] = drafts[k]
                                  /\ SubSeq(drafts', 1, Len(drafts))[k] = drafts'[k]
    BY <1>1, <1>2, <2>1
  <2> QED BY <1>2, <2>1, <2>2
<1>4. \A k \in DOMAIN drafts' : k \in DOMAIN drafts \/ IsRegistration(drafts'[k])
  BY DEF Extract
<1>5. Ingested' = Ingested
  BY <1>1, UnitAlike DEF Ingested
<1>6. PICK of : Accounts(of)
  BY DEF DraftsInv
<1>7. PICK then : then = [k \in DOMAIN drafts' |-> IF k \in DOMAIN drafts THEN of[k] ELSE <<0, 0>>]
  OBVIOUS
<1>8. \A e, i : DraftOf(e, i)' = DraftOf(e, i)
  BY <1>1, UnitAlike
<1>9. DOMAIN drafts \subseteq DOMAIN drafts'
  BY <1>2, <1>3
<1>10. /\ DOMAIN then = DOMAIN drafts'
       /\ \A k \in DOMAIN drafts : then[k] = of[k]
       /\ \A k \in DOMAIN drafts' : k \notin DOMAIN drafts => then[k] = <<0, 0>>
  BY <1>7, <1>9
<1>11. ASSUME NEW k \in DOMAIN drafts'
       PROVE  \/ then[k] \in Ingested' /\ drafts'[k] = DraftOf(then[k][1], then[k][2])'
              \/ then[k] = <<0, 0>> /\ IsRegistration(drafts'[k])
  <2>1. CASE k \in DOMAIN drafts
    <3>1. \/ of[k] \in Ingested /\ drafts[k] = DraftOf(of[k][1], of[k][2])
          \/ of[k] = <<0, 0>> /\ IsRegistration(drafts[k])
      BY <1>6, <2>1 DEF Accounts
    <3> QED BY <1>3, <1>5, <1>8, <1>10, <2>1, <3>1
  <2>2. CASE k \notin DOMAIN drafts
    BY <1>4, <1>10, <2>2
  <2> QED BY <2>1, <2>2
<1>12. \A o \in Ingested' : \E k \in DOMAIN drafts' : then[k] = o
  BY <1>5, <1>6, <1>9, <1>10 DEF Accounts
<1>13. \A j, k \in DOMAIN drafts' : j # k /\ then[j] = then[k] => then[j] = <<0, 0>>
  BY <1>6, <1>10 DEF Accounts
<1>14. Accounts(then)'
  BY <1>10, <1>11, <1>12, <1>13 DEF Accounts
<1> QED BY <1>1, <1>14 DEF DraftsInv

LEMMA DraftsInductive ==
  ASSUME DraftsInv, [InboundNext]_inboundVars
  PROVE  DraftsInv'
<1>1. CASE IngestEntry
  BY <1>1, IngestKeepsDrafts
<1>2. CASE BeginReading
  <2>1. UNCHANGED <<unit, drafts>> /\ stage' = "serving" /\ stage = "inventory"
        /\ next \notin DOMAIN unit.serves
    BY <1>2 DEF BeginReading
  <2>2. unit.serves \in Seq([spec : STRING, contract : STRING, mount : Seq(STRING)])
    BY UnitsDeclare DEF DraftsInv
  <2>3. next \in Nat /\ Len(unit.serves) \in Nat /\ next = Len(unit.serves) + 1
    BY <2>1, <2>2, SequenceDomain DEF DraftsInv
  <2>4. ASSUME NEW o \in DeclaredOperations PROVE o[1] < next
    <3>1. o[1] \in DOMAIN unit.serves
      BY DeclaredShape DEF DraftsInv
    <3> QED BY <2>2, <2>3, <3>1, SequenceDomain
  <2>5. Ingested' = Ingested
    BY <2>1, <2>4, UnitAlike DEF Ingested
  <2> QED BY <2>1, <2>5, AccountKept
<1>3. CASE Extract
  BY <1>3, ExtractKeepsDrafts
<1>4. CASE Merge \/ ReadRequests \/ ReportFacts
  <2>1. UNCHANGED <<unit, drafts>> /\ stage # "inventory" /\ stage' # "inventory"
    BY <1>4 DEF Merge, ReadRequests, ReportFacts
  <2>2. Ingested' = Ingested
    BY <2>1, UnitAlike DEF Ingested
  <2> QED BY <2>1, <2>2, AccountKept
<1>5. CASE UNCHANGED inboundVars
  <2>1. UNCHANGED <<unit, drafts, stage, next>>
    BY <1>5 DEF inboundVars
  <2>2. Ingested' = Ingested
    BY <2>1, UnitAlike DEF Ingested
  <2> QED BY <2>1, <2>2, AccountKept DEF DraftsInv
<1> QED BY <1>1, <1>2, <1>3, <1>4, <1>5 DEF InboundNext

LEMMA ReportInductive ==
  ASSUME ReportInv, [InboundNext]_inboundVars
  PROVE  ReportInv'
<1>1. CASE IngestEntry
  <2>1. /\ stage = "inventory" /\ stage' = "inventory" /\ inbound' = inbound
        /\ \/ diagnostics' = diagnostics
           \/ diagnostics' = diagnostics \cup {SpecUnreadable(unit.serves[next])}
    BY <1>1 DEF IngestEntry
  <2>2. SpecUnreadable(unit.serves[next]).code \notin MissingHalfCodes
    BY DEF SpecUnreadable, MissingHalfCodes
  <2> QED BY <2>1, <2>2 DEF ReportInv, Reported
<1>2. CASE BeginReading
  BY <1>2 DEF ReportInv, BeginReading, Reported
<1>3. CASE Extract
  <2>1. /\ stage' \in {"serving", "registrations"} /\ stage \in {"serving", "registrations"}
        /\ diagnostics' = diagnostics
        /\ \A site \in inbound' \ inbound : site.code \notin MissingHalfCodes
    BY <1>3 DEF Extract
  <2> QED BY <2>1 DEF ReportInv, Reported
<1>4. CASE Merge
  <2>1. /\ stage = "registrations" /\ stage' = "sites"
        /\ endpoints' = FinalizeEndpoints(drafts) /\ drafts' = drafts /\ inbound' = inbound
        /\ diagnostics' = diagnostics \cup MergeDiagnostics(inbound)
    BY <1>4 DEF Merge
  <2>2. \A d \in MergeDiagnostics(inbound) : d.code \notin MissingHalfCodes
    BY DEF MergeDiagnostics, ReportInv
  <2> QED BY <2>1, <2>2 DEF ReportInv, Reported
<1>5. CASE ReadRequests
  <2>1. /\ stage \in {"sites", "methods"} /\ stage' \in {"sites", "methods"}
        /\ UNCHANGED <<unit, drafts, inbound, endpoints, diagnostics, coverage>>
    BY <1>5 DEF ReadRequests
  <2> QED BY <2>1 DEF ReportInv, Reported
<1>6. CASE ReportFacts
  <2> DEFINE missing == CrossCheck(endpoints, HasInventory)
  <2>1. /\ stage = "methods" /\ stage' = "reported"
        /\ UNCHANGED <<unit, drafts, inbound, endpoints>>
        /\ diagnostics \cup missing \subseteq diagnostics'
        /\ \A d \in diagnostics' \ (diagnostics \cup missing) : d.code \notin MissingHalfCodes
        /\ coverage'.inbound = InboundCoverage(endpoints, HasInventory)
    BY <1>6 DEF ReportFacts
  <2>2. HasInventory' = HasInventory
    BY <2>1, UnitAlike
  <2>3. missing' = missing
    BY <2>1, <2>2
  <2>4. \A d \in diagnostics : d.code \notin MissingHalfCodes
    BY <2>1 DEF ReportInv, Reported
  <2> HIDE DEF missing
  <2>5. \A d : d.code \in MissingHalfCodes => (d \in diagnostics' <=> d \in missing)
    BY <2>1, <2>4
  <2>6. coverage'.inbound = InboundCoverage(endpoints', HasInventory')
    BY <2>1, <2>2
  <2>7. \A d : d.code \in MissingHalfCodes =>
          (d \in diagnostics' <=> d \in CrossCheck(endpoints, HasInventory)')
    BY <2>3, <2>5 DEF missing
  <2>8. endpoints' = FinalizeEndpoints(drafts')
    BY <2>1 DEF ReportInv
  <2>9. (\A site \in inbound : site.code \notin MissingHalfCodes)'
    BY <2>1 DEF ReportInv
  <2> QED BY <2>1, <2>6, <2>7, <2>8, <2>9 DEF ReportInv, Reported
<1>7. CASE UNCHANGED inboundVars
  BY <1>7, UnitAlike DEF inboundVars, ReportInv, Reported
<1> QED BY <1>1, <1>2, <1>3, <1>4, <1>5, <1>6, <1>7 DEF InboundNext

LEMMA InboundInvariant == InboundSpec => [](DraftsInv /\ ReportInv)
<1>1. DraftsInv /\ ReportInv /\ [InboundNext]_inboundVars => (DraftsInv /\ ReportInv)'
  BY DraftsInductive, ReportInductive
<1> QED BY <1>1, InboundInitially, PTL DEF InboundSpec

-----------------------------------------------------------------------------
(* What the report promises.                                               *)

LEMMA OrderFromInvariant ==
  ASSUME DraftsInv, ReportInv
  PROVE  OrderOfDraftsIsIrrelevant
<1> SUFFICES ASSUME Reported PROVE endpoints = FinalizeEndpoints(Reverse(drafts))
  BY DEF OrderOfDraftsIsIrrelevant
<1>1. PICK V, R : drafts \in Seq(EndpointDrafts(V, R))
  BY DraftsAreTyped
<1> DEFINE n == Len(drafts)
<1> DEFINE order == [i \in 1..n |-> n - i + 1]
<1>2. n \in Nat /\ DOMAIN drafts = 1..n
  BY <1>1, SequenceDomain
<1>3. order \in Orders(n)
  <2> HIDE DEF n
  <2>1. order \in [1..n -> 1..n]
    BY <1>2
  <2>2. ASSUME NEW k \in 1..n PROVE \E i \in 1..n : order[i] = k
    <3>1. n - k + 1 \in 1..n /\ order[n - k + 1] = k
      BY <1>2
    <3> QED BY <3>1
  <2>3. \A i, j \in 1..n : order[i] = order[j] => i = j
    BY <1>2
  <2> QED BY <2>1, <2>2, <2>3 DEF Orders
<1>4. Reverse(drafts) = Reordered(drafts, order)
  BY <1>2 DEF Reverse, Reordered
<1> HIDE DEF order, n
<1>5. FinalizeEndpoints(Reordered(drafts, order)) = FinalizeEndpoints(drafts)
  BY <1>1, <1>3, OrderIsIrrelevant DEF n
<1>6. endpoints = FinalizeEndpoints(drafts)
  BY DEF ReportInv, Reported
<1> QED BY <1>4, <1>5, <1>6

(* The facts of a report are those of the drafts in the opposite order.    *)
THEOREM FactsOfAnyOrder == InboundSpec => []OrderOfDraftsIsIrrelevant
BY InboundInvariant, OrderFromInvariant, PTL

(* The draft of a declared operation has the identity of its route.        *)
LEMMA DeclaredIdentity ==
  ASSUME unit \in Units, NEW o \in DeclaredOperations
  PROVE  /\ DraftOf(o[1], o[2]).operation.method = MethodNamed(RouteAt(o[1], o[2])[1])
         /\ DraftOf(o[1], o[2]).operation.path = Literal(RouteAt(o[1], o[2])[2])
         /\ DraftOf(o[1], o[2]).provenance = {"openapi"}
         /\ ~HasUnknownIdentity(DraftOf(o[1], o[2]).operation)
         /\ EndpointCore(DraftOf(o[1], o[2]))
              = [method |-> MethodNamed(RouteAt(o[1], o[2])[1]),
                 path |-> Literal(RouteAt(o[1], o[2])[2]), anchor |-> {}]
         /\ DraftOf(o[1], o[2]).refs
              = {[contract |-> unit.serves[o[1]].contract, id |-> IdAt(o[1], o[2]),
                  route |-> IF IdAt(o[1], o[2]) = "none"
                              THEN <<MethodNamed(RouteAt(o[1], o[2])[1]),
                                     Literal(RouteAt(o[1], o[2])[2])>>
                              ELSE <<>>]}
<1> DEFINE d == DraftOf(o[1], o[2])
<1> DEFINE method == MethodNamed(RouteAt(o[1], o[2])[1])
<1> DEFINE path == Literal(RouteAt(o[1], o[2])[2])
<1> DEFINE refs == {[contract |-> unit.serves[o[1]].contract, id |-> IdAt(o[1], o[2]),
                     route |-> IF IdAt(o[1], o[2]) = "none" THEN <<method, path>> ELSE <<>>]}
<1> DEFINE evidence == {[file |-> DocumentOf(unit.serves[o[1]]), start |-> 0, end |-> 0,
                         role |-> "inventory"]}
<1> DEFINE op == [method |-> method, path |-> path, destinations |-> {}]
<1>1. d = [operation |-> op, refs |-> refs, provenance |-> {"openapi"},
           resolution |-> DeriveResolution(op, FALSE), evidence |-> evidence]
  BY DraftFields
<1>2. ~ContainsUnknown(method) /\ ~ContainsUnknown(path)
  BY LiteralIsKnown DEF MethodNamed
<1>3. op.method = method /\ op.path = path
  OBVIOUS
<1> HIDE DEF d, refs, evidence, op, method, path
<1>4. d.operation = op /\ d.provenance = {"openapi"} /\ d.refs = refs
  BY <1>1
<1>5. ~HasUnknownIdentity(d.operation)
  BY <1>2, <1>3, <1>4 DEF HasUnknownIdentity
<1>6. EndpointCore(d) = [method |-> method, path |-> path, anchor |-> {}]
  BY <1>3, <1>4, <1>5 DEF EndpointCore
<1> QED BY <1>3, <1>4, <1>5, <1>6 DEF d, refs, method, path

(* Equal spellings are of equal members, so routes are told apart by what  *)
(* is written of them.                                                     *)
LEMMA RoutesAreSpelled ==
  ASSUME unit \in Units, NEW o \in DeclaredOperations, NEW p \in DeclaredOperations,
         MethodNamed(RouteAt(o[1], o[2])[1]) = MethodNamed(RouteAt(p[1], p[2])[1]),
         Literal(RouteAt(o[1], o[2])[2]) = Literal(RouteAt(p[1], p[2])[2])
  PROVE  RouteAt(o[1], o[2]) = RouteAt(p[1], p[2])
<1> DEFINE m == OperationAt(o[1], o[2]).member
<1> DEFINE n == OperationAt(p[1], p[2]).member
<1>1. m \in DOMAIN Upper /\ n \in DOMAIN Upper
  BY DeclaredShape DEF DeclaredOperation
<1>2. RouteAt(o[1], o[2])[1] = m /\ RouteAt(p[1], p[2])[1] = n
  BY DEF RouteAt
<1>3. <<Upper[m]>> = <<Upper[n]>>
  BY <1>2, EqualLiterals DEF MethodNamed
<1>4. Upper[m] = Upper[n]
  BY <1>3
<1>5. m = n
  BY <1>1, <1>4, SpellingsDiffer
<1>6. RouteAt(o[1], o[2])[2] = RouteAt(p[1], p[2])[2]
  BY EqualLiterals
<1> QED BY <1>5, <1>6 DEF RouteAt

(* A registration has no operation of a contract.                          *)
LEMMA OpenapiIsDeclared ==
  ASSUME DraftsInv, Reported, NEW of, Accounts(of), NEW k \in DOMAIN drafts,
         drafts[k].refs # {} \/ "openapi" \in drafts[k].provenance
  PROVE  of[k] \in DeclaredOperations /\ drafts[k] = DraftOf(of[k][1], of[k][2])
<1>1. ~IsRegistration(drafts[k])
  <2> SUFFICES ASSUME IsRegistration(drafts[k]) PROVE FALSE
    OBVIOUS
  <2> DEFINE d == drafts[k]
  <2>1. IsRegistration(d)
    OBVIOUS
  <2> HIDE DEF d
  <2>2. d.refs = {} /\ d.provenance = {"router"}
    BY <2>1, RegistrationFields
  <2>3. "openapi" \notin {"router"}
    OBVIOUS
  <2> QED BY <2>2, <2>3 DEF d
<1>2. of[k] \in Ingested /\ drafts[k] = DraftOf(of[k][1], of[k][2])
  BY <1>1 DEF Accounts
<1> QED BY <1>2 DEF Ingested

LEMMA EveryDeclaredIsDrafted ==
  ASSUME DraftsInv, Reported, NEW of, Accounts(of), NEW o \in DeclaredOperations
  PROVE  \E k \in DOMAIN drafts : of[k] = o /\ drafts[k] = DraftOf(o[1], o[2])
<1>1. o \in Ingested
  BY DEF Reported, Ingested
<1>2. PICK k \in DOMAIN drafts : of[k] = o
  BY <1>1 DEF Accounts
<1>3. o # <<0, 0>>
  BY DeclaredShape DEF DraftsInv
<1> QED BY <1>2, <1>3 DEF Accounts

LEMMA ConflictFromInvariant ==
  ASSUME DraftsInv, ReportInv
  PROVE  ConflictIsDoubleDeclaration
<1> DEFINE Doubled(f) ==
      \E o, p \in DeclaredOperations :
        /\ o # p
        /\ RouteAt(o[1], o[2]) = RouteAt(p[1], p[2])
        /\ unit.serves[o[1]].contract = unit.serves[p[1]].contract
        /\ IdAt(o[1], o[2]) = IdAt(p[1], p[2])
        /\ f.operation.method = MethodNamed(RouteAt(o[1], o[2])[1])
        /\ f.operation.path = Literal(RouteAt(o[1], o[2])[2])
<1> SUFFICES ASSUME Reported, NEW f \in endpoints
             PROVE  f.resolution = "conflicting" <=> Doubled(f)
  BY DEF ConflictIsDoubleDeclaration
<1>1. PICK V, R : drafts \in Seq(EndpointDrafts(V, R))
  BY DraftsAreTyped
<1>2. f \in FinalizeEndpoints(drafts)
  BY DEF ReportInv, Reported
<1>3. PICK of : Accounts(of)
  BY DEF DraftsInv
<1>4. unit \in Units
  BY DEF DraftsInv
<1> DEFINE Duplicated == \E i, j \in DOMAIN drafts : /\ i # j /\ drafts[i].refs \cap drafts[j].refs # {}
                                     /\ EndpointCore(drafts[i]) = EndpointCore(f)
                                     /\ EndpointCore(drafts[j]) = EndpointCore(f)
<1>5. f.resolution = "conflicting" <=> Duplicated
  BY <1>1, <1>2, ConflictIsDuplicate
<1>6. ASSUME Duplicated PROVE Doubled(f)
  <2>1. PICK i, j \in DOMAIN drafts : /\ i # j /\ drafts[i].refs \cap drafts[j].refs # {}
                                      /\ EndpointCore(drafts[i]) = EndpointCore(f)
                                      /\ EndpointCore(drafts[j]) = EndpointCore(f)
    BY <1>6
  <2> DEFINE o == of[i]
  <2> DEFINE p == of[j]
  <2>2. /\ o \in DeclaredOperations /\ drafts[i] = DraftOf(o[1], o[2])
        /\ p \in DeclaredOperations /\ drafts[j] = DraftOf(p[1], p[2])
    BY <1>3, <2>1, OpenapiIsDeclared
  <2>3. o # p
    <3>1. o # <<0, 0>>
      BY <1>4, <2>2, DeclaredShape
    <3> QED BY <1>3, <2>1, <3>1 DEF Accounts
  <2> HIDE DEF o, p
  <2>4. f.operation.method = MethodNamed(RouteAt(o[1], o[2])[1])
    BY <1>4, <2>1, <2>2, DeclaredIdentity DEF EndpointCore
  <2>5. f.operation.path = Literal(RouteAt(o[1], o[2])[2])
    BY <1>4, <2>1, <2>2, DeclaredIdentity DEF EndpointCore
  <2>6. /\ f.operation.method = MethodNamed(RouteAt(p[1], p[2])[1])
        /\ f.operation.path = Literal(RouteAt(p[1], p[2])[2])
    BY <1>4, <2>1, <2>2, DeclaredIdentity DEF EndpointCore
  <2>7. RouteAt(o[1], o[2]) = RouteAt(p[1], p[2])
    BY <1>4, <2>2, <2>4, <2>5, <2>6, RoutesAreSpelled
  <2>8. /\ unit.serves[o[1]].contract = unit.serves[p[1]].contract
        /\ IdAt(o[1], o[2]) = IdAt(p[1], p[2])
    <3> DEFINE route(q) == IF IdAt(q[1], q[2]) = "none"
                             THEN <<MethodNamed(RouteAt(q[1], q[2])[1]),
                                    Literal(RouteAt(q[1], q[2])[2])>>
                             ELSE <<>>
    <3> DEFINE ref(q) == [contract |-> unit.serves[q[1]].contract, id |-> IdAt(q[1], q[2]),
                          route |-> route(q)]
    <3>1. drafts[i].refs = {ref(o)}
      BY <1>4, <2>2, DeclaredIdentity
    <3>2. drafts[j].refs = {ref(p)}
      BY <1>4, <2>2, DeclaredIdentity
    <3> HIDE DEF route
    <3>3. ref(o) = ref(p)
      <4> HIDE DEF ref
      <4> QED BY <2>1, <3>1, <3>2
    <3> QED BY <3>3
  <2> QED BY <2>2, <2>3, <2>4, <2>5, <2>7, <2>8
<1>7. ASSUME Doubled(f) PROVE Duplicated
  <2>1. PICK o, p \in DeclaredOperations :
        /\ o # p
        /\ RouteAt(o[1], o[2]) = RouteAt(p[1], p[2])
        /\ unit.serves[o[1]].contract = unit.serves[p[1]].contract
        /\ IdAt(o[1], o[2]) = IdAt(p[1], p[2])
        /\ f.operation.method = MethodNamed(RouteAt(o[1], o[2])[1])
        /\ f.operation.path = Literal(RouteAt(o[1], o[2])[2])
    BY <1>7
  <2>2. PICK i \in DOMAIN drafts : of[i] = o /\ drafts[i] = DraftOf(o[1], o[2])
    BY <1>3, EveryDeclaredIsDrafted
  <2>3. PICK j \in DOMAIN drafts : of[j] = p /\ drafts[j] = DraftOf(p[1], p[2])
    BY <1>3, EveryDeclaredIsDrafted
  <2> DEFINE method == MethodNamed(RouteAt(o[1], o[2])[1])
  <2> DEFINE path == Literal(RouteAt(o[1], o[2])[2])
  <2> DEFINE core == [method |-> method, path |-> path, anchor |-> {}]
  <2>4. EndpointCore(drafts[i]) = core /\ EndpointCore(drafts[j]) = core
    BY <1>4, <2>1, <2>2, <2>3, DeclaredIdentity
  <2>5. EndpointCore(f) = core
    <3>1. ~ContainsUnknown(method) /\ ~ContainsUnknown(path)
      BY LiteralIsKnown DEF MethodNamed
    <3>2. f.operation.method = method /\ f.operation.path = path
      BY <2>1
    <3> HIDE DEF method, path
    <3> QED BY <3>1, <3>2 DEF EndpointCore, HasUnknownIdentity
  <2>6. drafts[i].refs = drafts[j].refs /\ drafts[i].refs # {}
    <3>1. drafts[i].refs = {[contract |-> unit.serves[o[1]].contract, id |-> IdAt(o[1], o[2]),
                     route |-> IF IdAt(o[1], o[2]) = "none" THEN <<method, path>> ELSE <<>>]}
      BY <1>4, <2>2, DeclaredIdentity
    <3>2. drafts[j].refs = {[contract |-> unit.serves[o[1]].contract, id |-> IdAt(o[1], o[2]),
                     route |-> IF IdAt(o[1], o[2]) = "none" THEN <<method, path>> ELSE <<>>]}
      BY <1>4, <2>1, <2>3, DeclaredIdentity
    <3> QED BY <3>1, <3>2
  <2>7. i # j
    BY <2>1, <2>2, <2>3
  <2> HIDE DEF core
  <2> QED BY <2>4, <2>5, <2>6, <2>7
<1> QED BY <1>5, <1>6, <1>7

(* A conflicting route is one that a contract declares twice by one name.  *)
THEOREM ConflictsAreDoubleDeclarations == InboundSpec => []ConflictIsDoubleDeclaration
BY InboundInvariant, ConflictFromInvariant, PTL

-----------------------------------------------------------------------------
(* Counting.                                                               *)

LEMMA SameSize ==
  ASSUME NEW S, IsFiniteSet(S), NEW T, NEW f \in [S -> T],
         \A a, b \in S : f[a] = f[b] => a = b, \A t \in T : \E s \in S : f[s] = t
  PROVE  IsFiniteSet(T) /\ Cardinality(T) = Cardinality(S)
<1>1. f \in Bijection(S, T)
  BY DEF Bijection, Injection, Surjection, IsInjective
<1>2. ExistsBijection(S, T)
  BY <1>1 DEF ExistsBijection
<1> QED BY <1>2, FS_Bijection

LEMMA FiniteEndpoints ==
  ASSUME DraftsInv, ReportInv, Reported
  PROVE  IsFiniteSet(endpoints)
<1> DEFINE fact == [i \in DOMAIN drafts |-> MergeGroup(drafts, GroupOf(drafts, i))]
<1>1. DOMAIN drafts = 1..Len(drafts) /\ Len(drafts) \in Nat
  BY SequenceDomain DEF DraftsInv
<1>2. IsFiniteSet(DOMAIN drafts)
  BY <1>1, FS_Interval
<1>3. endpoints = FinalizeEndpoints(drafts)
  BY DEF ReportInv, Reported
<1>4. fact \in Surjection(DOMAIN drafts, endpoints)
  BY <1>3 DEF Surjection, FinalizeEndpoints
<1> HIDE DEF fact
<1> QED BY <1>2, <1>4, FS_Surjection

(* A fact is that of one of the drafts.                                    *)
LEMMA FactIsMerged ==
  ASSUME DraftsInv, ReportInv, Reported, NEW f \in endpoints
  PROVE  \E k \in DOMAIN drafts :
           /\ f = MergeGroup(drafts, GroupOf(drafts, k))
           /\ f.operation = drafts[k].operation
           /\ f.evidence = UNION {drafts[j].evidence : j \in GroupOf(drafts, k)}
           /\ f.provenance = UNION {drafts[j].provenance : j \in GroupOf(drafts, k)}
           /\ EndpointCore(f) = EndpointCore(drafts[k])
<1>1. PICK V, R : drafts \in Seq(EndpointDrafts(V, R))
  BY DraftsAreTyped
<1>2. endpoints = FinalizeEndpoints(drafts)
  BY DEF ReportInv, Reported
<1>3. PICK k \in DOMAIN drafts : f = MergeGroup(drafts, GroupOf(drafts, k))
  BY <1>2 DEF FinalizeEndpoints
<1>4. f = MergedAt(drafts, k, GroupOf(drafts, k))
  BY <1>1, <1>3, MergedFields
<1>5. EndpointCore(f) = EndpointCore(drafts[k])
  BY <1>1, <1>3, MergingKeepsCore
<1>6. /\ f.operation = drafts[k].operation
      /\ f.evidence = UNION {drafts[j].evidence : j \in GroupOf(drafts, k)}
      /\ f.provenance = UNION {drafts[j].provenance : j \in GroupOf(drafts, k)}
  BY <1>4 DEF MergedAt
<1> QED BY <1>3, <1>5, <1>6

(* A draft without a proven route is a registration, and its fact stands   *)
(* where it does.                                                          *)
LEMMA UnprovenIsOneSighting ==
  ASSUME DraftsInv, ReportInv, Reported, NEW k \in DOMAIN drafts,
         HasUnknownIdentity(drafts[k].operation)
  PROVE  /\ \E e : drafts[k].evidence = {e}
         /\ UNION {drafts[j].evidence : j \in GroupOf(drafts, k)} = drafts[k].evidence
<1>1. PICK V, R : drafts \in Seq(EndpointDrafts(V, R))
  BY DraftsAreTyped
<1>2. PICK of : Accounts(of)
  BY DEF DraftsInv
<1>3. ASSUME NEW j \in DOMAIN drafts, HasUnknownIdentity(drafts[j].operation)
      PROVE  \E e \in Sightings : e.role = "registration" /\ drafts[j].evidence = {e}
  <2>1. IsRegistration(drafts[j])
    <3> SUFFICES ASSUME ~IsRegistration(drafts[j]) PROVE FALSE
      OBVIOUS
    <3>1. of[j] \in DeclaredOperations /\ drafts[j] = DraftOf(of[j][1], of[j][2])
      BY <1>2 DEF Accounts, Ingested
    <3>2. unit \in Units
      BY DEF DraftsInv
    <3> QED BY <1>3, <3>1, <3>2, DeclaredIdentity
  <2> DEFINE d == drafts[j]
  <2>2. IsRegistration(d)
    BY <2>1
  <2> HIDE DEF d
  <2>3. PICK e \in Sightings :
          /\ e.role = "registration"
          /\ d = [operation |-> [method |-> d.operation.method, path |-> d.operation.path,
                                         destinations |-> {}],
                          refs |-> {}, provenance |-> {"router"},
                          resolution |-> DeriveResolution(d.operation, FALSE), evidence |-> {e}]
    BY <2>2, RegistrationFields
  <2>4. d.evidence = {e}
    BY <2>3
  <2> QED BY <2>3, <2>4 DEF d
<1>4. PICK e \in Sightings : e.role = "registration" /\ drafts[k].evidence = {e}
  BY <1>3
<1> DEFINE group == GroupOf(drafts, k)
<1>5. ASSUME NEW j \in group PROVE drafts[j].evidence = {e}
  <2>1. j \in DOMAIN drafts /\ EndpointCore(drafts[j]) = EndpointCore(drafts[k])
    BY DEF GroupOf
  <2>2. drafts[j] \in EndpointDrafts(V, R) /\ drafts[k] \in EndpointDrafts(V, R)
    BY <1>1, <2>1
  <2>3. drafts[j].operation = drafts[k].operation
    BY <2>1, <2>2, CoreIsOperation
  <2>4. PICK x \in Sightings : x.role = "registration" /\ drafts[j].evidence = {x}
    BY <1>3, <2>1, <2>3
  <2>5. StandsAt(drafts[j].evidence, AnchorOf(e))
    BY <1>1, <1>4, OneAnchorPerUnproven
  <2>6. AnchorOf(x) = AnchorOf(e)
    BY <2>4, <2>5 DEF StandsAt
  <2>7. x = e
    BY <1>4, <2>4, <2>6 DEF Sightings, AnchorOf
  <2> QED BY <2>4, <2>7
<1>6. k \in group
  BY <1>1, GroupsHaveHeads
<1> HIDE DEF group
<1>7. UNION {drafts[j].evidence : j \in group} = {e}
  BY <1>5, <1>6
<1> QED BY <1>4, <1>7 DEF group

LEMMA UnprovenFromInvariant ==
  ASSUME DraftsInv, ReportInv
  PROVE  UnprovenNeverMerge
<1> SUFFICES ASSUME Reported PROVE UnprovenNeverMerge
  BY DEF UnprovenNeverMerge
<1> DEFINE unproven == {f \in endpoints : HasUnknownIdentity(f.operation)}
<1> DEFINE extracted == {d \in ToSet(drafts) : HasUnknownIdentity(d.operation)}
<1> DEFINE Sighted == {<<d.operation, d.evidence>> : d \in extracted}
<1>1. PICK V, R : drafts \in Seq(EndpointDrafts(V, R))
  BY DraftsAreTyped
<1>2. endpoints = FinalizeEndpoints(drafts)
  BY DEF ReportInv, Reported
<1>3. ASSUME NEW f \in unproven
      PROVE  /\ <<f.operation, f.evidence>> \in Sighted
             /\ \E e : f.evidence = {e}
  <2>1. PICK k \in DOMAIN drafts :
           /\ f.operation = drafts[k].operation
           /\ f.evidence = UNION {drafts[j].evidence : j \in GroupOf(drafts, k)}
    BY FactIsMerged
  <2>2. f.evidence = drafts[k].evidence /\ \E e : drafts[k].evidence = {e}
    BY <2>1, UnprovenIsOneSighting
  <2>3. drafts[k] \in extracted
    BY <2>1 DEF ToSet
  <2> HIDE DEF extracted
  <2> QED BY <2>1, <2>2, <2>3
<1>4. ASSUME NEW f \in unproven, NEW g \in unproven,
             <<f.operation, f.evidence>> = <<g.operation, g.evidence>>
      PROVE  f = g
  <2>1. f.operation = g.operation /\ f.evidence = g.evidence
    BY <1>4
  <2>2. EndpointCore(f) = EndpointCore(g)
    BY <2>1 DEF EndpointCore
  <2> QED BY <1>1, <1>2, <2>2, IdentitiesAreUnique
<1>5. ASSUME NEW s \in Sighted
      PROVE  \E f \in unproven : <<f.operation, f.evidence>> = s
  <2>1. PICK d \in extracted : s = <<d.operation, d.evidence>>
    OBVIOUS
  <2>2. PICK k \in DOMAIN drafts : drafts[k] = d
    BY DEF ToSet
  <2> DEFINE f == MergeGroup(drafts, GroupOf(drafts, k))
  <2>3. f \in endpoints
    BY <1>2 DEF FinalizeEndpoints
  <2>4. f = MergedAt(drafts, k, GroupOf(drafts, k))
    BY <1>1, MergedFields
  <2> HIDE DEF f
  <2>5. /\ f.operation = drafts[k].operation
        /\ f.evidence = UNION {drafts[j].evidence : j \in GroupOf(drafts, k)}
    BY <2>4 DEF MergedAt
  <2>6. f.evidence = drafts[k].evidence
    BY <2>2, <2>5, UnprovenIsOneSighting
  <2> QED BY <2>1, <2>2, <2>3, <2>5, <2>6
<1>6. IsFiniteSet(unproven)
  <2>1. unproven \in SUBSET endpoints
    OBVIOUS
  <2> HIDE DEF unproven
  <2> QED BY <2>1, FiniteEndpoints, FS_Subset
<1> DEFINE sighting == [f \in unproven |-> <<f.operation, f.evidence>>]
<1>7. Cardinality(Sighted) = Cardinality(unproven)
  <2> HIDE DEF unproven, Sighted
  <2>1. sighting \in [unproven -> Sighted]
    BY <1>3
  <2>2. \A f, g \in unproven : sighting[f] = sighting[g] => f = g
    BY <1>4
  <2>3. \A s \in Sighted : \E f \in unproven : sighting[f] = s
    BY <1>5
  <2> HIDE DEF sighting
  <2> QED BY <1>6, <2>1, <2>2, <2>3, SameSize
<1>8. \A f \in unproven : Cardinality(f.evidence) = 1
  BY <1>3, FS_Singleton
<1> HIDE DEF Sighted
<1> QED BY <1>7, <1>8 DEF UnprovenNeverMerge, Sighted

(* Registrations without a proven route keep a fact each.                  *)
THEOREM UnprovenAreKeptApart == InboundSpec => []UnprovenNeverMerge
BY InboundInvariant, UnprovenFromInvariant, PTL

-----------------------------------------------------------------------------
(* The denominator of the coverage.                                        *)

LEMMA SameHeadAndTail ==
  ASSUME NEW S, NEW p \in Seq(S), NEW q \in Seq(S), NEW a \in S, NEW b \in S,
         <<a>> \o p = <<b>> \o q
  PROVE  a = b /\ p = q
<1> DEFINE s == <<a>> \o p
<1> DEFINE t == <<b>> \o q
<1>1. /\ Len(s) = Len(p) + 1 /\ s[1] = a /\ \A i \in 1..Len(p) : s[i + 1] = p[i]
      /\ Len(t) = Len(q) + 1 /\ t[1] = b /\ \A i \in 1..Len(q) : t[i + 1] = q[i]
  OBVIOUS
<1>2. s = t
  OBVIOUS
<1> HIDE DEF s, t
<1>3. Len(p) = Len(q) /\ a = b
  BY <1>1, <1>2
<1>4. \A i \in 1..Len(p) : p[i] = q[i]
  BY <1>1, <1>2, <1>3
<1> QED BY <1>3, <1>4

Spells(f, route) ==
  /\ f.operation.method = MethodNamed(route[1])
  /\ f.operation.path = Literal(route[2])

LEMMA SpelledIsKnown ==
  ASSUME NEW f, NEW route, Spells(f, route)
  PROVE  /\ ~HasUnknownIdentity(f.operation)
         /\ EndpointCore(f) = [method |-> MethodNamed(route[1]), path |-> Literal(route[2]),
                               anchor |-> {}]
<1> DEFINE method == MethodNamed(route[1])
<1> DEFINE path == Literal(route[2])
<1>1. ~ContainsUnknown(method) /\ ~ContainsUnknown(path)
  BY LiteralIsKnown DEF MethodNamed
<1>2. f.operation.method = method /\ f.operation.path = path
  BY DEF Spells
<1> HIDE DEF method, path
<1>3. ~HasUnknownIdentity(f.operation)
  BY <1>1, <1>2 DEF HasUnknownIdentity
<1>4. EndpointCore(f) = [method |-> method, path |-> path, anchor |-> {}]
  BY <1>2, <1>3 DEF EndpointCore
<1> QED BY <1>3, <1>4 DEF method, path

LEMMA DeclaredFactHasRoute ==
  ASSUME DraftsInv, ReportInv, Reported, NEW f \in Declared(endpoints)
  PROVE  \E o \in DeclaredOperations : Spells(f, RouteAt(o[1], o[2]))
<1>1. PICK of : Accounts(of)
  BY DEF DraftsInv
<1>2. unit \in Units
  BY DEF DraftsInv
<1>3. f \in endpoints /\ "openapi" \in f.provenance
  BY DEF Declared
<1>4. PICK k \in DOMAIN drafts :
        /\ f.provenance = UNION {drafts[j].provenance : j \in GroupOf(drafts, k)}
        /\ EndpointCore(f) = EndpointCore(drafts[k])
  BY <1>3, FactIsMerged
<1>5. PICK j \in GroupOf(drafts, k) : "openapi" \in drafts[j].provenance
  BY <1>3, <1>4
<1>6. j \in DOMAIN drafts /\ EndpointCore(f) = EndpointCore(drafts[j])
  BY <1>4, <1>5 DEF GroupOf
<1> DEFINE o == of[j]
<1>7. o \in DeclaredOperations /\ drafts[j] = DraftOf(o[1], o[2])
  BY <1>1, <1>5, <1>6, OpenapiIsDeclared
<1> HIDE DEF o
<1> DEFINE core == [method |-> MethodNamed(RouteAt(o[1], o[2])[1]),
                    path |-> Literal(RouteAt(o[1], o[2])[2]), anchor |-> {}]
<1>8. EndpointCore(f) = core
  BY <1>2, <1>6, <1>7, DeclaredIdentity
<1>9. EndpointCore(f).method = f.operation.method /\ EndpointCore(f).path = f.operation.path
  BY DEF EndpointCore
<1> QED BY <1>7, <1>8, <1>9 DEF Spells

LEMMA RouteHasDeclaredFact ==
  ASSUME DraftsInv, ReportInv, Reported, NEW o \in DeclaredOperations
  PROVE  \E f \in Declared(endpoints) : Spells(f, RouteAt(o[1], o[2]))
<1>1. PICK of : Accounts(of)
  BY DEF DraftsInv
<1>2. unit \in Units
  BY DEF DraftsInv
<1>3. PICK k \in DOMAIN drafts : drafts[k] = DraftOf(o[1], o[2])
  BY <1>1, EveryDeclaredIsDrafted
<1>4. PICK V, R : drafts \in Seq(EndpointDrafts(V, R))
  BY DraftsAreTyped
<1>5. PICK f \in FinalizeEndpoints(drafts) :
        f.operation = drafts[k].operation /\ drafts[k].provenance \subseteq f.provenance
  BY <1>4, NoDraftIsLost
<1>6. f \in endpoints
  BY DEF ReportInv, Reported
<1>7. drafts[k].provenance = {"openapi"}
  BY <1>2, <1>3, DeclaredIdentity
<1>8. f \in Declared(endpoints)
  BY <1>5, <1>6, <1>7 DEF Declared
<1>9. Spells(f, RouteAt(o[1], o[2]))
  BY <1>2, <1>3, <1>5, DeclaredIdentity DEF Spells
<1> QED BY <1>8, <1>9

(* As many declared facts as declared routes.                              *)
LEMMA DeclaredFactsAreRoutes ==
  ASSUME DraftsInv, ReportInv, Reported
  PROVE  Cardinality(Declared(endpoints))
           = Cardinality({RouteAt(o[1], o[2]) : o \in DeclaredOperations})
<1> DEFINE Routes == {RouteAt(o[1], o[2]) : o \in DeclaredOperations}
<1> DEFINE routeOf == [f \in Declared(endpoints) |-> CHOOSE r \in Routes : Spells(f, r)]
<1>1. unit \in Units
  BY DEF DraftsInv
<1>2. PICK V, R : drafts \in Seq(EndpointDrafts(V, R))
  BY DraftsAreTyped
<1>3. endpoints = FinalizeEndpoints(drafts)
  BY DEF ReportInv, Reported
<1>4. ASSUME NEW f \in Declared(endpoints)
      PROVE  routeOf[f] \in Routes /\ Spells(f, routeOf[f])
  <2>1. \E r \in Routes : Spells(f, r)
    BY DeclaredFactHasRoute
  <2> HIDE DEF Routes
  <2> QED BY <2>1
<1>5. ASSUME NEW f \in Declared(endpoints), NEW g \in Declared(endpoints),
             routeOf[f] = routeOf[g]
      PROVE  f = g
  <2>1. Spells(f, routeOf[f]) /\ Spells(g, routeOf[f])
    BY <1>4, <1>5
  <2> HIDE DEF routeOf
  <2>2. EndpointCore(f) = EndpointCore(g)
    BY <2>1, SpelledIsKnown
  <2>3. f \in FinalizeEndpoints(drafts) /\ g \in FinalizeEndpoints(drafts)
    BY <1>3 DEF Declared
  <2> QED BY <1>2, <2>2, <2>3, IdentitiesAreUnique
<1>6. ASSUME NEW r \in Routes
      PROVE  \E f \in Declared(endpoints) : routeOf[f] = r
  <2>1. PICK o \in DeclaredOperations : r = RouteAt(o[1], o[2])
    OBVIOUS
  <2>2. PICK f \in Declared(endpoints) : Spells(f, r)
    BY <2>1, RouteHasDeclaredFact
  <2>3. routeOf[f] \in Routes /\ Spells(f, routeOf[f])
    BY <1>4
  <2> HIDE DEF routeOf
  <2>4. PICK p \in DeclaredOperations : routeOf[f] = RouteAt(p[1], p[2])
    BY <2>3
  <2>5. RouteAt(o[1], o[2]) = RouteAt(p[1], p[2])
    BY <1>1, <2>1, <2>2, <2>3, <2>4, RoutesAreSpelled DEF Spells
  <2> QED BY <2>1, <2>4, <2>5
<1>7. IsFiniteSet(Declared(endpoints))
  <2>1. Declared(endpoints) \in SUBSET endpoints
    BY DEF Declared
  <2> QED BY <2>1, FiniteEndpoints, FS_Subset
<1>8. routeOf \in [Declared(endpoints) -> Routes]
  <2> HIDE DEF Routes
  <2> QED BY <1>4
<1> HIDE DEF routeOf, Routes
<1>9. Cardinality(Routes) = Cardinality(Declared(endpoints))
  BY <1>5, <1>6, <1>7, <1>8, SameSize
<1> QED BY <1>9 DEF Routes

DeclaredOnly == {f \in Declared(endpoints) : f.provenance = {"openapi"}}
Registered == {f \in Declared(endpoints) : "router" \in f.provenance}
Missing == {d \in diagnostics : d.code = "openapi_route_not_in_code"}

(* A declared fact is registered, or it has the declaration alone.         *)
LEMMA DeclaredFactsSplit ==
  ASSUME DraftsInv, ReportInv, Reported
  PROVE  /\ IsFiniteSet(DeclaredOnly)
         /\ Cardinality(Declared(endpoints)) = Cardinality(Registered) + Cardinality(DeclaredOnly)
<1>1. PICK V, R : drafts \in Seq(EndpointDrafts(V, R))
  BY DraftsAreTyped
<1>2. ASSUME NEW f \in endpoints PROVE f.provenance \subseteq {"openapi", "router"}
  <2>1. PICK k \in DOMAIN drafts :
          f.provenance = UNION {drafts[j].provenance : j \in GroupOf(drafts, k)}
    BY FactIsMerged
  <2>2. ASSUME NEW j \in GroupOf(drafts, k)
        PROVE  drafts[j].provenance \subseteq {"openapi", "router"}
    <3>1. drafts[j] \in EndpointDrafts(V, R)
      BY <1>1 DEF GroupOf
    <3> QED BY <3>1 DEF EndpointDrafts
  <2> QED BY <2>1, <2>2
<1>3. Declared(endpoints) = Registered \cup DeclaredOnly
  BY <1>2 DEF Declared, Registered, DeclaredOnly
<1>4. Registered \cap DeclaredOnly = {}
  BY DEF Registered, DeclaredOnly
<1>5. Registered \in SUBSET endpoints /\ DeclaredOnly \in SUBSET endpoints
  BY DEF Declared, Registered, DeclaredOnly
<1>6. IsFiniteSet(Registered) /\ IsFiniteSet(DeclaredOnly)
  BY <1>5, FiniteEndpoints, FS_Subset
<1>7. Cardinality(Registered \cap DeclaredOnly) = 0
  BY <1>4, FS_EmptySet
<1>8. Cardinality(Registered) \in Nat /\ Cardinality(DeclaredOnly) \in Nat
  BY <1>6, FS_CardinalityType
<1>9. Cardinality(Registered \cup DeclaredOnly)
        = Cardinality(Registered) + Cardinality(DeclaredOnly)
            - Cardinality(Registered \cap DeclaredOnly)
  BY <1>6, FS_Union
<1> QED BY <1>3, <1>6, <1>7, <1>8, <1>9

(* What is written of a route names one fact.                              *)
LEMMA DiagnosticNamesFact ==
  ASSUME DraftsInv, ReportInv, Reported, NEW f \in DeclaredOnly, NEW g \in DeclaredOnly, NEW code,
         RouteDiagnostic(f, code) = RouteDiagnostic(g, code)
  PROVE  f = g
<1>1. unit \in Units /\ f \in Declared(endpoints) /\ g \in Declared(endpoints)
  BY DEF DraftsInv, DeclaredOnly
<1>2. PICK o \in DeclaredOperations : Spells(f, RouteAt(o[1], o[2]))
  BY <1>1, DeclaredFactHasRoute
<1>3. PICK p \in DeclaredOperations : Spells(g, RouteAt(p[1], p[2]))
  BY <1>1, DeclaredFactHasRoute
<1> DEFINE m == Upper[RouteAt(o[1], o[2])[1]]
<1> DEFINE n == Upper[RouteAt(p[1], p[2])[1]]
<1> DEFINE s == RouteAt(o[1], o[2])[2]
<1> DEFINE t == RouteAt(p[1], p[2])[2]
<1> DEFINE S == STRING \cup {"{}", "{*}"} \cup {m, n}
<1>4. s \in Seq(S) /\ t \in Seq(S)
  <2> DEFINE P == STRING \cup {"{}", "{*}"}
  <2>1. s \in Seq(P)
    <3>1. OperationAt(o[1], o[2]).path \in Seq(STRING) /\ unit.serves[o[1]].mount \in Seq(STRING)
      BY <1>1, DeclaredShape DEF DeclaredOperation
    <3> QED BY <3>1, CanonicalPathIsSequence DEF RouteAt
  <2>2. t \in Seq(P)
    <3>1. OperationAt(p[1], p[2]).path \in Seq(STRING) /\ unit.serves[p[1]].mount \in Seq(STRING)
      BY <1>1, DeclaredShape DEF DeclaredOperation
    <3> QED BY <3>1, CanonicalPathIsSequence DEF RouteAt
  <2>3. P \subseteq S
    OBVIOUS
  <2> HIDE DEF s, t, P, S
  <2> QED BY <2>1, <2>2, <2>3, WiderSequence
<1>5. /\ RouteDiagnostic(f, code).callee = <<m>> \o s
      /\ RouteDiagnostic(g, code).callee = <<n>> \o t
  BY <1>2, <1>3, LiteralIsKnown DEF RouteDiagnostic, Spells, MethodNamed
<1>6. m \in S /\ n \in S
  OBVIOUS
<1>7. f.operation.method = Literal(<<m>>) /\ f.operation.path = Literal(s)
  BY <1>2 DEF Spells, MethodNamed
<1>8. g.operation.method = Literal(<<n>>) /\ g.operation.path = Literal(t)
  BY <1>3 DEF Spells, MethodNamed
<1> HIDE DEF m, n, s, t, S
<1>9. m = n /\ s = t
  <2>1. <<m>> \o s = <<n>> \o t
    BY <1>5
  <2> QED BY <1>4, <1>6, <2>1, SameHeadAndTail
<1>10. EndpointCore(f) = EndpointCore(g)
  <2>1. f.operation.method = g.operation.method /\ f.operation.path = g.operation.path
    BY <1>7, <1>8, <1>9
  <2>2. ~HasUnknownIdentity(f.operation) /\ ~HasUnknownIdentity(g.operation)
    BY <1>2, <1>3, SpelledIsKnown
  <2> QED BY <2>1, <2>2 DEF EndpointCore
<1>11. f \in FinalizeEndpoints(drafts) /\ g \in FinalizeEndpoints(drafts)
  BY <1>1 DEF Declared, ReportInv, Reported
<1>12. PICK V, R : drafts \in Seq(EndpointDrafts(V, R))
  BY DraftsAreTyped
<1> QED BY <1>10, <1>11, <1>12, IdentitiesAreUnique

(* The report has a diagnostic for each of them.                           *)
LEMMA MissingAreDeclaredOnly ==
  ASSUME DraftsInv, ReportInv, Reported
  PROVE  Cardinality(Missing) = Cardinality(DeclaredOnly)
<1> DEFINE absent == "openapi_route_not_in_code"
<1> DEFINE diagnosis == [f \in DeclaredOnly |-> RouteDiagnostic(f, absent)]
<1>1. \A d : d.code = absent =>
        (d \in diagnostics <=> d \in CrossCheck(endpoints, HasInventory))
  BY DEF ReportInv, MissingHalfCodes
<1>2. \A f : RouteDiagnostic(f, absent).code = absent
  BY DEF RouteDiagnostic
<1>3. ASSUME NEW f \in DeclaredOnly PROVE diagnosis[f] \in Missing
  <2>1. f \in endpoints /\ f \in Declared(endpoints) /\ f.provenance = {"openapi"}
    BY DEF DeclaredOnly, Declared
  <2>2. ~HasUnknownIdentity(f.operation)
    BY <2>1, DeclaredFactHasRoute, SpelledIsKnown
  <2>3. MissingHalf(f, HasInventory) = {absent}
    BY <2>1, <2>2 DEF MissingHalf
  <2>4. RouteDiagnostic(f, absent) \in CrossCheck(endpoints, HasInventory)
    <3> HIDE DEF absent
    <3> QED BY <2>1, <2>3 DEF CrossCheck
  <2>5. RouteDiagnostic(f, absent) \in Missing
    BY <1>1, <1>2, <2>4 DEF Missing
  <2> QED BY <2>5
<1>4. ASSUME NEW d \in Missing PROVE \E f \in DeclaredOnly : diagnosis[f] = d
  <2>1. d.code = absent /\ d \in CrossCheck(endpoints, HasInventory)
    BY <1>1 DEF Missing
  <2>2. PICK f \in endpoints :
          \E code \in MissingHalf(f, HasInventory) : d = RouteDiagnostic(f, code)
    BY <2>1 DEF CrossCheck
  <2>3. absent \in MissingHalf(f, HasInventory) /\ d = RouteDiagnostic(f, absent)
    BY <2>1, <2>2 DEF RouteDiagnostic
  <2>4. f.provenance = {"openapi"}
    BY <2>3 DEF MissingHalf
  <2>5. f \in DeclaredOnly
    BY <2>2, <2>4 DEF DeclaredOnly, Declared
  <2> QED BY <2>2, <2>3, <2>5
<1>5. ASSUME NEW f \in DeclaredOnly, NEW g \in DeclaredOnly, diagnosis[f] = diagnosis[g]
      PROVE  f = g
  <2>1. RouteDiagnostic(f, absent) = RouteDiagnostic(g, absent)
    BY <1>5
  <2> HIDE DEF absent
  <2> QED BY <2>1, DiagnosticNamesFact
<1>6. diagnosis \in [DeclaredOnly -> Missing]
  BY <1>3
<1>7. IsFiniteSet(DeclaredOnly)
  BY DeclaredFactsSplit
<1> HIDE DEF diagnosis
<1> QED BY <1>4, <1>5, <1>6, <1>7, SameSize

LEMMA CountFromInvariant ==
  ASSUME DraftsInv, ReportInv
  PROVE  DeclaredIsCountedOrReported
<1> DEFINE Routes == {RouteAt(o[1], o[2]) : o \in DeclaredOperations}
<1> SUFFICES ASSUME Reported, HasInventory, NEW c \in coverage.inbound
             PROVE  /\ c.declared = Cardinality(Routes)
                    /\ c.declared = c.registered + Cardinality(Missing)
  BY DEF DeclaredIsCountedOrReported, Missing
<1>1. c \in InboundCoverage(endpoints, HasInventory)
  BY DEF ReportInv
<1>2. c.declared = Cardinality(Declared(endpoints)) /\ c.registered = Cardinality(Registered)
  BY <1>1 DEF InboundCoverage, Registered
<1>3. c.declared = Cardinality(Routes)
  BY <1>2, DeclaredFactsAreRoutes
<1>4. c.declared = c.registered + Cardinality(Missing)
  BY <1>2, DeclaredFactsSplit, MissingAreDeclaredOnly
<1> QED BY <1>3, <1>4

(* Every declared route is counted once, as registered or as missing.      *)
THEOREM DeclaredRoutesAreCounted == InboundSpec => []DeclaredIsCountedOrReported
BY InboundInvariant, CountFromInvariant, PTL
=============================================================================
