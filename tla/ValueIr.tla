------------------------------ MODULE ValueIr ------------------------------
(***************************************************************************)
(* The values detection proves and the canonical form of a path.  A value  *)
(* has a kind and parts; a part is a run of text, a configuration locator  *)
(* or a hole that carries its reason.  Text is a sequence of path segments *)
(* and is told apart no further.                                           *)
(***************************************************************************)
EXTENDS Naturals, Sequences, FiniteSets, SequencesExt

CONSTANTS
  Parameters,   \* segments written as a parameter: {id}, <id>, :id
  Wildcards,    \* segments written as a wildcard: *, **, {rest:.*}
  Queries,      \* segments that open a query string or a fragment
  Authorities,  \* segments that are a scheme and an authority: https://host
  Upper         \* the upper-case spelling of a member's name

ASSUME SegmentClasses ==
  /\ "{}" \notin Parameters \cup Wildcards \cup Queries
  /\ "{*}" \notin Parameters \cup Wildcards \cup Queries
  /\ Parameters \cap Queries = {} /\ Wildcards \cap Queries = {}

Text(segments) == [kind |-> "text", is |-> segments]
Hole(reason) == [kind |-> "unknown", is |-> <<reason>>]

Literal(segments) == [kind |-> "literal", parts |-> <<Text(segments)>>]
Unknown(reason) == [kind |-> "unknown", parts |-> <<Hole(reason)>>]
MethodNamed(member) == Literal(<<Upper[member]>>)
ConfigRef(names) == [kind |-> "config_ref", parts |-> <<[kind |-> "ref", is |-> names]>>]

Reasons(value) ==
  {part.is[1] : part \in {p \in ToSet(value.parts) : p.kind = "unknown"}}

ContainsUnknown(value) == Reasons(value) # {}

(* Adjacent runs are one run and adjacent holes of one reason one hole.    *)
Joined(parts, part) ==
  LET previous == Last(parts)
  IN  IF parts = <<>> \/ previous.kind # part.kind \/ part.kind = "ref"
        THEN Append(parts, part)
      ELSE IF part.kind = "text"
        THEN Append(Front(parts), Text(previous.is \o part.is))
      ELSE IF previous = part THEN parts ELSE Append(parts, part)

(* A lone hole stays a template: only a lone run is a literal.             *)
TemplateOf(parts) ==
  LET joined == FoldLeft(Joined, <<>>, parts)
  IN  [kind |-> IF \A part \in ToSet(joined) : part.kind = "text" THEN "literal" ELSE "template",
       parts |-> joined]

ConcatValues(left, right) == TemplateOf(left.parts \o right.parts)

-----------------------------------------------------------------------------
(* The path grammar.                                                       *)

CanonicalSegment(segment) ==
  IF segment \in Wildcards THEN "{*}"
  ELSE IF segment \in Parameters THEN "{}"
  ELSE segment

BeforeQuery(segments) ==
  LET queries == {i \in DOMAIN segments : segments[i] \in Queries}
  IN  IF queries = {} THEN segments
      ELSE SubSeq(segments, 1, (CHOOSE i \in queries : \A j \in queries : i <= j) - 1)

Canonical(segments) ==
  FlattenSeq([i \in DOMAIN segments |->
    IF segments[i] = "" THEN <<>> ELSE <<CanonicalSegment(segments[i])>>])

(* Every component loses its own query string.                             *)
CanonicalPath(components) ==
  Canonical(FlattenSeq([i \in DOMAIN components |-> BeforeQuery(components[i])]))

(* The parts are one component here: a query in one of them cuts the later *)
(* ones, holes included.                                                   *)
CanonicalPathIr(value) ==
  LET cuts == {i \in DOMAIN value.parts :
                 /\ value.parts[i].kind = "text"
                 /\ ToSet(value.parts[i].is) \cap Queries # {}}
      kept == IF cuts = {} THEN value.parts
              ELSE SubSeq(value.parts, 1, CHOOSE i \in cuts : \A j \in cuts : i <= j)
  IN  TemplateOf([i \in DOMAIN kept |->
        IF kept[i].kind = "text" THEN Text(Canonical(BeforeQuery(kept[i].is))) ELSE kept[i]])

(* A hard-coded absolute URL carries its own destination.                  *)
IsAbsolute(value) ==
  /\ value.parts # <<>> /\ value.parts[1].kind = "text"
  /\ value.parts[1].is # <<>> /\ value.parts[1].is[1] \in Authorities

UrlOrigin(value) == Literal(<<value.parts[1].is[1]>>)

UrlPath(value) ==
  IF IsAbsolute(value)
    THEN TemplateOf(<<Text(Tail(value.parts[1].is))>> \o Tail(value.parts))
    ELSE value
=============================================================================
