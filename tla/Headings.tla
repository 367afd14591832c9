------------------------------ MODULE Headings ------------------------------
(***************************************************************************)
(* The headings of declarations that share a name                         *)
(* (src/features/build/rendering/qualified-name.ts).  A declaration is a   *)
(* record with its name, a sequence of identifiers (one but for a nested   *)
(* Python enum), and the directory of its file, a sequence of segments.    *)
(***************************************************************************)
EXTENDS Naturals, Sequences

Suffix(directory, depth) ==
  IF depth >= Len(directory) THEN directory
  ELSE SubSeq(directory, Len(directory) - depth + 1, Len(directory))

Claimants(declarations, i) ==
  {j \in DOMAIN declarations : declarations[j].name = declarations[i].name}

(* The numbers of trailing segments that only this claimant ends in.       *)
Separating(declarations, i) ==
  {depth \in 1..Len(declarations[i].dir) :
     \A j \in Claimants(declarations, i) \ {i} :
        Suffix(declarations[j].dir, depth) # Suffix(declarations[i].dir, depth)}

QualifierOneSegment(declarations, i) == Suffix(declarations[i].dir, 1)
Qualifier(declarations, i) ==
  LET depths == Separating(declarations, i)
  IN  IF depths = {} THEN declarations[i].dir
      ELSE Suffix(declarations[i].dir, CHOOSE d \in depths : \A e \in depths : d <= e)

QualifiedName(declarations, i) ==
  [path |-> IF Claimants(declarations, i) = {i} THEN <<>> ELSE Qualifier(declarations, i),
   name |-> declarations[i].name]

(* The text of a heading, token by token.                                  *)
Joined(words, mark) ==
  IF words = <<>> THEN <<>>
  ELSE [k \in 1..(2 * Len(words) - 1) |-> IF k % 2 = 1 THEN words[(k + 1) \div 2] ELSE mark]

Heading(declarations, i) ==
  LET qualified == QualifiedName(declarations, i)
  IN  Joined(qualified.path, "/")
        \o (IF qualified.path = <<>> THEN <<>> ELSE <<".">>)
        \o Joined(qualified.name, ".")

(* What the headings of a section must do: a bare name where nothing else  *)
(* claims it, and one text for two declarations only where they share name *)
(* and directory, or are nested to different depths.                       *)
TellsApart(declarations) ==
  \A i, j \in DOMAIN declarations :
    LET a == declarations[i]
        b == declarations[j]
    IN  /\ Claimants(declarations, i) = {i} => Heading(declarations, i) = Joined(a.name, ".")
        /\ Heading(declarations, i) = Heading(declarations, j)
             => \/ a.name = b.name /\ a.dir = b.dir
                \/ Len(a.name) # Len(b.name)

=============================================================================
