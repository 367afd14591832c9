---------------------------- MODULE MCBuildRuns ----------------------------
(***************************************************************************)
(* Small instances of BuildRuns for TLC.  The configurations choose among  *)
(* the definitions below for the constants that are not plain values.      *)
(***************************************************************************)
EXTENDS BuildRuns, TLC

Rel(x, y, z) == [major |-> x, minor |-> y, patch |-> z]

\* Three releases: two lines, and two patches of the upper one.
Old == Rel(2, 0, 1)
New == Rel(2, 1, 0)
Patched == Rel(2, 1, 2)

Call(cmd, rel, flags) ==
  [cmd |-> cmd, release |-> rel, pre |-> FALSE, flags |-> flags]
Candidate(cmd, rel) ==
  [cmd |-> cmd, release |-> rel, pre |-> TRUE, flags |-> {}]

\* Command lines.
BuildsAndChecks ==
  {Call(cmd, rel, {}) : cmd \in {"build", "check"}, rel \in {Old, New}}
FloorCalls ==
  {Call("build", rel, {}) : rel \in {Old, New, Patched}}
    \cup {Call("check", New, {}), Candidate("build", Patched)}
    \cup {Call("init", Old, {}), Call("facts", Old, {})}
    \cup {Call("build", New, {"only_unknown"})}
OverlapCalls ==
  {Call("build", New, {"strict"}), Call("check", New, {"strict"}),
   Call("init", Old, {"force"})}
RaisingBuilds == {Call("build", rel, {}) : rel \in {Old, New}}
StrictCalls == {Call("build", New, {"strict"})}

\* Configurations: what `init` writes, the same with other floors, with a
\* floor that is no plain scalar (or not there), and with other settings.
Text(declared, settings, other) ==
  [floor |-> declared, plain |-> TRUE, unit |-> settings, rest |-> other]
Fresh(rel) == Text(LineOf(rel), "unit", "rest")

Floors == {NoFloor, Rel(1, 0, 0), Rel(2, 0, 0), Rel(2, 1, 0), Rel(2, 1, 1)}
FloorConfigs == {Text(f, "unit", "rest") : f \in Floors}
AnchoredConfigs ==
  {[Text(f, "unit", "rest") EXCEPT !.plain = p] : f \in Floors, p \in BOOLEAN}
EditedConfigs ==
  {Text(f, u, "rest") : f \in {Rel(1, 0, 0), Rel(2, 0, 0), Rel(2, 1, 0)},
                        u \in {"unit", "unit2"}}

WholeOf(S) == {Whole(c) : c \in S}
FloorAt(f) == WholeOf({Text(f, "unit", "rest")})
LowFloor == FloorAt(Rel(1, 0, 0))
OldFloor == FloorAt(Rel(2, 0, 0))
AnyFloor == WholeOf(FloorConfigs)
AnyFile == WholeOf(AnchoredConfigs) \cup {Absent, Rejected}

OneTree == {[f \in File |-> CHOOSE c \in Content : TRUE]}

\* "a" raises nothing, "b" an unclassified site, "m" a mandatory diagnostic.
RaisesOf == [c \in Content |-> CASE c = "b" -> {"site"}
                                 [] c = "m" -> {"selector"}
                                 [] OTHER -> {}]

\* The unclassified baseline: absent, unreadable, or listing cores.
NoBaseline == {Absent}
SomeBaseline ==
  {Absent, Rejected, Whole({}), Whole({"site"}), Whole({"site", "selector"})}
AnyBaseline == {Absent, Rejected} \cup {Whole(b) : b \in SUBSET Core}

Symmetry == Permutations(Run)

=============================================================================
