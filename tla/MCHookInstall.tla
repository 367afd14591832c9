--------------------------- MODULE MCHookInstall ---------------------------
(* Two runs of the installers and a person with two edits.                 *)
EXTENDS HookInstall, TLC

Other(names) == [hook |-> FALSE, others |-> names]
Shared == [hook |-> TRUE, others |-> {"lint"}]

MCCalls ==
  {[pieces |-> p, force |-> f] :
     p \in {<<"settings", "skill">>, <<"hook">>}, f \in BOOLEAN}

MCSaves ==
  [settings |-> {Absent, Invalid, NotObject, Misshapen,
                 Settings({"model"}, <<Other({"format"}), Shared, Other({"test"})>>),
                 Settings({"model"}, <<Other({"format"})>>)},
   skill |-> {Absent, Edited},
   hook |-> {Absent, Edited}]

MCScenes == {{"settings", "skill"}, {"hook"}}

Symmetry == Permutations(Runs)
=============================================================================
