---------------------------- MODULE VersionFloor ----------------------------
(***************************************************************************)
(* What the version floor promises a repository (INV-006, BEH-017): only a *)
(* release the floor admits completes a build, only a release that         *)
(* completed one raises the floor, a raise goes up to that release's line, *)
(* and what else moves the floor is a revision a person made.              *)
(***************************************************************************)
EXTENDS ToolVersion

CONSTANTS NoFloor, Known   \* no floor is declared; the releases in use

VARIABLES
  floor,     \* the declared floor
  built,     \* the releases that completed a build
  revision   \* how often a person edited the working copy

vars == <<floor, built, revision>>

Admits(rel) == floor = NoFloor \/ ~IsBelow(rel, floor)

Init ==
  /\ floor \in Release \cup {NoFloor}
  /\ built = {}
  /\ revision = 0

Build(rel) ==
  /\ Admits(rel)
  /\ built' = built \cup {rel}
  /\ UNCHANGED <<floor, revision>>

RaiseTo(rel) ==
  /\ rel \in built
  /\ floor # NoFloor
  /\ ExceedsLine(rel, floor)
  /\ floor' = LineOf(rel)
  /\ UNCHANGED <<built, revision>>

\* init scaffolds a configuration where there is none.
Scaffold(rel) ==
  /\ floor = NoFloor
  /\ floor' = LineOf(rel)
  /\ UNCHANGED <<built, revision>>

Declare ==
  /\ floor' \in Release \cup {NoFloor}
  /\ revision' = revision + 1
  /\ UNCHANGED built

Next ==
  \/ \E rel \in Known : Build(rel) \/ RaiseTo(rel) \/ Scaffold(rel)
  \/ Declare

Spec == Init /\ [][Next]_vars
=============================================================================
