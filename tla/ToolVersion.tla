---------------------------- MODULE ToolVersion ----------------------------
(***************************************************************************)
(* Releases of the tool and the arithmetic of the version floor            *)
(* (src/src/core/domain/tool-version.ts).  A release is its three numeric  *)
(* components; a prerelease or build suffix is dropped by parseRunning and *)
(* survives only as the flag isPrerelease reads off the string.            *)
(***************************************************************************)
EXTENDS Naturals

Release == [major: Nat, minor: Nat, patch: Nat]

\* compareReleases: negative, on major, then minor, then patch as numbers.
IsBelow(left, right) ==
  \/ left.major < right.major
  \/ left.major = right.major /\ left.minor < right.minor
  \/ left.major = right.major /\ left.minor = right.minor
                              /\ left.patch < right.patch

\* The comparison that decides a raise: the patch takes no part in it.
ExceedsLine(running, declared) ==
  \/ running.major > declared.major
  \/ running.major = declared.major /\ running.minor > declared.minor

\* What a floor is raised to: the first release of the running line.
LineOf(running) == [running EXCEPT !.patch = 0]

=============================================================================
