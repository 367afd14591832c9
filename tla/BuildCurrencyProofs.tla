------------------------ MODULE BuildCurrencyProofs ------------------------
(***************************************************************************)
(* Theorems about what a run of BuildRuns tells of the working copy: that  *)
(* a check accepts only current outputs, that a build is a fixed point,    *)
(* that the ratchet is exact and that a raise is paid.                     *)
(***************************************************************************)
EXTENDS BuildRunsProofs

(***************************************************************************)
(* What a run knows of the working copy while nobody else changes it.      *)
(* Everything below is said of runs that are still stable, so it holds     *)
(* whatever runs overlap: the first foreign write or edit ends the claim.  *)
(***************************************************************************)
Scaffolded == {"probe", "create", "scaffold"}
Rendered == Checking \cup Writing \cup Raising
Loaded == Mapping \cup Detecting \cup Rendered

\* Where a run stands, stable or not.
Standing(r) ==
  /\ CommandAt(r)
  /\ pc[r] \in Checking => call[r].cmd = "check"
  /\ pc[r] \in Scaffolded => call[r].cmd = "init"
  /\ pc[r] \in Detecting => call[r].cmd = "facts" \/ DetectionWanted
  /\ pc[r] \notin Writing \cup Raising \cup {"done"} => out[r] = 1
  /\ pc[r] \in {"baseline"} \cup Raising => out[r] > Len(Outputs)
  /\ pc[r] \notin Raising \cup {"done"} => exit[r] = 0
  /\ pc[r] \in {"idle", "load", "walk"} => mapSnap[r] = NothingRead
  /\ pc[r] \in {"idle", "load", "walk", "scan", "walkUnit"}
       => unitSnap[r] = NothingRead
  /\ \A q \in before[r] : pc[q] = "done"

\* The source as a scan has it that has read the files of S.
Partly(S) == [f \in File |-> IF f \in S THEN source[f] ELSE Gone]
UnitFiles == IF DetectionWanted THEN source ELSE NothingRead
Resolves(settings) ==
  DetectionWanted => /\ settings \notin BadLocator
                     /\ \A f \in SpecFile : source[f] # Gone

SettingsHold(r) ==
  /\ pc[r] \in Loaded \ {"amending"} => config.is = "whole" /\ conf[r] = config
  /\ pc[r] \in Loaded => ~Refuses(cfg(r).floor, release(r))
  /\ pc[r] \in {"amend", "amending"} => OwesRaise(r) /\ exit[r] = 0
  /\ pc[r] = "amend" => text[r] = config
  /\ pc[r] = "amending" =>
       conf[r].is = "whole" /\ text[r] = conf[r] /\ config = Empty

ScansHold(r) ==
  /\ pc[r] \in {"scan", "unit"} => todo[r] \subseteq Existing
  /\ pc[r] = "scan" => mapSnap[r] = Partly(SourceFile \ todo[r])
  /\ pc[r] = "unit" => unitSnap[r] = Partly(SourceFile \ todo[r])
  /\ pc[r] = "specs" =>
       /\ todo[r] \subseteq SpecFile
       /\ unitSnap[r] = Partly(SourceFile \cup (SpecFile \ todo[r]))
       /\ cfg(r).unit \notin BadLocator
       /\ \A f \in SpecFile \ todo[r] : source[f] # Gone
  /\ pc[r] \in Detecting \cup Rendered =>
       call[r].cmd = "facts" \/ mapSnap[r] = Walked
  /\ pc[r] \in Rendered => unitSnap[r] = UnitFiles /\ Resolves(cfg(r).unit)

OutputsHold(r) ==
  /\ pc[r] \in Writing \cup Raising =>
       \A k \in DOMAIN Outputs :
         k < out[r] => disk[Outputs[k]] = Whole(Rendering(r, Outputs[k]))
  /\ pc[r] = "flush" => disk[Outputs[out[r]]] = Empty
  /\ pc[r] = "checkDocument" /\ FactsOut =>
       /\ disk["facts"] = Whole(Rendering(r, "facts"))
       /\ Diagnostics(r) \cap Mandatory = {}

\* The baseline is the cores the run emits outside the mandatory ones.
Exact(r) ==
  IF DeclaresBaseline THEN baseline = Whole(Diagnostics(r) \ Mandatory)
  ELSE Diagnostics(r) \subseteq Mandatory
Judged(r) == "strict" \in call[r].flags => (exit[r] = 0 <=> Exact(r))

\* The outputs on disk are what the tree renders to.
Current(r) ==
  /\ disk["md"] = Whole(DocumentOf(release(r), config.text, Walked, CurrentUnit))
  /\ FactsOut => disk["facts"] = Whole(ArtifactOf(analyzer(r), CurrentUnit))

Paid(r) ==
  exit[r] = 0 /\ ~call[r].pre /\ config.text.plain /\ config.text.floor # NoFloor
  => ~IsBelow(config.text.floor, LineOf(release(r)))

Settled(r) ==
  /\ config.is = "whole"
  /\ ~Refuses(config.text.floor, release(r))
  /\ Resolves(config.text.unit)
  /\ Current(r)
  /\ unitSnap[r] = UnitFiles
  /\ Judged(r)
  /\ Paid(r)

EndHolds(r) ==
  pc[r] = "done" =>
    /\ call[r].cmd = "build" /\ exit[r] \in {0, 6} => Settled(r)
    /\ call[r].cmd = "check" /\ exit[r] = 0 => Current(r)

Holds(r) ==
  /\ SettingsHold(r)
  /\ ScansHold(r)
  /\ OutputsHold(r)
  /\ pc[r] \in Raising => Judged(r)
  /\ EndHolds(r)

\* A run that starts after a stable one ended is stable as long as that one is.
Inherits(q, r) == q \in before[r] /\ stable[q] /\ Active(r) => stable[r]

DiskShape ==
  \A a \in Artifact : disk[a].is = "whole" => disk[a] = Whole(disk[a].text)

CurrencyInv ==
  /\ TypeInv
  /\ DiskShape
  /\ \A r \in Run : Standing(r) /\ (stable[r] => Holds(r))
  /\ \A q, r \in Run : Inherits(q, r)
  /\ FixedPoint

-----------------------------------------------------------------------------
(***************************************************************************)
(* A run that does not move.                                               *)
(***************************************************************************)
Still(q) ==
  /\ pc'[q] = pc[q] /\ call'[q] = call[q] /\ conf'[q] = conf[q]
  /\ todo'[q] = todo[q] /\ mapSnap'[q] = mapSnap[q]
  /\ unitSnap'[q] = unitSnap[q] /\ out'[q] = out[q] /\ text'[q] = text[q]
  /\ exit'[q] = exit[q] /\ before'[q] = before[q]

\* What one run does to the others: nothing to their own state, and nothing
\* to the working copy that leaves them stable.
Moves(r) ==
  /\ pc[r] # "done"
  /\ \A q \in Run \ {r} : Still(q)
  /\ \/ UNCHANGED copy /\ \A q \in Run \ {r} : stable'[q] = stable[q]
     \/ \A q \in Run \ {r} : ~stable'[q]

\* What a run renders follows from what it read.
LEMMA SameRendering ==
  ASSUME NEW q, Still(q)
  PROVE  /\ \A a : Rendering(q, a)' = Rendering(q, a)
         /\ Diagnostics(q)' = Diagnostics(q)
         /\ (release(q))' = release(q) /\ (analyzer(q))' = analyzer(q)
         /\ (cfg(q))' = cfg(q)
BY DEF Still, Rendering, Document, unitOf, Diagnostics, release, analyzer, cfg

LEMMA StillHolds ==
  ASSUME NEW q \in Run, Still(q), Standing(q), stable[q] => Holds(q),
         stable'[q] => stable[q] /\ UNCHANGED copy,
         \A p \in Run : pc[p] = "done" => pc'[p] = "done",
         before[q] \subseteq Run
  PROVE  Standing(q)' /\ (stable'[q] => Holds(q)')
<1>. USE SameRendering
<1>1. Standing(q)'
  BY DEF Standing, CommandAt, Still, Scaffolded
<1>2. ASSUME stable'[q]
      PROVE  Holds(q)'
  <2>1. /\ stable[q] /\ Holds(q)
        /\ source' = source /\ config' = config
        /\ baseline' = baseline /\ disk' = disk
    BY <1>2 DEF copy
  <2>2. SettingsHold(q)'
    BY <2>1 DEF Holds, SettingsHold, Still, OwesRaise
  <2>3. ScansHold(q)'
    BY <2>1 DEF Holds, ScansHold, Still, Partly, Existing, Walked, UnitFiles,
       Resolves
  <2>4. OutputsHold(q)'
    BY <2>1 DEF Holds, OutputsHold, Still
  <2>5. Judged(q) => Judged(q)'
    <3>1. Exact(q)' <=> Exact(q)
      BY <2>1 DEF Exact
    <3>. QED BY <3>1 DEF Judged, Still
  <2>6. Current(q) => Current(q)'
    BY <2>1 DEF Current, Walked, CurrentUnit, DocumentOf
  <2>7. EndHolds(q)'
    BY <2>1, <2>5, <2>6 DEF Holds, EndHolds, Settled, Paid, UnitFiles, Resolves,
       Still
  <2>. QED BY <2>1, <2>2, <2>3, <2>4, <2>5, <2>7 DEF Holds, Still
<1>. QED BY <1>1, <1>2

\* Every step but an edit is one run's.
LEMMA OneRunMoves ==
  ASSUME TypeOK, [Next]_vars, ~UNCHANGED vars, ~Editor
  PROVE  \E r \in Run :
           /\ Moves(r)
           /\ \/ \E i \in Invocation : Start(r, i)
              \/ Step(r) \/ WriteFails(r) \/ AmendFails(r) \/ Crash(r)
<1>. USE DEF Moves, Still, copy, local, history
<1>1. ASSUME NEW r \in Run, NEW i \in Invocation, Start(r, i)
      PROVE  Moves(r)
  BY <1>1 DEF Start, Goto, TypeOK
<1>2. ASSUME NEW r \in Run, Load(r)
      PROVE  Moves(r)
  BY <1>2 DEF Load, LoadNothing, LoadUnreadable, LoadRejected, LoadTooOld,
     RejectOnly, LoadAccepted, Exit, Goto, unchangedButExit, TypeOK
<1>3. ASSUME NEW r \in Run, Scan(r)
      PROVE  Moves(r)
  <2>1. CASE Walk(r) \/ Extract(r) \/ ResolveLocators(r) \/ LocatorFails(r)
    BY <2>1 DEF Walk, Extract, ResolveLocators, LocatorFails, Exit, Goto,
       unchangedButExit, TypeOK
  <2>2. CASE Detect(r) \/ ReportDigest(r)
    BY <2>2 DEF Detect, ReportDigest, Exit, Goto, unchangedButExit, TypeOK
  <2>3. ASSUME NEW f \in File, ReadFile(r, f) \/ ReadFails(r, f)
        PROVE  Moves(r)
    BY <2>3 DEF ReadFile, ReadFails, Reading, Exit, Goto, unchangedButExit,
       TypeOK
  <2>. QED BY <1>3, <2>1, <2>2, <2>3 DEF Scan
<1>4. ASSUME NEW r \in Run, Check(r)
      PROVE  Moves(r)
  <2>1. PICK code : \/ pc[r] = "checkFacts" /\ Exit(r, code) /\ unchangedButExit
                    \/ pc[r] = "checkDocument" /\ Exit(r, code)
                                               /\ unchangedButExit
                    \/ CheckFactsPasses(r)
    BY <1>4 DEF Check, CheckFactsFails, CheckDocument
  <2>. QED BY <2>1 DEF CheckFactsPasses, Exit, Goto, unchangedButExit, TypeOK
<1>5. ASSUME NEW r \in Run, Write(r)
      PROVE  Moves(r)
  <2>1. CASE BeginWrite(r) \/ EndWrite(r)
    BY <2>1 DEF BeginWrite, EndWrite, DisturbsOthers, Goto, TypeOK
  <2>2. CASE \/ SkipRatchet(r) \/ BaselineMissing(r) \/ ProbeBaseline(r)
             \/ BaselineVanishes(r) \/ BaselineRejected(r)
    BY <2>2 DEF SkipRatchet, BaselineMissing, ProbeBaseline, BaselineVanishes,
       BaselineRejected, AllWritten, Exit, Goto, unchangedButExit, TypeOK
  <2>3. CASE RatchetFails(r) \/ RatchetPasses(r)
    BY <2>3 DEF RatchetFails, RatchetPasses, Judging, AllWritten, Goto, TypeOK
  <2>. QED BY <1>5, <2>1, <2>2, <2>3 DEF Write
<1>6. ASSUME NEW r \in Run, Raise(r)
      PROVE  Moves(r)
  BY <1>6 DEF Raise, NothingToRaise, RereadConfig, LeaveAlone, BeginAmend,
     EndAmend, DisturbsOthers, Goto, TypeOK
<1>7. ASSUME NEW r \in Run, Scaffolds(r)
      PROVE  Moves(r)
  BY <1>7 DEF Scaffolds, InitRefuses, InitProceeds, BeginScaffold, EndScaffold,
     DisturbsOthers, Exit, Goto, unchangedButExit, TypeOK
<1>8. ASSUME NEW r \in Run, WriteFails(r) \/ AmendFails(r) \/ Crash(r)
      PROVE  Moves(r)
  BY <1>8 DEF WriteFails, AmendFails, Crash, Active, Fault, Exit, Goto, TypeOK
<1>. QED BY <1>1, <1>2, <1>3, <1>4, <1>5, <1>6, <1>7, <1>8 DEF Next, Step

-----------------------------------------------------------------------------
(***************************************************************************)
(* The run that moves.  After each of its steps it still stands where      *)
(* Standing says and, if it is stable, Holds describes it.                 *)
(***************************************************************************)
\* What is said of a run before the configuration is loaded.
LEMMA HoldsBeforeLoad ==
  ASSUME NEW r, pc'[r] \in {"idle", "load"} \cup Scaffolded
  PROVE  Holds(r)'
BY DEF Holds, SettingsHold, ScansHold, OutputsHold, EndHolds, Scaffolded,
   Rendered, Loaded, Mapping, Detecting, Checking, Writing, Raising

\* What is said of a run that ended otherwise than by a build's last step or
\* a passing check.
LEMMA HoldsAtEnd ==
  ASSUME NEW r, pc'[r] = "done", EndHolds(r)'
  PROVE  Holds(r)'
BY DEF Holds, SettingsHold, ScansHold, OutputsHold, Rendered, Loaded, Mapping,
   Detecting, Checking, Writing, Raising

LEMMA Ending ==
  ASSUME TypeOK, NEW r \in Run, Standing(r), pc[r] # "done",
         NEW code \in {1, 2, 3, 4, 5, 7, Killed}, Exit(r, code),
         UNCHANGED <<call, out, mapSnap, unitSnap, before>>
  PROVE  Standing(r)' /\ (stable'[r] => Holds(r)')
<1>1. pc' = [pc EXCEPT ![r] = "done"] /\ exit' = [exit EXCEPT ![r] = code]
  BY DEF Exit, Goto
<1>2. pc'[r] = "done" /\ exit'[r] = code
  BY <1>1 DEF TypeOK
<1>3. Standing(r)'
  BY <1>1, <1>2 DEF Standing, CommandAt, Scaffolded, Mapping, Detecting,
     Checking, Writing, Raising, TypeOK
<1>4. Holds(r)'
  BY <1>2, HoldsAtEnd DEF EndHolds, Killed
<1>. QED BY <1>3, <1>4

LEMMA Starting ==
  ASSUME TypeOK, NEW r \in Run, NEW i \in Invocation, Start(r, i), Standing(r)
  PROVE  Standing(r)' /\ (stable'[r] => Holds(r)')
<1>1. /\ pc' = [pc EXCEPT ![r] = IF i.cmd = "init" THEN "probe" ELSE "load"]
      /\ call' = [call EXCEPT ![r] = i] /\ pc[r] = "idle"
      /\ before' = [before EXCEPT ![r] = {q \in Run : pc[q] = "done"}]
      /\ UNCHANGED <<out, exit, mapSnap, unitSnap>>
  BY DEF Start, Goto
<1>2. pc'[r] = IF i.cmd = "init" THEN "probe" ELSE "load"
  BY <1>1 DEF TypeOK
<1>3. \A q \in before'[r] : pc'[q] = "done"
  BY <1>1 DEF TypeOK
<1>4. call'[r] = i
  BY <1>1 DEF TypeOK
<1>5. Standing(r)'
  BY <1>1, <1>2, <1>3, <1>4 DEF Standing, CommandAt, Scaffolded, Mapping,
     Detecting, Checking, Writing, Raising
<1>. QED BY <1>2, <1>5, HoldsBeforeLoad DEF Scaffolded

LEMMA Loading ==
  ASSUME TypeOK, NEW r \in Run, Load(r), Standing(r)
  PROVE  Standing(r)' /\ (stable'[r] => Holds(r)')
<1>1. CASE LoadAccepted(r)
  <2>1. /\ pc[r] = "load" /\ config.is = "whole"
        /\ ~Refuses(config.text.floor, release(r))
        /\ conf' = [conf EXCEPT ![r] = config]
        /\ pc' = [pc EXCEPT ![r] = IF call[r].cmd = "facts" THEN "walkUnit"
                                   ELSE "walk"]
        /\ UNCHANGED <<copy, exit, call, mapSnap, unitSnap, out, before>>
    BY <1>1 DEF LoadAccepted, Goto, history
  <2>2. pc'[r] = IF call[r].cmd = "facts" THEN "walkUnit" ELSE "walk"
    BY <2>1 DEF TypeOK
  <2>3. call[r].cmd \in {"build", "check", "facts"}
    BY <2>1, InvocationType DEF Standing, CommandAt, TypeOK, Command
  <2>4. \A q \in before'[r] : pc'[q] = "done"
    BY <2>1 DEF Standing, TypeOK
  <2>5. Standing(r)'
    BY <2>1, <2>2, <2>3, <2>4 DEF Standing, CommandAt, Scaffolded, Mapping,
       Detecting, Checking, Writing, Raising
  <2>6. SettingsHold(r)'
    BY <2>1, <2>2 DEF SettingsHold, copy, cfg, release, TypeOK
  <2>7. ScansHold(r)'
    BY <2>1, <2>2 DEF ScansHold, Rendered, Detecting, Checking, Writing, Raising
  <2>8. OutputsHold(r)' /\ EndHolds(r)' /\ pc'[r] \notin Raising
    BY <2>2 DEF OutputsHold, EndHolds, Writing, Raising
  <2>. QED BY <2>5, <2>6, <2>7, <2>8 DEF Holds
<1>2. ASSUME NEW code \in {1, 2, 5, 7}, pc[r] = "load", Exit(r, code),
             unchangedButExit
      PROVE  Standing(r)' /\ (stable'[r] => Holds(r)')
  BY <1>2, Ending DEF unchangedButExit, local, history
<1>. QED BY <1>1, <1>2 DEF Load, LoadNothing, LoadUnreadable, LoadRejected,
       LoadTooOld, RejectOnly

\* Reading one more file brings the scan one file further.
LEMMA OneFileFurther ==
  ASSUME source \in Snapshot, NEW S \in SUBSET File, NEW f \in File
  PROVE  [Partly(S) EXCEPT ![f] = source[f]] = Partly(S \cup {f})
BY DEF Partly, Snapshot

\* A step that moves a run on and leaves its working copy, its outputs and its
\* exit code alone keeps what does not depend on the label.
LEMMA StandsAt ==
  ASSUME TypeOK, NEW r \in Run, Standing(r), NEW label, pc[r] # "done",
         Goto(r, label), UNCHANGED <<call, out, exit, before>>,
         label \notin {"idle", "load", "walk"}
           => label \in {"scan", "walkUnit", "unit", "specs", "checkFacts",
                         "checkDocument", "write", "baseline", "raise"}
  PROVE  /\ pc'[r] = label
         /\ \A q \in before'[r] : pc'[q] = "done"
<1>1. pc' = [pc EXCEPT ![r] = label] /\ pc'[r] = label
  BY DEF Goto, TypeOK
<1>. QED BY <1>1 DEF Standing, TypeOK

LEMMA ReadingOneFile ==
  ASSUME TypeOK, NEW r \in Run, Standing(r), stable[r] => Holds(r),
         NEW f \in File, ReadFile(r, f)
  PROVE  Standing(r)' /\ (stable'[r] => Holds(r)')
<1>. USE DEF Mapping, Detecting, Checking, Writing, Raising
<1>1. /\ pc[r] \in {"scan", "unit", "specs"} /\ f \in todo[r]
      /\ source[f] # Gone
      /\ todo' = [todo EXCEPT ![r] = @ \ {f}]
      /\ UNCHANGED <<copy, pc, exit, call, conf, out, before>>
      /\ stable' = stable
  BY DEF ReadFile, Reading, history
<1>2. /\ pc[r] = "scan" => /\ mapSnap' = [mapSnap EXCEPT ![r][f] = source[f]]
                           /\ unitSnap' = unitSnap
      /\ pc[r] # "scan" => /\ unitSnap' = [unitSnap EXCEPT ![r][f] = source[f]]
                           /\ mapSnap' = mapSnap
  BY DEF ReadFile
<1>3. todo'[r] = todo[r] \ {f}
  BY <1>1 DEF TypeOK
<1>4. Standing(r)'
  BY <1>1, <1>2 DEF Standing, CommandAt, Scaffolded, TypeOK
<1>5. ASSUME stable[r]
      PROVE  Holds(r)'
  <2>1. SettingsHold(r) /\ ScansHold(r)
    BY <1>5 DEF Holds
  <2>2. SettingsHold(r)'
    BY <1>1, <2>1 DEF SettingsHold, copy, cfg, release, Rendered, Loaded
  <2>3. /\ source' = source /\ Existing' = Existing /\ Walked' = Walked
        /\ Partly(SourceFile \ todo[r])' = Partly(SourceFile \ todo'[r])
        /\ Partly(SourceFile \cup (SpecFile \ todo[r]))'
             = Partly(SourceFile \cup (SpecFile \ todo'[r]))
    BY <1>1 DEF copy, Partly, Existing, Walked
  <2>4. CASE pc[r] = "scan"
    <3>1. mapSnap'[r] = [mapSnap[r] EXCEPT ![f] = source[f]]
      BY <1>2, <2>4 DEF TypeOK
    <3>2. todo[r] \subseteq SourceFile
      BY <2>1, <2>4 DEF ScansHold, Existing
    <3>3. SourceFile \ todo'[r] = (SourceFile \ todo[r]) \cup {f}
      BY <1>1, <1>3, <3>2
    <3>4. mapSnap'[r] = Partly(SourceFile \ todo'[r])
      <4>1. (SourceFile \ todo[r]) \in SUBSET File /\ source \in Snapshot
        BY DEF File, TypeOK
      <4>2. [Partly(SourceFile \ todo[r]) EXCEPT ![f] = source[f]]
              = Partly((SourceFile \ todo[r]) \cup {f})
        BY <4>1, OneFileFurther
      <4>. QED BY <2>1, <2>4, <3>1, <3>3, <4>2 DEF ScansHold
    <3>5. ScansHold(r)'
      BY <1>1, <1>3, <2>1, <2>3, <2>4, <3>4
         DEF ScansHold, Rendered
    <3>. QED BY <1>1, <2>2, <2>4, <3>5
           DEF Holds, OutputsHold, EndHolds
  <2>5. CASE pc[r] = "unit"
    <3>1. unitSnap'[r] = [unitSnap[r] EXCEPT ![f] = source[f]]
      BY <1>2, <2>5 DEF TypeOK
    <3>2. todo[r] \subseteq SourceFile
      BY <2>1, <2>5 DEF ScansHold, Existing
    <3>3. SourceFile \ todo'[r] = (SourceFile \ todo[r]) \cup {f}
      BY <1>1, <1>3, <3>2
    <3>4. unitSnap'[r] = Partly(SourceFile \ todo'[r])
      <4>1. (SourceFile \ todo[r]) \in SUBSET File /\ source \in Snapshot
        BY DEF File, TypeOK
      <4>2. [Partly(SourceFile \ todo[r]) EXCEPT ![f] = source[f]]
              = Partly((SourceFile \ todo[r]) \cup {f})
        BY <4>1, OneFileFurther
      <4>. QED BY <2>1, <2>5, <3>1, <3>3, <4>2 DEF ScansHold
    <3>5. ScansHold(r)'
      BY <1>1, <1>2, <1>3, <2>1, <2>3, <2>5, <3>4
         DEF ScansHold, Rendered
    <3>. QED BY <1>1, <2>2, <2>5, <3>5
           DEF Holds, OutputsHold, EndHolds
  <2>6. CASE pc[r] = "specs"
    <3>1. unitSnap'[r] = [unitSnap[r] EXCEPT ![f] = source[f]]
      BY <1>2, <2>6 DEF TypeOK
    <3>2. todo[r] \subseteq SpecFile
      BY <2>1, <2>6 DEF ScansHold
    <3>3. SourceFile \cup (SpecFile \ todo'[r])
            = (SourceFile \cup (SpecFile \ todo[r])) \cup {f}
      BY <1>1, <1>3, <3>2
    <3>4. unitSnap'[r] = Partly(SourceFile \cup (SpecFile \ todo'[r]))
      <4>1. (SourceFile \cup (SpecFile \ todo[r])) \in SUBSET File /\ source \in Snapshot
        BY DEF File, TypeOK
      <4>2. [Partly(SourceFile \cup (SpecFile \ todo[r])) EXCEPT ![f] = source[f]]
              = Partly((SourceFile \cup (SpecFile \ todo[r])) \cup {f})
        BY <4>1, OneFileFurther
      <4>. QED BY <2>1, <2>6, <3>1, <3>3, <4>2 DEF ScansHold
    <3>5. ScansHold(r)'
      BY <1>1, <1>2, <1>3, <2>1, <2>3, <2>6, <3>4
         DEF ScansHold, Rendered, cfg
    <3>. QED BY <1>1, <2>2, <2>6, <3>5
           DEF Holds, OutputsHold, EndHolds
  <2>. QED BY <1>1, <2>4, <2>5, <2>6
<1>. QED BY <1>1, <1>4, <1>5

LEMMA Scanning ==
  ASSUME TypeOK, NEW r \in Run, Standing(r), stable[r] => Holds(r), Scan(r)
  PROVE  Standing(r)' /\ (stable'[r] => Holds(r)')
<1>. USE DEF Mapping, Detecting, Checking, Writing, Raising
<1>1. CASE Walk(r)
  <2>1. /\ \/ pc[r] = "walk" /\ Goto(r, "scan")
           \/ pc[r] = "walkUnit" /\ Goto(r, "unit")
        /\ todo' = [todo EXCEPT ![r] = Existing] /\ stable' = stable
        /\ UNCHANGED <<copy, exit, call, conf, mapSnap, unitSnap, out, before>>
    BY <1>1 DEF Walk, history
  <2>2. /\ \/ pc[r] = "walk" /\ pc'[r] = "scan"
           \/ pc[r] = "walkUnit" /\ pc'[r] = "unit"
        /\ todo'[r] = Existing
        /\ \A q \in before'[r] : pc'[q] = "done"
    BY <2>1, StandsAt DEF TypeOK
  <2>3. Standing(r)'
    BY <2>1, <2>2 DEF Standing, CommandAt, Scaffolded
  <2>4. ASSUME stable[r]
        PROVE  Holds(r)'
    <3>1. SettingsHold(r) /\ ScansHold(r)
      BY <2>4 DEF Holds
    <3>2. SettingsHold(r)'
      BY <2>1, <2>2, <3>1
         DEF SettingsHold, copy, cfg, release, Rendered, Loaded
    <3>3. NothingRead = Partly(SourceFile \ Existing)
      BY DEF NothingRead, Partly, Existing
    <3>4. ScansHold(r)'
      BY <2>1, <2>2, <3>1, <3>3
         DEF Standing, ScansHold, Existing, Partly, Walked, Rendered, copy
    <3>. QED BY <2>2, <3>2, <3>4 DEF Holds, OutputsHold, EndHolds
  <2>. QED BY <2>1, <2>3, <2>4
<1>2. CASE Extract(r)
  <2>1. /\ pc[r] = "scan" /\ todo[r] = {} /\ stable' = stable
        /\ UNCHANGED <<copy, exit, call, conf, mapSnap, unitSnap, out, before>>
        /\ Goto(r, IF DetectionWanted THEN "walkUnit" ELSE AfterRender(r))
    BY <1>2 DEF Extract, local, history
  <2>2. /\ pc'[r] = IF DetectionWanted THEN "walkUnit" ELSE AfterRender(r)
        /\ \A q \in before'[r] : pc'[q] = "done"
    BY <2>1, StandsAt DEF AfterRender
  <2>3. call[r].cmd \in {"build", "check"}
    BY <2>1 DEF Standing, CommandAt
  <2>4. Standing(r)'
    BY <2>1, <2>2, <2>3 DEF Standing, CommandAt, Scaffolded, AfterRender
  <2>5. ASSUME stable[r]
        PROVE  Holds(r)'
    <3>1. SettingsHold(r) /\ ScansHold(r)
      BY <2>5 DEF Holds
    <3>2. SettingsHold(r)'
      BY <2>1, <2>2, <3>1
         DEF SettingsHold, copy, cfg, release, Rendered, Loaded, AfterRender
    <3>3. mapSnap'[r] = Walked'
      BY <2>1, <3>1 DEF ScansHold, Partly, Walked, copy
    <3>4. ScansHold(r)'
      BY <2>1, <2>2, <3>3 DEF Standing, ScansHold, Rendered, AfterRender,
         UnitFiles, Resolves
    <3>5. OutputsHold(r)' /\ EndHolds(r)' /\ pc'[r] \notin Raising
      BY <2>1, <2>2, OutputsType
         DEF Standing, OutputsHold, EndHolds, AfterRender
    <3>. QED BY <3>2, <3>4, <3>5 DEF Holds
  <2>. QED BY <2>1, <2>4, <2>5
<1>3. CASE ResolveLocators(r)
  <2>1. /\ pc[r] = "unit" /\ todo[r] = {} /\ stable' = stable
        /\ cfg(r).unit \notin BadLocator /\ Goto(r, "specs")
        /\ todo' = [todo EXCEPT ![r] = SpecFile]
        /\ UNCHANGED <<copy, exit, call, conf, mapSnap, unitSnap, out, before>>
    BY <1>3 DEF ResolveLocators, history
  <2>2. /\ pc'[r] = "specs" /\ todo'[r] = SpecFile
        /\ \A q \in before'[r] : pc'[q] = "done"
    BY <2>1, StandsAt DEF TypeOK
  <2>3. Standing(r)'
    BY <2>1, <2>2 DEF Standing, CommandAt, Scaffolded
  <2>4. ASSUME stable[r]
        PROVE  Holds(r)'
    <3>1. SettingsHold(r) /\ ScansHold(r)
      BY <2>4 DEF Holds
    <3>2. SettingsHold(r)'
      BY <2>1, <2>2, <3>1
         DEF SettingsHold, copy, cfg, release, Rendered, Loaded
    <3>3. ScansHold(r)'
      BY <2>1, <2>2, <3>1
         DEF ScansHold, Partly, Walked, Rendered, copy, cfg
    <3>. QED BY <2>2, <3>2, <3>3 DEF Holds, OutputsHold, EndHolds
  <2>. QED BY <2>1, <2>3, <2>4
<1>4. CASE Detect(r)
  <2>1. /\ pc[r] = "specs" /\ todo[r] = {} /\ stable' = stable
        /\ call[r].cmd # "facts" /\ Goto(r, AfterRender(r))
        /\ UNCHANGED <<copy, exit, call, conf, mapSnap, unitSnap, out, before>>
    BY <1>4 DEF Detect, local, history
  <2>2. pc'[r] = AfterRender(r) /\ \A q \in before'[r] : pc'[q] = "done"
    BY <2>1, StandsAt DEF AfterRender
  <2>3. call[r].cmd \in {"build", "check"}
    BY <2>1, InvocationType DEF Standing, CommandAt, TypeOK, Command
  <2>4. Standing(r)' /\ DetectionWanted
    BY <2>1, <2>2, <2>3 DEF Standing, CommandAt, Scaffolded, AfterRender
  <2>5. ASSUME stable[r]
        PROVE  Holds(r)'
    <3>1. SettingsHold(r) /\ ScansHold(r)
      BY <2>5 DEF Holds
    <3>2. SettingsHold(r)'
      BY <2>1, <2>2, <3>1
         DEF SettingsHold, copy, cfg, release, Rendered, Loaded, AfterRender
    <3>3. unitSnap[r] = source
      BY <2>1, <3>1 DEF ScansHold, Partly, File, TypeOK, Snapshot
    <3>4. ScansHold(r)'
      BY <2>1, <2>2, <2>4, <3>1, <3>3 DEF ScansHold, Rendered, AfterRender,
         UnitFiles, Resolves, Walked, copy, cfg
    <3>5. OutputsHold(r)' /\ EndHolds(r)' /\ pc'[r] \notin Raising
      BY <2>1, <2>2, OutputsType
         DEF Standing, OutputsHold, EndHolds, AfterRender
    <3>. QED BY <3>2, <3>4, <3>5 DEF Holds
  <2>. QED BY <2>1, <2>4, <2>5
<1>5. CASE LocatorFails(r) \/ \E f \in File : ReadFails(r, f)
  <2>1. PICK code \in {1, 5} : pc[r] # "done" /\ Exit(r, code)
                               /\ unchangedButExit
    BY <1>5 DEF LocatorFails, ReadFails, Reading
  <2>. QED BY <2>1, Ending DEF unchangedButExit, local, history
<1>6. CASE ReportDigest(r)
  <2>1. /\ pc[r] = "specs" /\ call[r].cmd = "facts"
        /\ pc' = [pc EXCEPT ![r] = "done"] /\ exit' = [exit EXCEPT ![r] = 0]
        /\ UNCHANGED <<call, out, mapSnap, unitSnap, before>>
    BY <1>6 DEF ReportDigest, Exit, Goto, unchangedButExit, local, history
  <2>2. Standing(r)'
    BY <2>1 DEF Standing, CommandAt, Scaffolded, TypeOK
  <2>3. Holds(r)'
    BY <2>1, HoldsAtEnd DEF EndHolds, TypeOK
  <2>. QED BY <2>2, <2>3
<1>. QED BY <1>1, <1>2, <1>3, <1>4, <1>5, <1>6, ReadingOneFile DEF Scan

\* A run that has rendered reports the tree it read.
LEMMA RendersCurrent ==
  ASSUME NEW r, SettingsHold(r), ScansHold(r),
         pc[r] \in Rendered \ {"amending"}, call[r].cmd # "facts"
  PROVE  /\ Document(r) = DocumentOf(release(r), config.text, Walked, CurrentUnit)
         /\ Rendering(r, "md") = Document(r)
         /\ Rendering(r, "facts") = ArtifactOf(analyzer(r), CurrentUnit)
<1>1. cfg(r) = config.text
  BY DEF SettingsHold, Loaded, cfg
<1>2. mapSnap[r] = Walked /\ unitSnap[r] = UnitFiles
  BY DEF ScansHold
<1>3. unitOf(r) = CurrentUnit
  BY <1>1, <1>2 DEF unitOf, CurrentUnit, UnitFiles
<1>. QED BY <1>1, <1>2, <1>3 DEF Document, Rendering

\* The verdict on the artifact is 0 exactly when it is the run's own rendering
\* and no mandatory diagnostic was raised.
LEMMA VerdictIsExact ==
  ASSUME DiskShape, NEW r
  PROVE  /\ FactsVerdict(r) = 0 /\ FactsOut =>
              /\ disk["facts"] = Whole(Rendering(r, "facts"))
              /\ Diagnostics(r) \cap Mandatory = {}
         /\ FactsOut /\ disk["facts"] = Whole(Rendering(r, "facts"))
              => FactsVerdict(r) =
                   IF Diagnostics(r) \cap Mandatory # {} THEN 4 ELSE 0
         /\ ~FactsOut => FactsVerdict(r) = 0
         /\ FactsVerdict(r) \in {0, 1, 3, 4}
<1>1. "facts" \in Artifact
  BY DEF Artifact
<1>2. disk["facts"].is = "whole" => disk["facts"] = Whole(disk["facts"].text)
  BY <1>1 DEF DiskShape
<1>3. disk["facts"] = Whole(Rendering(r, "facts"))
        => /\ disk["facts"].is = "whole" /\ disk["facts"] # Absent
           /\ disk["facts"].text = Rendering(r, "facts")
           /\ disk["facts"].text.analyzer = analyzer(r)
  BY DEF Whole, Absent, Rendering, ArtifactOf
<1>. QED BY <1>2, <1>3 DEF FactsVerdict

LEMMA CheckingKeeps ==
  ASSUME TypeOK, DiskShape, NEW r \in Run, Standing(r), stable[r] => Holds(r),
         Check(r)
  PROVE  Standing(r)' /\ (stable'[r] => Holds(r)')
<1>. USE DEF Mapping, Detecting, Checking, Writing, Raising
<1>1. CASE CheckFactsFails(r)
  <2>1. pc[r] # "done" /\ FactsVerdict(r) \in {1, 3, 4}
    BY <1>1, VerdictIsExact DEF CheckFactsFails
  <2>. QED BY <1>1, <2>1, Ending DEF CheckFactsFails, unchangedButExit, local,
         history
<1>2. CASE CheckFactsPasses(r)
  <2>1. /\ pc[r] = "checkFacts" /\ FactsVerdict(r) = 0 /\ stable' = stable
        /\ Goto(r, "checkDocument")
        /\ UNCHANGED <<copy, exit, call, conf, mapSnap, unitSnap, out, before>>
    BY <1>2 DEF CheckFactsPasses, local, history
  <2>2. pc'[r] = "checkDocument" /\ \A q \in before'[r] : pc'[q] = "done"
    BY <2>1, StandsAt
  <2>3. Standing(r)'
    BY <2>1, <2>2 DEF Standing, CommandAt, Scaffolded
  <2>4. ASSUME stable[r]
        PROVE  Holds(r)'
    <3>1. SettingsHold(r) /\ ScansHold(r)
      BY <2>4 DEF Holds
    <3>2. SettingsHold(r)'
      BY <2>1, <2>2, <3>1
         DEF SettingsHold, copy, cfg, release, Rendered, Loaded
    <3>3. ScansHold(r)'
      BY <2>1, <2>2, <3>1
         DEF ScansHold, Rendered, Walked, UnitFiles, Resolves, copy, cfg
    <3>4. Rendering(r, "facts")' = Rendering(r, "facts")
          /\ Diagnostics(r)' = Diagnostics(r)
      BY <2>1 DEF Rendering, unitOf, analyzer, cfg, Diagnostics
    <3>5. OutputsHold(r)'
      BY <2>1, <2>2, <3>4, VerdictIsExact DEF OutputsHold, copy
    <3>. QED BY <2>2, <3>2, <3>3, <3>5 DEF Holds, EndHolds
  <2>. QED BY <2>1, <2>3, <2>4
<1>3. CASE CheckDocument(r)
  <2>1. /\ pc[r] = "checkDocument" /\ stable' = stable
        /\ Exit(r, IF disk["md"] = Whole(Document(r)) THEN 0 ELSE 1)
        /\ pc' = [pc EXCEPT ![r] = "done"]
        /\ exit' = [exit EXCEPT ![r] =
                      IF disk["md"] = Whole(Document(r)) THEN 0 ELSE 1]
        /\ UNCHANGED <<copy, call, mapSnap, unitSnap, out, before>>
    BY <1>3 DEF CheckDocument, Exit, Goto, unchangedButExit, local, history
  <2>2. Standing(r)'
    BY <2>1 DEF Standing, CommandAt, Scaffolded, TypeOK
  <2>3. call'[r].cmd = "check"
    BY <2>1 DEF Standing
  <2>4. ASSUME stable[r], disk["md"] = Whole(Document(r))
        PROVE  Current(r)'
    <3>1. SettingsHold(r) /\ ScansHold(r) /\ OutputsHold(r)
      BY <2>4 DEF Holds
    <3>2. Current(r)
      BY <2>1, <2>3, <2>4, <3>1, RendersCurrent
         DEF Current, OutputsHold, Rendered
    <3>. QED BY <2>1, <3>2
           DEF Current, copy, release, analyzer, Walked, CurrentUnit
  <2>5. stable[r] => EndHolds(r)'
    BY <2>1, <2>3, <2>4 DEF EndHolds, TypeOK
  <2>6. pc'[r] = "done"
    BY <2>1 DEF TypeOK
  <2>. QED BY <2>1, <2>2, <2>5, <2>6, HoldsAtEnd
<1>. QED BY <1>1, <1>2, <1>3 DEF Check

\* The outputs are distinct paths.
LEMMA OutputsDiffer ==
  /\ \A i, j \in DOMAIN Outputs : Outputs[i] = Outputs[j] => i = j
  /\ \E i \in DOMAIN Outputs : Outputs[i] = "md"
  /\ FactsOut => \E i \in DOMAIN Outputs : Outputs[i] = "facts"
<1>1. CASE JsonOut /\ FactsOut
  <2>1. /\ Len(Outputs) = 4 /\ Outputs[1] = "md" /\ Outputs[2] = "json"
        /\ Outputs[3] = "facts" /\ Outputs[4] = "sidecar"
    BY <1>1 DEF Outputs
  <2>. QED BY <2>1, OutputsType
<1>2. CASE JsonOut /\ ~FactsOut
  <2>1. Len(Outputs) = 2 /\ Outputs[1] = "md" /\ Outputs[2] = "json"
    BY <1>2 DEF Outputs
  <2>. QED BY <1>2, <2>1, OutputsType
<1>3. CASE ~JsonOut /\ FactsOut
  <2>1. /\ Len(Outputs) = 3 /\ Outputs[1] = "md" /\ Outputs[2] = "facts"
        /\ Outputs[3] = "sidecar"
    BY <1>3 DEF Outputs
  <2>. QED BY <2>1, OutputsType
<1>4. CASE ~JsonOut /\ ~FactsOut
  <2>1. Len(Outputs) = 1 /\ Outputs[1] = "md"
    BY <1>4 DEF Outputs
  <2>. QED BY <1>4, <2>1, OutputsType
<1>. QED BY <1>1, <1>2, <1>3, <1>4

\* What a step that keeps what the run has read and loaded leaves true.
LEMMA KeepsReading ==
  ASSUME NEW r, pc[r] \in Rendered, pc'[r] \in Rendered,
         UNCHANGED <<source, call, conf, mapSnap, unitSnap>>, ScansHold(r)
  PROVE  /\ ScansHold(r)'
         /\ \A a : Rendering(r, a)' = Rendering(r, a)
         /\ Diagnostics(r)' = Diagnostics(r)
         /\ cfg(r)' = cfg(r) /\ release(r)' = release(r)
<1>1. ScansHold(r)'
  BY DEF ScansHold, Rendered, Mapping, Detecting, Checking, Writing, Raising,
     Walked, UnitFiles, Resolves, cfg
<1>2. \A a : Rendering(r, a)' = Rendering(r, a)
  BY DEF Rendering, Document, unitOf, release, analyzer, cfg
<1>. QED BY <1>1, <1>2 DEF Diagnostics, cfg, release

\* The ratchet passes exactly when the baseline lists what was emitted.
LEMMA RatchetCleanIsExact ==
  ASSUME TypeOK, NEW r \in Run, DeclaresBaseline => baseline.is = "whole"
  PROVE  RatchetClean(r) <=> Exact(r)
<1>1. CASE ~DeclaresBaseline
  BY <1>1 DEF RatchetClean, Exact, Suppressed, Unlisted, Stale
<1>2. CASE DeclaresBaseline
  <2>1. PICK b \in SUBSET Core : baseline = Whole(b)
    BY <1>2 DEF TypeOK, Absent, Rejected
  <2>2. baseline.text = b /\ \A x : Whole(b) = Whole(x) <=> b = x
    BY <2>1 DEF Whole
  <2>3. RatchetClean(r) <=> b = Diagnostics(r) \ Mandatory
    BY <1>2, <2>2 DEF RatchetClean, Suppressed, Unlisted, Stale
  <2>. QED BY <1>2, <2>1, <2>2, <2>3 DEF Exact
<1>. QED BY <1>1, <1>2

\* A run goes on to the amendment.
LEMMA GoingOn ==
  ASSUME TypeOK, NEW r \in Run, Standing(r), stable[r] => Holds(r),
         pc[r] \in Writing, NEW label \in {"baseline", "raise"}, Goto(r, label),
         out[r] > Len(Outputs),
         UNCHANGED <<copy, call, conf, mapSnap, unitSnap, out, before, stable>>,
         exit' = exit \/ (label = "raise" /\ exit' = [exit EXCEPT ![r] = 6]),
         label = "raise" /\ stable[r] => Judged(r)'
  PROVE  Standing(r)' /\ (stable'[r] => Holds(r)')
<1>. USE DEF Mapping, Detecting, Checking, Writing, Raising
<1>1. pc' = [pc EXCEPT ![r] = label] /\ pc'[r] = label
  BY DEF Goto, TypeOK
<1>2. Standing(r)'
  BY <1>1 DEF Standing, CommandAt, Scaffolded, TypeOK
<1>3. ASSUME stable[r]
      PROVE  Holds(r)'
  <2>1. SettingsHold(r) /\ ScansHold(r) /\ OutputsHold(r)
    BY <1>3 DEF Holds
  <2>2. SettingsHold(r)'
    BY <1>1, <2>1 DEF SettingsHold, copy, cfg, release, Rendered, Loaded
  <2>3. ScansHold(r)' /\ \A a : Rendering(r, a)' = Rendering(r, a)
    BY <1>1, <2>1, KeepsReading DEF copy, Rendered
  <2>4. OutputsHold(r)'
    BY <1>1, <2>1, <2>3 DEF OutputsHold, copy
  <2>. QED BY <1>1, <1>3, <2>2, <2>3, <2>4 DEF Holds, EndHolds
<1>. QED BY <1>2, <1>3

LEMMA WritingKeeps ==
  ASSUME TypeInv, NEW r \in Run, Standing(r), stable[r] => Holds(r), Write(r)
  PROVE  Standing(r)' /\ (stable'[r] => Holds(r)')
<1>. USE DEF Mapping, Detecting, Checking, Writing, Raising
<1>0. TypeOK /\ (pc[r] = "flush" => out[r] \in DOMAIN Outputs)
  BY DEF TypeInv, Flushing
<1>1. CASE BeginWrite(r)
  <2>1. /\ pc[r] = "write" /\ out[r] \in DOMAIN Outputs
        /\ disk' = [disk EXCEPT ![Outputs[out[r]]] = Empty]
        /\ pc' = [pc EXCEPT ![r] = "flush"]
        /\ UNCHANGED <<source, config, call, conf, mapSnap, unitSnap, exit, out,
                       before>>
        /\ stable'[r] => stable[r]
    BY <1>0, <1>1 DEF BeginWrite, Goto, local, DisturbsOthers, TypeOK
  <2>2. pc'[r] = "flush" /\ Outputs[out[r]] \in DOMAIN disk
    BY <1>0, <2>1, OutputsType DEF TypeOK
  <2>3. Standing(r)'
    BY <1>0, <2>1 DEF Standing, CommandAt, Scaffolded, TypeOK
  <2>4. ASSUME stable[r]
        PROVE  Holds(r)'
    <3>1. SettingsHold(r) /\ ScansHold(r) /\ OutputsHold(r)
      BY <2>4 DEF Holds
    <3>2. SettingsHold(r)'
      BY <2>1, <2>2, <3>1 DEF SettingsHold, cfg, release, Rendered, Loaded
    <3>3. ScansHold(r)' /\ \A a : Rendering(r, a)' = Rendering(r, a)
      BY <2>1, <2>2, <3>1, KeepsReading DEF Rendered
    <3>4. \A k \in DOMAIN Outputs :
            k < out[r] => disk'[Outputs[k]] = disk[Outputs[k]]
      BY <2>1, OutputsDiffer, OutputsType DEF TypeOK
    <3>5. OutputsHold(r)'
      BY <2>1, <2>2, <3>1, <3>3, <3>4 DEF OutputsHold
    <3>. QED BY <2>2, <3>2, <3>3, <3>5 DEF Holds, EndHolds
  <2>. QED BY <2>1, <2>3, <2>4
<1>2. CASE EndWrite(r)
  <2>1. /\ pc[r] = "flush" /\ pc' = [pc EXCEPT ![r] = "write"]
        /\ out' = [out EXCEPT ![r] = @ + 1]
        /\ UNCHANGED <<source, config, call, conf, mapSnap, unitSnap, exit,
                       before>>
        /\ stable'[r] => stable[r]
    BY <1>0, <1>2 DEF EndWrite, Goto, DisturbsOthers, TypeOK
  <2>2. /\ pc'[r] = "write" /\ out'[r] = out[r] + 1
        /\ out[r] \in DOMAIN Outputs /\ Outputs[out[r]] \in DOMAIN disk
    BY <1>0, <2>1, OutputsType DEF TypeOK
  <2>3. Standing(r)'
    BY <1>0, <2>1 DEF Standing, CommandAt, Scaffolded, TypeOK
  <2>4. ASSUME stable[r]
        PROVE  Holds(r)'
    <3>1. SettingsHold(r) /\ ScansHold(r) /\ OutputsHold(r)
      BY <2>4 DEF Holds
    <3>2. SettingsHold(r)'
      BY <2>1, <2>2, <3>1 DEF SettingsHold, cfg, release, Rendered, Loaded
    <3>3. ScansHold(r)' /\ \A a : Rendering(r, a)' = Rendering(r, a)
      BY <2>1, <2>2, <3>1, KeepsReading DEF Rendered
    <3>4. disk[Outputs[out[r]]] = Empty
      BY <2>1, <3>1 DEF OutputsHold
    <3>5. disk' = [disk EXCEPT ![Outputs[out[r]]] =
                                   Whole(Rendering(r, Outputs[out[r]]))]
      BY <1>2, <3>4 DEF EndWrite, Landing
    <3>6. \A k \in DOMAIN Outputs :
            k < out'[r] => disk'[Outputs[k]] = Whole(Rendering(r, Outputs[k]))
      <4>1. out[r] \in Nat
        BY <1>0, OutputsType DEF TypeOK
      <4>2. ASSUME NEW k \in DOMAIN Outputs, k < out'[r]
            PROVE  disk'[Outputs[k]] = Whole(Rendering(r, Outputs[k]))
        <5>1. k < out[r] \/ k = out[r]
          BY <2>2, <4>1, <4>2, OutputsType
        <5>2. CASE k = out[r]
          BY <2>2, <3>5, <5>2
        <5>3. CASE k < out[r]
          <6>1. Outputs[k] # Outputs[out[r]]
            BY <2>2, <4>1, <4>2, <5>3, OutputsDiffer, OutputsType
          <6>2. disk'[Outputs[k]] = disk[Outputs[k]]
            BY <3>5, <6>1, OutputsType, <4>2 DEF TypeOK
          <6>. QED BY <2>1, <3>1, <5>3, <6>2 DEF OutputsHold
        <5>. QED BY <5>1, <5>2, <5>3
      <4>. QED BY <4>2
    <3>7. OutputsHold(r)'
      BY <2>2, <3>3, <3>6 DEF OutputsHold
    <3>. QED BY <2>2, <3>2, <3>3, <3>7 DEF Holds, EndHolds
  <2>. QED BY <2>1, <2>3, <2>4
<1>3. AllWritten(r) => out[r] > Len(Outputs)
  BY <1>0, OutputsType DEF AllWritten, TypeOK
<1>4. CASE SkipRatchet(r) \/ ProbeBaseline(r)
  <2>1. PICK label \in {"baseline", "raise"} :
          /\ pc[r] = "write" /\ out[r] > Len(Outputs) /\ Goto(r, label)
          /\ label = "raise" => "strict" \notin call[r].flags
          /\ UNCHANGED <<copy, call, conf, mapSnap, unitSnap, out, before,
                         stable, exit>>
    BY <1>3, <1>4 DEF SkipRatchet, ProbeBaseline, AllWritten, local, history
  <2>. QED BY <1>0, <2>1, GoingOn DEF Judged
<1>5. CASE RatchetFails(r) \/ RatchetPasses(r)
  <2>1. /\ pc[r] \in {"write", "baseline"} /\ out[r] > Len(Outputs)
        /\ Goto(r, "raise")
        /\ DeclaresBaseline => baseline.is = "whole"
        /\ exit' = [exit EXCEPT ![r] = IF RatchetClean(r) THEN 0 ELSE 6]
        /\ UNCHANGED <<copy, call, conf, mapSnap, unitSnap, out, before, stable>>
    BY <1>0, <1>3, <1>5 DEF RatchetFails, RatchetPasses, Judging, AllWritten,
       local, history, Standing, TypeOK
  <2>2. exit'[r] = 0 <=> Exact(r)
    <3>1. exit'[r] = IF RatchetClean(r) THEN 0 ELSE 6
      BY <1>0, <2>1 DEF TypeOK
    <3>2. RatchetClean(r) <=> Exact(r)
      BY <1>0, <2>1, RatchetCleanIsExact
    <3>. QED BY <3>1, <3>2
  <2>3. Exact(r)' <=> Exact(r)
    BY <2>1 DEF Exact, Diagnostics, copy
  <2>4. Judged(r)'
    BY <2>2, <2>3 DEF Judged
  <2>5. exit' = exit \/ exit' = [exit EXCEPT ![r] = 6]
    BY <1>0, <2>1 DEF Standing, TypeOK
  <2>6. CASE exit' = exit
    BY <1>0, <2>1, <2>4, <2>6, GoingOn
  <2>7. CASE exit' = [exit EXCEPT ![r] = 6]
    BY <1>0, <2>1, <2>4, <2>7, GoingOn
  <2>. QED BY <2>5, <2>6, <2>7
<1>6. CASE BaselineMissing(r) \/ BaselineVanishes(r) \/ BaselineRejected(r)
  <2>1. PICK code \in {1, 5} : pc[r] # "done" /\ Exit(r, code)
                               /\ unchangedButExit
    BY <1>6 DEF BaselineMissing, BaselineVanishes, BaselineRejected, AllWritten
  <2>. QED BY <1>0, <2>1, Ending DEF unchangedButExit, local, history
<1>. QED BY <1>1, <1>2, <1>4, <1>5, <1>6 DEF Write

\* A build that has written everything and amends the floor at most leaves
\* the outputs current.
LEMMA WrittenIsCurrent ==
  ASSUME TypeOK, NEW r \in Run, Standing(r), Holds(r), pc[r] \in Raising,
         UNCHANGED <<source, disk, call, conf, mapSnap, unitSnap>>,
         config'.text.unit = cfg(r).unit, config'.text.rest = cfg(r).rest
  PROVE  Current(r)' /\ Resolves(config.text.unit)' /\ unitSnap'[r] = UnitFiles'
<1>. USE DEF Raising
<1>1. ScansHold(r) /\ OutputsHold(r) /\ call[r].cmd = "build"
  BY DEF Holds, Standing, CommandAt
<1>2. mapSnap[r] = Walked /\ unitSnap[r] = UnitFiles /\ Resolves(cfg(r).unit)
  BY <1>1 DEF ScansHold, Rendered
<1>3. out[r] > Len(Outputs) /\ out[r] \in Nat
  BY OutputsType DEF Standing, TypeOK
<1>4. \A k \in DOMAIN Outputs : disk[Outputs[k]] = Whole(Rendering(r, Outputs[k]))
  BY <1>1, <1>3, OutputsType DEF OutputsHold
<1>5. /\ disk["md"] = Whole(Rendering(r, "md"))
      /\ FactsOut => disk["facts"] = Whole(Rendering(r, "facts"))
  BY <1>4, OutputsDiffer
<1>6. /\ UnitFiles' = UnitFiles /\ Walked' = Walked
      /\ release(r)' = release(r) /\ analyzer(r)' = analyzer(r)
  BY DEF UnitFiles, Walked, release, analyzer
<1>7. unitOf(r) = CurrentUnit'
  BY <1>2, <1>6 DEF unitOf, CurrentUnit, UnitFiles
<1>8. Rendering(r, "md") = DocumentOf(release(r), config'.text, Walked, CurrentUnit')
  BY <1>2, <1>7 DEF Rendering, Document, DocumentOf
<1>9. Rendering(r, "facts") = ArtifactOf(analyzer(r), CurrentUnit')
  BY <1>7 DEF Rendering
<1>10. Current(r)'
  <2>1. DocumentOf(release(r), config.text, Walked, CurrentUnit)'
          = DocumentOf(release(r), config'.text, Walked, CurrentUnit')
    BY <1>6 DEF DocumentOf
  <2>2. ArtifactOf(analyzer(r), CurrentUnit)' = ArtifactOf(analyzer(r), CurrentUnit')
    BY <1>6 DEF ArtifactOf
  <2>. QED BY <1>5, <1>8, <1>9, <2>1, <2>2 DEF Current
<1>11. Resolves(config.text.unit)'
  BY <1>2 DEF Resolves
<1>. QED BY <1>2, <1>6, <1>10, <1>11

\* Judgement and rendering of a run that only moves on.
LEMMA JudgedStays ==
  ASSUME NEW r, UNCHANGED <<call, exit, baseline, unitSnap>>
  PROVE  Judged(r)' <=> Judged(r)
<1>1. Exact(r)' <=> Exact(r)
  BY DEF Exact, Diagnostics
<1>. QED BY <1>1 DEF Judged

\* A floor a release does not exceed is at its line or above.
LEMMA NotOwing ==
  ASSUME NEW rel \in Release, NEW declared \in Release,
         ~ExceedsLine(rel, declared)
  PROVE  ~IsBelow(declared, LineOf(rel))
BY DEF Release, ExceedsLine, IsBelow, LineOf

\* A release clears the floor it is the line of.
LEMMA ClearsItsLine ==
  ASSUME NEW rel \in Release
  PROVE  ~IsBelow(rel, LineOf(rel)) /\ ~IsBelow(LineOf(rel), LineOf(rel))
BY DEF Release, IsBelow, LineOf

LEMMA RaisingKeeps ==
  ASSUME TypeInv, NEW r \in Run, Standing(r), stable[r] => Holds(r), Raise(r)
  PROVE  Standing(r)' /\ (stable'[r] => Holds(r)')
<1>. USE DEF Mapping, Detecting, Checking, Writing, Raising
<1>0. TypeOK /\ (pc[r] = "amending" => IsLocated(text[r]))
  BY DEF TypeInv, Amending
<1>1. ASSUME pc[r] \in Raising, pc' = [pc EXCEPT ![r] = "done"],
             UNCHANGED <<source, disk, baseline, call, conf, mapSnap, unitSnap,
                         out, exit, before>>,
             stable[r] => /\ config'.is = "whole"
                          /\ config'.text.unit = cfg(r).unit
                          /\ config'.text.rest = cfg(r).rest
                          /\ ~Refuses(config'.text.floor, release(r))
                          /\ Paid(r)',
             stable'[r] => stable[r]
      PROVE  Standing(r)' /\ (stable'[r] => Holds(r)')
  <2>1. Standing(r)'
    BY <1>0, <1>1 DEF Standing, CommandAt, Scaffolded, TypeOK
  <2>2. pc'[r] = "done"
    BY <1>0, <1>1 DEF TypeOK
  <2>3. ASSUME stable[r]
        PROVE  EndHolds(r)'
    <3>1. Holds(r) /\ Judged(r) /\ call[r].cmd = "build"
      BY <1>1, <2>3 DEF Holds, Standing, CommandAt
    <3>2. Current(r)' /\ Resolves(config.text.unit)' /\ unitSnap'[r] = UnitFiles'
      BY <1>0, <1>1, <2>3, <3>1, WrittenIsCurrent
    <3>3. Judged(r)'
      BY <1>1, <3>1, JudgedStays
    <3>4. ~Refuses(config.text.floor, release(r))'
      BY <1>1, <2>3 DEF Refuses, release
    <3>5. Settled(r)'
      BY <1>1, <2>3, <3>2, <3>3, <3>4 DEF Settled
    <3>. QED BY <1>1, <3>1, <3>5 DEF EndHolds
  <2>. QED BY <1>1, <2>1, <2>2, <2>3, HoldsAtEnd
<1>2. ASSUME pc[r] \in Raising, ~OwesRaise(r) \/ exit[r] # 0 \/ ~IsLocated(config),
             pc[r] # "amending", Goto(r, "done"),
             UNCHANGED <<copy, local, history, exit>>
      PROVE  Standing(r)' /\ (stable'[r] => Holds(r)')
  <2>1. ASSUME stable[r]
        PROVE  /\ config'.is = "whole"
               /\ config'.text.unit = cfg(r).unit
               /\ config'.text.rest = cfg(r).rest
               /\ ~Refuses(config'.text.floor, release(r))
               /\ Paid(r)'
    <3>1. /\ config.is = "whole" /\ conf[r] = config /\ cfg(r) = config.text
          /\ ~Refuses(cfg(r).floor, release(r))
      BY <1>2, <2>1 DEF Holds, SettingsHold, Loaded, Rendered, cfg
    <3>2. release(r) \in Release /\ config.text \in ConfigText
      BY <1>0, <3>1, ReleaseType, WholeConfig DEF TypeOK
    <3>3. ASSUME exit[r] = 0, ~call[r].pre, config.text.plain,
                 config.text.floor # NoFloor
          PROVE  ~IsBelow(config.text.floor, LineOf(release(r)))
      <4>1. config.text.floor \in Release
        BY <3>2, <3>3, ConfigTextType
      <4>2. ~ExceedsLine(release(r), config.text.floor)
        BY <1>2, <3>1, <3>3 DEF IsLocated, OwesRaise
      <4>. QED BY <3>2, <4>1, <4>2, NotOwing
    <3>4. Paid(r)'
      BY <1>2, <3>3 DEF Paid, copy, local, release
    <3>. QED BY <1>2, <3>1, <3>4 DEF copy
  <2>. QED BY <1>1, <1>2, <2>1 DEF Goto, copy, local, history
<1>3. CASE NothingToRaise(r)
  BY <1>2, <1>3 DEF NothingToRaise
<1>4. CASE LeaveAlone(r)
  <2>1. CASE stable[r]
    <3>1. text[r] = config
      BY <1>4, <2>1 DEF LeaveAlone, Holds, SettingsHold
    <3>. QED BY <1>2, <1>4, <3>1 DEF LeaveAlone
  <2>2. CASE ~stable[r]
    BY <1>1, <1>4, <2>2 DEF LeaveAlone, Goto, copy, local, history
  <2>. QED BY <2>1, <2>2
<1>5. CASE RereadConfig(r)
  <2>1. /\ pc[r] = "raise" /\ OwesRaise(r) /\ exit[r] = 0
        /\ text' = [text EXCEPT ![r] = config]
        /\ pc' = [pc EXCEPT ![r] = "amend"]
        /\ UNCHANGED <<copy, exit, call, conf, mapSnap, unitSnap, out, before,
                       stable>>
    BY <1>5 DEF RereadConfig, Goto, history
  <2>2. pc'[r] = "amend" /\ text'[r] = config
    BY <1>0, <2>1 DEF TypeOK
  <2>3. Standing(r)'
    BY <1>0, <2>1, <2>2 DEF Standing, CommandAt, Scaffolded, TypeOK
  <2>4. ASSUME stable[r]
        PROVE  Holds(r)'
    <3>1. SettingsHold(r) /\ ScansHold(r) /\ OutputsHold(r) /\ Judged(r)
      BY <2>1, <2>4 DEF Holds
    <3>2. SettingsHold(r)'
      BY <2>1, <2>2, <3>1
         DEF SettingsHold, copy, cfg, release, OwesRaise, Rendered, Loaded
    <3>3. ScansHold(r)' /\ \A a : Rendering(r, a)' = Rendering(r, a)
      BY <2>1, <2>2, <3>1, KeepsReading DEF copy, Rendered
    <3>4. OutputsHold(r)'
      BY <2>1, <2>2, <3>1, <3>3 DEF OutputsHold, copy
    <3>5. Judged(r)'
      BY <2>1, <3>1, JudgedStays DEF copy
    <3>. QED BY <2>2, <3>2, <3>3, <3>4, <3>5 DEF Holds, EndHolds
  <2>. QED BY <2>1, <2>3, <2>4
<1>6. CASE BeginAmend(r)
  <2>1. /\ pc[r] = "amend" /\ config' = Empty
        /\ pc' = [pc EXCEPT ![r] = "amending"]
        /\ UNCHANGED <<source, baseline, disk, text, exit, call, conf, mapSnap,
                       unitSnap, out, before>>
        /\ stable'[r] => stable[r]
    BY <1>0, <1>6 DEF BeginAmend, Goto, local, DisturbsOthers, TypeOK
  <2>2. pc'[r] = "amending"
    BY <1>0, <2>1 DEF TypeOK
  <2>3. Standing(r)'
    BY <1>0, <2>1, <2>2 DEF Standing, CommandAt, Scaffolded, TypeOK
  <2>4. ASSUME stable[r]
        PROVE  Holds(r)'
    <3>1. SettingsHold(r) /\ ScansHold(r) /\ OutputsHold(r) /\ Judged(r)
      BY <2>1, <2>4 DEF Holds
    <3>2. SettingsHold(r)'
      BY <2>1, <2>2, <3>1
         DEF SettingsHold, cfg, release, OwesRaise, Rendered, Loaded
    <3>3. ScansHold(r)' /\ \A a : Rendering(r, a)' = Rendering(r, a)
      BY <2>1, <2>2, <3>1, KeepsReading DEF Rendered
    <3>4. OutputsHold(r)'
      BY <2>1, <2>2, <3>1, <3>3 DEF OutputsHold
    <3>5. Judged(r)'
      BY <2>1, <3>1, JudgedStays
    <3>. QED BY <2>2, <3>2, <3>3, <3>4, <3>5 DEF Holds, EndHolds
  <2>. QED BY <2>1, <2>3, <2>4
<1>7. CASE EndAmend(r)
  <2>1. /\ pc[r] = "amending" /\ pc' = [pc EXCEPT ![r] = "done"]
        /\ ConfigLands(r, Amended(r))
        /\ UNCHANGED <<source, baseline, disk, exit, call, conf, mapSnap,
                       unitSnap, out, before>>
        /\ stable'[r] => stable[r]
    BY <1>0, <1>7 DEF EndAmend, Goto, local, DisturbsOthers, TypeOK
  <2>2. ASSUME stable[r]
        PROVE  /\ config'.is = "whole"
               /\ config'.text.unit = cfg(r).unit
               /\ config'.text.rest = cfg(r).rest
               /\ ~Refuses(config'.text.floor, release(r))
               /\ Paid(r)'
    <3>1. conf[r].is = "whole" /\ text[r] = conf[r] /\ config = Empty
      BY <2>1, <2>2 DEF Holds, SettingsHold
    <3>2. config' = Whole(Amended(r))
      BY <2>1, <3>1 DEF ConfigLands, Landing
    <3>3. cfg(r) \in ConfigText /\ release(r) \in Release
      BY <1>0, <3>1, ReleaseType, WholeConfig DEF TypeOK, cfg
    <3>4. /\ config'.is = "whole" /\ config'.text = Amended(r)
          /\ Amended(r) = [cfg(r) EXCEPT !.floor = LineOf(release(r))]
      BY <3>1, <3>2 DEF Whole, Amended, cfg
    <3>5. /\ config'.text.floor = LineOf(release(r))
          /\ config'.text.unit = cfg(r).unit
          /\ config'.text.rest = cfg(r).rest
      BY <3>3, <3>4, ConfigTextType
    <3>6. Paid(r)'
      BY <2>1, <3>3, <3>5, ClearsItsLine DEF Paid, release
    <3>. QED BY <3>3, <3>4, <3>5, <3>6, ClearsItsLine DEF Refuses
  <2>. QED BY <1>1, <2>1, <2>2
<1>. QED BY <1>3, <1>4, <1>5, <1>6, <1>7 DEF Raise

LEMMA ScaffoldingKeeps ==
  ASSUME TypeOK, NEW r \in Run, Standing(r), Scaffolds(r)
  PROVE  Standing(r)' /\ (stable'[r] => Holds(r)')
<1>1. CASE InitRefuses(r)
  BY <1>1, Ending DEF InitRefuses, unchangedButExit, local, history
<1>2. CASE InitProceeds(r) \/ BeginScaffold(r)
  <2>1. PICK label \in {"create", "scaffold"} :
          /\ pc[r] \in Scaffolded /\ pc' = [pc EXCEPT ![r] = label]
          /\ UNCHANGED <<exit, call, mapSnap, unitSnap, out, before>>
    BY <1>2 DEF InitProceeds, BeginScaffold, Goto, local, history, Scaffolded
  <2>2. Standing(r)'
    BY <2>1 DEF Standing, CommandAt, Scaffolded, Mapping, Detecting, Checking,
       Writing, Raising, TypeOK
  <2>3. pc'[r] \in Scaffolded
    BY <2>1 DEF Scaffolded, TypeOK
  <2>. QED BY <2>2, <2>3, HoldsBeforeLoad
<1>3. CASE EndScaffold(r)
  <2>1. /\ pc[r] = "scaffold" /\ pc' = [pc EXCEPT ![r] = "done"]
        /\ UNCHANGED <<exit, call, mapSnap, unitSnap, out, before>>
    BY <1>3 DEF EndScaffold, Goto, local
  <2>2. Standing(r)'
    BY <2>1 DEF Standing, CommandAt, Scaffolded, Mapping, Detecting, Checking,
       Writing, Raising, TypeOK
  <2>3. EndHolds(r)' /\ pc'[r] = "done"
    BY <2>1 DEF EndHolds, Standing, Scaffolded, TypeOK
  <2>. QED BY <2>2, <2>3, HoldsAtEnd
<1>. QED BY <1>1, <1>2, <1>3 DEF Scaffolds

LEMMA FaultKeeps ==
  ASSUME TypeOK, NEW r \in Run, Standing(r),
         WriteFails(r) \/ AmendFails(r) \/ Crash(r)
  PROVE  Standing(r)' /\ ~stable'[r] /\ pc'[r] = "done"
<1>1. /\ pc' = [pc EXCEPT ![r] = "done"] /\ pc[r] # "done"
      /\ UNCHANGED <<call, mapSnap, unitSnap, out, before>>
      /\ exit' \in {exit, [exit EXCEPT ![r] = 1], [exit EXCEPT ![r] = Killed]}
      /\ stable' = [stable EXCEPT ![r] = FALSE]
  BY DEF WriteFails, AmendFails, Crash, Fault, Exit, Goto, Active, local
<1>. QED BY <1>1 DEF Standing, CommandAt, Scaffolded, Mapping, Detecting,
       Checking, Writing, Raising, TypeOK

-----------------------------------------------------------------------------
(***************************************************************************)
(* A check after a build that nothing disturbed.                           *)
(***************************************************************************)
Verdict(r) == IF FactsOut /\ Diagnostics(r) \cap Mandatory # {} THEN 4 ELSE 0

\* What a step of a started run keeps of it.
LEMMA Stepping ==
  ASSUME TypeOK, NEW r \in Run,
         Step(r) \/ WriteFails(r) \/ AmendFails(r) \/ Crash(r)
  PROVE  /\ Active(r) /\ before'[r] = before[r] /\ call'[r] = call[r]
         /\ pc'[r] # "done" => stable'[r] = stable[r]
         /\ pc'[r] = "done" => unitSnap'[r] = unitSnap[r]
<1>. USE DEF Active, local, history
<1>1. CASE Load(r) \/ Check(r)
  BY <1>1 DEF Load, LoadNothing, LoadUnreadable, LoadRejected, LoadTooOld,
     RejectOnly, LoadAccepted, Check, CheckFactsFails, CheckFactsPasses,
     CheckDocument, Exit, Goto, unchangedButExit
<1>2. CASE Scan(r)
  <2>1. ASSUME NEW f \in File, ReadFile(r, f)
        PROVE  /\ Active(r) /\ UNCHANGED <<before, call, stable>>
               /\ pc'[r] # "done"
    BY <2>1 DEF ReadFile, Reading
  <2>2. ASSUME NEW f \in File, ReadFails(r, f)
        PROVE  Active(r) /\ UNCHANGED <<before, call, stable, unitSnap>>
    BY <2>2 DEF ReadFails, Reading, unchangedButExit
  <2>. QED BY <1>2, <2>1, <2>2 DEF Scan, Walk, Extract, ResolveLocators,
         LocatorFails, Detect, ReportDigest, unchangedButExit
<1>3. CASE Write(r)
  BY <1>3 DEF Write, BeginWrite, EndWrite, SkipRatchet, BaselineMissing,
     ProbeBaseline, BaselineVanishes, BaselineRejected, RatchetFails,
     RatchetPasses, Judging, AllWritten, DisturbsOthers, unchangedButExit, TypeOK
<1>4. CASE Raise(r) \/ Scaffolds(r)
  BY <1>4 DEF Raise, NothingToRaise, RereadConfig, LeaveAlone, BeginAmend,
     EndAmend, Scaffolds, InitRefuses, InitProceeds, BeginScaffold, EndScaffold,
     DisturbsOthers, unchangedButExit, TypeOK
<1>5. CASE WriteFails(r) \/ AmendFails(r) \/ Crash(r)
  BY <1>5 DEF WriteFails, AmendFails, Crash, Fault, Exit, Goto, TypeOK
<1>. QED BY <1>1, <1>2, <1>3, <1>4, <1>5 DEF Step

LEMMA CheckAfterBuild ==
  ASSUME CurrencyInv, NEW q \in Run, NEW r \in Run, Step(r) \/ Crash(r),
         q \in before[r], stable[q], Settled(q),
         pc'[r] = "done", pc[r] # "done", exit'[r] # Killed,
         call[r].cmd = "check", "only_unknown" \notin call[r].flags,
         analyzer(r) = analyzer(q)
  PROVE  exit'[r] = Verdict(r)
<1>. USE DEF Mapping, Detecting, Checking, Writing, Raising
<1>1. TypeOK /\ DiskShape /\ Standing(r)
  BY DEF CurrencyInv, TypeInv
<1>2. CASE Crash(r)
  BY <1>1, <1>2 DEF Crash, Exit, TypeOK
<1>3. ASSUME Step(r)
      PROVE  exit'[r] = Verdict(r)
  <2>1. Active(r)
    BY <1>1, <1>3, Stepping
  <2>2. stable[r] /\ Holds(r)
    BY <2>1 DEF CurrencyInv, Inherits
  <2>3. SettingsHold(r) /\ ScansHold(r) /\ OutputsHold(r)
    BY <2>2 DEF Holds
  <2>4. /\ config.is = "whole" /\ Resolves(config.text.unit) /\ Current(q)
        /\ ~Refuses(config.text.floor, release(r))
        /\ release(r) = release(q)
    BY DEF Settled, analyzer, release
  <2>5. CASE Load(r)
    <3>1. LoadAccepted(r)
      BY <2>4, <2>5 DEF Load, LoadNothing, LoadUnreadable, LoadRejected,
         LoadTooOld, RejectOnly, Absent, Empty, Mixed, Rejected
    <3>. QED BY <1>1, <3>1 DEF LoadAccepted, Goto, TypeOK
  <2>6. CASE Scan(r)
    <3>1. ASSUME NEW f \in File, ReadFails(r, f)
          PROVE  FALSE
      <4>1. pc[r] \in {"scan", "unit", "specs"} /\ f \in todo[r] /\ source[f] = Gone
        BY <3>1 DEF ReadFails, Reading
      <4>2. DetectionWanted \/ pc[r] = "scan"
        BY <1>1, <4>1 DEF Standing
      <4>. QED BY <2>3, <2>4, <4>1, <4>2 DEF ScansHold, Existing, Resolves
    <3>2. ASSUME LocatorFails(r)
          PROVE  FALSE
      <4>1. pc[r] = "unit" /\ cfg(r).unit \in BadLocator
        BY <3>2 DEF LocatorFails
      <4>2. DetectionWanted /\ cfg(r) = config.text
        BY <1>1, <2>3, <4>1 DEF Standing, SettingsHold, Loaded, cfg
      <4>. QED BY <2>4, <4>1, <4>2 DEF Resolves
    <3>3. ASSUME Walk(r) \/ Extract(r) \/ ResolveLocators(r) \/ Detect(r)
          PROVE  pc'[r] # "done"
      BY <1>1, <3>3
         DEF Walk, Extract, ResolveLocators, Detect, AfterRender, Goto, TypeOK
    <3>4. ASSUME NEW f \in File, ReadFile(r, f)
          PROVE  pc'[r] # "done"
      BY <3>4 DEF ReadFile
    <3>5. ~ReportDigest(r)
      BY DEF ReportDigest
    <3>. QED BY <2>6, <3>1, <3>2, <3>3, <3>4, <3>5 DEF Scan
  <2>7. CASE Check(r)
    <3>1. pc[r] \in Checking
      BY <2>7 DEF Check, CheckFactsFails, CheckFactsPasses, CheckDocument
    <3>2. /\ Document(r)
               = DocumentOf(release(r), config.text, Walked, CurrentUnit)
          /\ Rendering(r, "facts") = ArtifactOf(analyzer(r), CurrentUnit)
      BY <2>3, <3>1, RendersCurrent DEF Rendered
    <3>3. /\ disk["md"] = Whole(Document(r))
          /\ FactsOut => disk["facts"] = Whole(Rendering(r, "facts"))
      BY <2>4, <3>2 DEF Current
    <3>4. FactsVerdict(r) = Verdict(r)
      BY <1>1, <3>3, VerdictIsExact DEF Verdict
    <3>5. CASE CheckFactsFails(r)
      BY <1>1, <3>4, <3>5 DEF CheckFactsFails, Exit, TypeOK
    <3>6. CASE CheckDocument(r)
      <4>1. exit'[r] = 0
        BY <1>1, <3>3, <3>6 DEF CheckDocument, Exit, TypeOK
      <4>2. FactsOut => Diagnostics(r) \cap Mandatory = {}
        BY <2>3, <3>6 DEF CheckDocument, OutputsHold
      <4>. QED BY <4>1, <4>2 DEF Verdict
    <3>7. ~CheckFactsPasses(r)
      BY <1>1 DEF CheckFactsPasses, Goto, TypeOK
    <3>. QED BY <2>7, <3>5, <3>6, <3>7 DEF Check
  <2>8. ~Write(r) /\ ~Raise(r) /\ ~Scaffolds(r)
    <3>1. pc[r] \notin Writing \cup Raising \cup Scaffolded
      BY <1>1 DEF Standing, CommandAt
    <3>. QED BY <3>1 DEF Write, BeginWrite, EndWrite, SkipRatchet, AllWritten,
           BaselineMissing, ProbeBaseline, BaselineVanishes, BaselineRejected,
           RatchetFails, RatchetPasses, Judging, Raise, NothingToRaise,
           RereadConfig, LeaveAlone, BeginAmend, EndAmend, Scaffolds,
           InitRefuses, InitProceeds, BeginScaffold, EndScaffold, Scaffolded
  <2>. QED BY <1>3, <2>5, <2>6, <2>7, <2>8 DEF Step
<1>. QED BY <1>2, <1>3

-----------------------------------------------------------------------------
LEMMA CurrencyInit == Init => CurrencyInv
<1>. SUFFICES ASSUME Init PROVE CurrencyInv
  OBVIOUS
<1>1. TypeInv
  BY TypeInit
<1>2. DiskShape
  BY DEF Init, DiskShape, Absent
<1>3. ASSUME NEW r \in Run
      PROVE  Standing(r) /\ (stable[r] => Holds(r))
  BY DEF Init, Standing, CommandAt, Scaffolded, Mapping, Detecting, Checking,
     Writing, Raising
<1>4. \A q, r \in Run : Inherits(q, r)
  BY DEF Init, Inherits
<1>5. FixedPoint
  BY DEF Init, FixedPoint, Ended
<1>. QED BY <1>1, <1>2, <1>3, <1>4, <1>5 DEF CurrencyInv

LEMMA DiskKeepsShape ==
  ASSUME TypeOK, DiskShape, [Next]_vars
  PROVE  DiskShape'
<1>1. \/ disk' = disk
      \/ \E r \in Run : BeginWrite(r) \/ EndWrite(r)
  BY DEF Next, vars, Step, Start, Load, LoadNothing, LoadUnreadable,
     LoadRejected, LoadTooOld, RejectOnly, LoadAccepted, Scan, Walk, Extract,
     ResolveLocators, LocatorFails, Detect, ReportDigest, ReadFile, ReadFails,
     Check, CheckFactsFails, CheckFactsPasses, CheckDocument, Write,
     SkipRatchet, BaselineMissing, ProbeBaseline, BaselineVanishes,
     BaselineRejected, RatchetFails, RatchetPasses, Raise, NothingToRaise,
     RereadConfig, LeaveAlone, BeginAmend, EndAmend, Scaffolds, InitRefuses,
     InitProceeds, BeginScaffold, EndScaffold, WriteFails, AmendFails, Crash,
     Fault, Editor, EditSource, EditBaseline, EditConfig, Edit,
     unchangedButExit, copy
<1>2. ASSUME NEW p, NEW bytes, bytes.is = "whole" => bytes = Whole(bytes.text),
             disk' = [disk EXCEPT ![p] = bytes]
      PROVE  DiskShape'
  BY <1>2 DEF DiskShape, TypeOK
<1>3. ASSUME NEW current, NEW x, NEW bytes \in Landing(current, x)
      PROVE  bytes.is = "whole" => bytes = Whole(bytes.text)
  BY <1>3 DEF Landing, Whole, Mixed
<1>4. ASSUME NEW r \in Run, BeginWrite(r)
      PROVE  DiskShape'
  BY <1>2, <1>4 DEF BeginWrite, Empty
<1>5. ASSUME NEW r \in Run, EndWrite(r)
      PROVE  DiskShape'
  BY <1>2, <1>3, <1>5 DEF EndWrite
<1>. QED BY <1>1, <1>4, <1>5 DEF DiskShape

LEMMA CurrencyNext == CurrencyInv /\ [Next]_vars => CurrencyInv'
<1>. SUFFICES ASSUME CurrencyInv, [Next]_vars PROVE CurrencyInv'
  OBVIOUS
<1>1. TypeInv /\ TypeOK /\ TypeInv' /\ DiskShape /\ DiskShape'
  BY TypeNext, DiskKeepsShape DEF CurrencyInv, TypeInv
<1>2. ASSUME NEW q \in Run
      PROVE  /\ Standing(q) /\ (stable[q] => Holds(q))
             /\ before[q] \in SUBSET Run
             /\ \A p \in before[q] : pc[p] = "done"
  BY <1>1 DEF CurrencyInv, Standing, TypeOK
\* Nobody moves: the state is the same, or a person edits the working copy.
<1>3. ASSUME \A q \in Run : Still(q),
             \A q \in Run : stable'[q] => stable[q] /\ UNCHANGED copy,
             \A q, p \in Run : stable'[q] => (stable'[p] <=> stable[p])
      PROVE  CurrencyInv'
  <2>1. \A p \in Run : pc[p] = "done" => pc'[p] = "done"
    BY <1>3 DEF Still
  <2>2. \A q \in Run : Standing(q)' /\ (stable'[q] => Holds(q)')
    BY <1>2, <1>3, <2>1, StillHolds
  <2>3. \A q, r \in Run : Inherits(q, r)'
    BY <1>3 DEF CurrencyInv, Inherits, Still, Active
  <2>4. FixedPoint'
    <3>1. \A q \in Run : analyzer(q)' = analyzer(q)
                         /\ Diagnostics(q)' = Diagnostics(q)
      BY <1>3, SameRendering
    <3>. QED BY <1>3, <3>1 DEF CurrencyInv, FixedPoint, Ended, Still
  <2>. QED BY <1>1, <2>2, <2>3, <2>4 DEF CurrencyInv
<1>4. CASE UNCHANGED vars
  <2>1. \A q \in Run : Still(q)
    BY <1>4 DEF vars, local, history, Still
  <2>. QED BY <1>3, <1>4, <2>1 DEF vars, history
<1>5. CASE Editor
  <2>1. /\ UNCHANGED <<pc, exit, local, before>>
        /\ \A q \in Run : ~stable'[q]
    BY <1>5 DEF Editor, EditSource, EditBaseline, EditConfig, Edit, DisturbsAll
  <2>2. \A q \in Run : Still(q)
    BY <2>1 DEF local, Still
  <2>. QED BY <1>3, <2>1, <2>2
<1>6. ASSUME NEW r \in Run, Moves(r),
             \/ \E i \in Invocation : Start(r, i)
             \/ Step(r) \/ WriteFails(r) \/ AmendFails(r) \/ Crash(r)
      PROVE  CurrencyInv'
  <2>1. /\ pc[r] # "done"
        /\ \A q \in Run \ {r} : Still(q)
        /\ \A q \in Run \ {r} : stable'[q] => stable[q] /\ UNCHANGED copy
        /\ \A q, p \in Run \ {r} : stable'[q] => stable'[p] = stable[p]
    BY <1>6 DEF Moves
  <2>2. \A p \in Run : pc[p] = "done" => pc'[p] = "done"
    BY <2>1 DEF Still
  <2>3. Standing(r)' /\ (stable'[r] => Holds(r)')
    <3>1. ASSUME WriteFails(r) \/ AmendFails(r) \/ Crash(r)
          PROVE  Standing(r)' /\ (stable'[r] => Holds(r)')
      BY <1>1, <1>2, <3>1, FaultKeeps
    <3>. QED BY <1>1, <1>2, <1>6, <3>1, Starting, Loading, Scanning,
           CheckingKeeps, WritingKeeps, RaisingKeeps, ScaffoldingKeeps DEF Step
  <2>4. \A q \in Run : Standing(q)' /\ (stable'[q] => Holds(q)')
    BY <1>2, <2>1, <2>2, <2>3, StillHolds
  <2>5. CASE \E i \in Invocation : Start(r, i)
    <3>1. stable'[r] /\ pc'[r] # "done"
      BY <1>1, <2>5 DEF Start, Goto, TypeOK
    <3>2. ASSUME NEW q \in Run, NEW p \in Run \ {r}, q \in before'[p]
          PROVE  q # r /\ q \in before[p]
      BY <1>2, <2>1, <3>2 DEF Still
    <3>3. \A q, p \in Run : Inherits(q, p)'
      BY <2>1, <3>1, <3>2 DEF CurrencyInv, Inherits, Still, Active
    <3>4. FixedPoint'
      <4>1. \A q \in Run \ {r} : analyzer(q)' = analyzer(q)
                                 /\ Diagnostics(q)' = Diagnostics(q)
        BY <2>1, SameRendering
      <4>. QED BY <2>1, <3>1, <3>2, <4>1
             DEF CurrencyInv, FixedPoint, Ended, Still
    <3>. QED BY <1>1, <2>4, <3>3, <3>4 DEF CurrencyInv
  <2>6. CASE Step(r) \/ WriteFails(r) \/ AmendFails(r) \/ Crash(r)
    <3>1. /\ Active(r) /\ before'[r] = before[r] /\ call'[r] = call[r]
          /\ pc'[r] # "done" => stable'[r] = stable[r]
          /\ pc'[r] = "done" => unitSnap'[r] = unitSnap[r]
      BY <1>1, <2>6, Stepping
    <3>2. ASSUME NEW q \in Run, NEW p \in Run, q \in before'[p]
          PROVE  q # r /\ q \in before[p]
      BY <1>2, <2>1, <3>1, <3>2 DEF Still
    <3>3. \A q, p \in Run : Inherits(q, p)'
      BY <2>1, <3>1, <3>2 DEF CurrencyInv, Inherits, Still, Active
    <3>4. ASSUME NEW q \in Run, NEW p \in Run,
                 /\ Ended(q, "build")' /\ exit'[q] \in {0, 6} /\ stable'[q]
                 /\ Ended(p, "check")' /\ q \in before'[p]
                 /\ analyzer(p)' = analyzer(q)'
                 /\ "only_unknown" \notin call'[p].flags
          PROVE  exit'[p] = Verdict(p)'
      <4>1. /\ Still(q) /\ stable[q] /\ q \in before[p] /\ pc[q] = "done"
            /\ analyzer(q)' = analyzer(q)
        BY <1>2, <2>1, <3>2, <3>4, SameRendering
      <4>2. Ended(q, "build") /\ exit[q] \in {0, 6}
        BY <3>4, <4>1 DEF Ended, Still
      <4>3. CASE p # r
        <5>1. Still(p) /\ analyzer(p)' = analyzer(p) /\ Verdict(p)' = Verdict(p)
          BY <2>1, <4>3, SameRendering DEF Verdict
        <5>2. Ended(p, "check") /\ "only_unknown" \notin call[p].flags
          BY <3>4, <5>1 DEF Ended, Still
        <5>3. FixedPoint /\ analyzer(p) = analyzer(q)
          BY <3>4, <4>1, <5>1 DEF CurrencyInv
        <5>4. exit[p] = Verdict(p)
          BY <4>1, <4>2, <5>2, <5>3 DEF FixedPoint, Verdict
        <5>. QED BY <5>1, <5>4 DEF Still
      <4>4. CASE p = r
        <5>1. pc'[r] = "done" /\ exit'[r] # Killed /\ call[r].cmd = "check"
          BY <3>1, <3>4, <4>4 DEF Ended
        <5>2. analyzer(r) = analyzer(q) /\ Verdict(r)' = Verdict(r)
          BY <3>1, <3>4, <4>1, <4>4, <5>1 DEF analyzer, Verdict, Diagnostics
        <5>3. Settled(q)
          BY <1>2, <4>1, <4>2 DEF Holds, EndHolds, Ended
        <5>4. Step(r) \/ Crash(r)
          BY <1>2, <2>6, <5>1 DEF WriteFails, AmendFails, Standing, CommandAt,
             Scaffolded, Writing, Raising
        <5>. QED BY <2>1, <3>1, <3>4, <4>1, <4>4, <5>1, <5>2, <5>3, <5>4,
               CheckAfterBuild
      <4>. QED BY <4>3, <4>4
    <3>5. FixedPoint'
      BY <3>4 DEF FixedPoint, Verdict
    <3>. QED BY <1>1, <2>4, <3>3, <3>5 DEF CurrencyInv
  <2>. QED BY <1>6, <2>5, <2>6
<1>. QED BY <1>1, <1>4, <1>5, <1>6, OneRunMoves

-----------------------------------------------------------------------------
(***************************************************************************)
(* A completed build makes a later check of the same release pass, however *)
(* many runs overlap and fail, as long as nothing else changed the working *)
(* copy since the build started.  (commands.ts build, runCheck; DLT-030)   *)
(***************************************************************************)
THEOREM BuildIsFixedPoint == Spec => []FixedPoint
<1>1. CurrencyInv => FixedPoint
  BY DEF CurrencyInv
<1>. QED BY <1>1, CurrencyInit, CurrencyNext, PTL DEF Spec

(***************************************************************************)
(* An undisturbed check that exits 0 has seen the outputs the tree and the *)
(* configuration on disk render to.  (commands.ts runCheck)                *)
(***************************************************************************)
THEOREM ChecksAcceptOnlyCurrent == Spec => []CheckAcceptsOnlyCurrent
<1>1. CurrencyInv => CheckAcceptsOnlyCurrent
  BY DEF CurrencyInv, Holds, EndHolds, Current, CheckAcceptsOnlyCurrent, Ended
<1>. QED BY <1>1, CurrencyInit, CurrencyNext, PTL DEF Spec

(***************************************************************************)
(* An undisturbed strict build exits 0 exactly when the baseline lists the *)
(* cores it emits; it emits some only where detection runs.                *)
(* (ratchet.ts ratchet, BEH-014)                                           *)
(***************************************************************************)
THEOREM RatchetComparesExactly ==
  ASSUME DetectionWanted PROVE Spec => []RatchetIsExact
<1>1. ASSUME CurrencyInv, NEW r \in Run, Ended(r, "build"), stable[r],
             "strict" \in call[r].flags, exit[r] \in {0, 6}
      PROVE  exit[r] = 0 <=>
               (IF DeclaresBaseline
                THEN baseline = Whole(Emitted(source) \ Mandatory)
                ELSE Emitted(source) \subseteq Mandatory)
  <2>1. Settled(r)
    BY <1>1 DEF CurrencyInv, Holds, EndHolds, Ended
  <2>2. Diagnostics(r) = Emitted(source)
    BY <2>1 DEF Settled, UnitFiles, Diagnostics
  <2>. QED BY <1>1, <2>1, <2>2 DEF Settled, Judged, Exact
<1>2. CurrencyInv => RatchetIsExact
  BY <1>1 DEF RatchetIsExact
<1>. QED BY <1>2, CurrencyInit, CurrencyNext, PTL DEF Spec

(***************************************************************************)
(* An undisturbed build that exits 0 leaves the floor at its own line or   *)
(* above, where the floor can be located.  (commands.ts raiseFloor)        *)
(***************************************************************************)
THEOREM RaisesArePaid == Spec => []RaiseIsPaid
<1>1. CurrencyInv => RaiseIsPaid
  BY DEF CurrencyInv, Holds, EndHolds, Settled, Paid, RaiseIsPaid, Ended
<1>. QED BY <1>1, CurrencyInit, CurrencyNext, PTL DEF Spec
=============================================================================
