-------------------------- MODULE BuildRunsProofs --------------------------
(***************************************************************************)
(* Theorems about BuildRuns for every set of runs, command lines, files,   *)
(* configurations and bounds.                                              *)
(***************************************************************************)
EXTENDS BuildRuns, TLAPS

(***************************************************************************)
(* A raise goes strictly up, to a floor the raising release clears.        *)
(* (tool-version.ts raisedFloorFor)                                        *)
(***************************************************************************)
LEMMA RaiseGoesUp ==
  ASSUME NEW rel \in Release, NEW declared \in Release,
         ExceedsLine(rel, declared)
  PROVE  /\ LineOf(rel) \in Release
         /\ IsBelow(declared, LineOf(rel))
         /\ ~IsBelow(LineOf(rel), declared)
         /\ ~IsBelow(rel, LineOf(rel))
BY DEF Release, ExceedsLine, LineOf, IsBelow

\* No release is below itself.
LEMMA NotBelowItself == ASSUME NEW rel \in Release PROVE ~IsBelow(rel, rel)
BY DEF Release, IsBelow

\* Outputs is a nonempty sequence of artifacts, whatever is switched on.
LEMMA OutputsType ==
  /\ Outputs \in Seq(Artifact)
  /\ Len(Outputs) \in Nat
  /\ Len(Outputs) >= 1
  /\ DOMAIN Outputs = 1 .. Len(Outputs)
<1>1. <<"md">> \in Seq(Artifact) /\ Len(<<"md">>) = 1
  BY DEF Artifact
<1>2. CASE JsonOut /\ FactsOut
  BY <1>1, <1>2 DEF Outputs, Artifact
<1>3. CASE JsonOut /\ ~FactsOut
  BY <1>1, <1>3 DEF Outputs, Artifact
<1>4. CASE ~JsonOut /\ FactsOut
  BY <1>1, <1>4 DEF Outputs, Artifact
<1>5. CASE ~JsonOut /\ ~FactsOut
  BY <1>1, <1>5 DEF Outputs, Artifact
<1>. QED BY <1>2, <1>3, <1>4, <1>5

\* A complete configuration file holds one of the configurations.
LEMMA WholeConfig ==
  ASSUME NEW bytes \in ConfigBytes, bytes.is = "whole"
  PROVE  bytes.text \in ConfigText /\ bytes = Whole(bytes.text)
BY DEF ConfigBytes, Absent, Empty, Mixed, Rejected, Whole

\* A configuration write leaves the text it carries, or overlaid bytes.
LEMMA LandingConfig ==
  ASSUME NEW current, NEW c \in ConfigText, NEW bytes \in Landing(current, c)
  PROVE  /\ bytes \in ConfigBytes
         /\ bytes.is = "whole" => bytes = Whole(c)
         /\ current = Empty => bytes = Whole(c)
BY DEF Landing, ConfigBytes, Empty, Mixed, Whole

-----------------------------------------------------------------------------
(***************************************************************************)
(* Type correctness.  EndWrite advances out and EndAmend reads text, so    *)
(* the induction needs to know where out and text stand at those labels.   *)
(***************************************************************************)
Flushing == \A r \in Run : pc[r] = "flush" => out[r] \in DOMAIN Outputs
Amending == \A r \in Run : pc[r] = "amending" => IsLocated(text[r])

TypeInv == TypeOK /\ Flushing /\ Amending

LEMMA TypeInit == Init => TypeInv
<1>. SUFFICES ASSUME Init PROVE TypeInv
  OBVIOUS
<1>1. source \in Snapshot
  BY FirstSourceType DEF Init, Snapshot
<1>2. config \in ConfigBytes
  BY FirstConfigType DEF Init, ConfigBytes
<1>3. (IF config.is = "whole" THEN config.text.floor ELSE NoFloor)
        \in Release \cup {NoFloor}
  BY <1>2, WholeConfig, ConfigTextType
<1>4. (CHOOSE i \in Invocation : TRUE) \in Invocation
  BY InvocationType
<1>5. NothingRead \in Snapshot
  BY DEF NothingRead, Snapshot
<1>6. 1 \in 1 .. Len(Outputs) + 1
  BY OutputsType
<1>7. baseline \in {Absent, Rejected} \cup {Whole(b) : b \in SUBSET Core}
  BY BaselinesType DEF Init
<1>8. TypeOK
  BY <1>1, <1>2, <1>3, <1>4, <1>5, <1>6, <1>7, BoundsAreNat
     DEF Init, TypeOK, Label, ExitCode, ConfigBytes
<1>. QED BY <1>8 DEF TypeInv, Flushing, Amending, Init

LEMMA TypeNext == TypeInv /\ [Next]_vars => TypeInv'
<1>. SUFFICES ASSUME TypeInv, [Next]_vars PROVE TypeInv'
  OBVIOUS
<1>. USE DEF TypeInv, Flushing, Amending
<1>1. CASE UNCHANGED vars
  BY <1>1 DEF vars, copy, local, history, TypeOK, Flushing, Amending
<1>2. ASSUME NEW r \in Run, NEW i \in Invocation, Start(r, i)
      PROVE  TypeInv'
  BY <1>2 DEF Start, Goto, copy, TypeOK, Label
\* The steps that move a run to a label nothing is remembered for.
<1>3. ASSUME NEW r \in Run, NEW label \in Label \ {"flush", "amending"},
             Goto(r, label),
             UNCHANGED <<copy, local, history, edits, faults>>,
             exit' \in [Run -> ExitCode]
      PROVE  TypeInv'
  BY <1>3 DEF Goto, copy, local, history, TypeOK
<1>13. ASSUME NEW r \in Run, NEW code \in {0, 1, 2, 3, 4, 5, 7}, Exit(r, code),
              unchangedButExit
       PROVE  TypeInv'
  BY <1>13, <1>3 DEF Exit, unchangedButExit, TypeOK, Label, ExitCode
<1>4. ASSUME NEW r \in Run, Load(r)
      PROVE  TypeInv'
  <2>1. CASE LoadAccepted(r)
    BY <2>1 DEF LoadAccepted, Goto, copy, history, TypeOK, Label
  <2>2. CASE LoadNothing(r) \/ LoadUnreadable(r) \/ LoadRejected(r)
               \/ LoadTooOld(r) \/ RejectOnly(r)
    BY <2>2, <1>13 DEF LoadNothing, LoadUnreadable, LoadRejected, LoadTooOld,
       RejectOnly
  <2>. QED BY <1>4, <2>1, <2>2 DEF Load
<1>5. ASSUME NEW r \in Run, Scan(r)
      PROVE  TypeInv'
  <2>1. CASE Walk(r)
    BY <2>1 DEF Walk, Goto, copy, history, TypeOK, Label, Existing, File
  <2>2. CASE Extract(r) \/ Detect(r)
    BY <2>2, <1>3 DEF Extract, Detect, AfterRender, TypeOK, Label
  <2>3. CASE ResolveLocators(r)
    BY <2>3 DEF ResolveLocators, Goto, copy, history, TypeOK, Label, File
  <2>4. CASE LocatorFails(r) \/ ReportDigest(r)
    BY <2>4, <1>13 DEF LocatorFails, ReportDigest
  <2>5. ASSUME NEW f \in File, ReadFile(r, f)
        PROVE  TypeInv'
    <3>1. source[f] \in Content \cup {Gone}
      BY DEF TypeOK, Snapshot
    <3>2. /\ [mapSnap[r] EXCEPT ![f] = source[f]] \in Snapshot
          /\ [unitSnap[r] EXCEPT ![f] = source[f]] \in Snapshot
      BY <3>1 DEF TypeOK, Snapshot
    <3>3. mapSnap' \in [Run -> Snapshot] /\ unitSnap' \in [Run -> Snapshot]
      BY <2>5, <3>2 DEF ReadFile, TypeOK
    <3>. QED BY <2>5, <3>3 DEF ReadFile, copy, history, TypeOK
  <2>6. ASSUME NEW f \in File, ReadFails(r, f)
        PROVE  TypeInv'
    BY <2>6, <1>13 DEF ReadFails
  <2>. QED BY <1>5, <2>1, <2>2, <2>3, <2>4, <2>5, <2>6 DEF Scan
<1>6. ASSUME NEW r \in Run, Check(r)
      PROVE  TypeInv'
  <2>1. FactsVerdict(r) \in {0, 1, 3, 4}
    BY DEF FactsVerdict
  <2>2. CASE CheckFactsFails(r) \/ CheckDocument(r)
    BY <2>1, <2>2, <1>13 DEF CheckFactsFails, CheckDocument
  <2>3. CASE CheckFactsPasses(r)
    BY <2>3, <1>3 DEF CheckFactsPasses, TypeOK, Label
  <2>. QED BY <1>6, <2>2, <2>3 DEF Check
<1>7. ASSUME NEW r \in Run, Write(r)
      PROVE  TypeInv'
  <2>1. CASE BeginWrite(r)
    <3>1. Outputs[out[r]] \in Artifact
      BY <2>1, OutputsType DEF BeginWrite
    <3>. QED BY <2>1, <3>1 DEF BeginWrite, Opens, DisturbsOthers, Goto, local,
           TypeOK, Label, Path
  <2>2. CASE EndWrite(r)
    BY <2>2, OutputsType DEF EndWrite, DisturbsOthers, Goto, TypeOK, Label
  <2>3. CASE SkipRatchet(r) \/ ProbeBaseline(r) \/ RatchetPasses(r)
    BY <2>3, <1>3 DEF SkipRatchet, ProbeBaseline, RatchetPasses, TypeOK, Label
  <2>5. CASE RatchetFails(r)
    <3>1. exit' \in [Run -> ExitCode]
      BY <2>5 DEF RatchetFails, TypeOK, ExitCode
    <3>. QED BY <2>5, <3>1, <1>3 DEF RatchetFails, Label
  <2>4. CASE BaselineMissing(r) \/ BaselineVanishes(r) \/ BaselineRejected(r)
    BY <2>4, <1>13 DEF BaselineMissing, BaselineVanishes, BaselineRejected
  <2>. QED BY <1>7, <2>1, <2>2, <2>3, <2>4, <2>5 DEF Write
<1>8. ASSUME NEW r \in Run, NEW c \in ConfigText, ConfigLands(r, c)
      PROVE  config' \in ConfigBytes /\ floor' \in Release \cup {NoFloor}
  BY <1>8, LandingConfig, ConfigTextType DEF ConfigLands, TypeOK
<1>9. ASSUME NEW r \in Run, Raise(r)
      PROVE  TypeInv'
  <2>1. CASE NothingToRaise(r) \/ LeaveAlone(r)
    BY <2>1, <1>3 DEF NothingToRaise, LeaveAlone, TypeOK, Label
  <2>2. CASE RereadConfig(r)
    BY <2>2 DEF RereadConfig, Goto, copy, history, TypeOK, Label
  <2>3. CASE BeginAmend(r)
    BY <2>3 DEF BeginAmend, Opens, DisturbsOthers, Goto, local, TypeOK, Label,
       ConfigBytes, Path
  <2>4. CASE EndAmend(r)
    <3>1. Amended(r) \in ConfigText
      BY <2>4, WholeConfig, ConfigTextClosed
         DEF EndAmend, Amended, IsLocated, release, TypeOK
    <3>. QED BY <2>4, <3>1, <1>8 DEF EndAmend, DisturbsOthers, Goto, local,
           TypeOK, Label
  <2>. QED BY <1>9, <2>1, <2>2, <2>3, <2>4 DEF Raise
<1>10. ASSUME NEW r \in Run, Scaffolds(r)
       PROVE  TypeInv'
  <2>1. CASE InitRefuses(r)
    BY <2>1, <1>13 DEF InitRefuses
  <2>4. CASE InitProceeds(r)
    BY <2>4, <1>3 DEF InitProceeds, TypeOK, Label
  <2>2. CASE BeginScaffold(r)
    BY <2>2 DEF BeginScaffold, Opens, DisturbsOthers, Goto, local, TypeOK,
       Label, ConfigBytes, Path
  <2>3. CASE EndScaffold(r)
    <3>1. DefaultConfig(release(r)) \in ConfigText
      BY ConfigTextClosed DEF release, TypeOK
    <3>. QED BY <2>3, <3>1, <1>8 DEF EndScaffold, DisturbsOthers, Goto, local,
           TypeOK, Label
  <2>. QED BY <1>10, <2>1, <2>2, <2>3, <2>4 DEF Scaffolds
<1>11. ASSUME NEW r \in Run, WriteFails(r) \/ AmendFails(r) \/ Crash(r)
       PROVE  TypeInv'
  <2>1. faults' \in 0..MaxFaults
    BY <1>11, BoundsAreNat DEF WriteFails, AmendFails, Crash, Fault, TypeOK
  <2>2. /\ Fault(r)
        /\ pc' = [pc EXCEPT ![r] = "done"]
        /\ exit' \in [Run -> ExitCode]
    <3>1. 1 \in ExitCode /\ Killed \in ExitCode
      BY DEF ExitCode
    <3>. QED BY <1>11, <3>1 DEF WriteFails, AmendFails, Crash, Exit, Goto, TypeOK
  <2>. QED BY <2>1, <2>2 DEF Fault, copy, local, TypeOK, Label
<1>12. CASE Editor
  <2>1. ASSUME Edit
        PROVE  edits' \in 0..MaxEdits
    BY <2>1, BoundsAreNat DEF Edit, TypeOK
  <2>2. ASSUME NEW f \in File, NEW c \in Content \cup {Gone}, EditSource(f, c)
        PROVE  TypeInv'
    BY <2>1, <2>2 DEF EditSource, Edit, DisturbsAll, local, TypeOK, Snapshot
  <2>3. ASSUME NEW b \in Baselines, EditBaseline(b)
        PROVE  TypeInv'
    BY <2>1, <2>3, BaselinesType DEF EditBaseline, Edit, DisturbsAll, local,
       TypeOK
  <2>4. ASSUME NEW c \in ConfigText, EditConfig(c)
        PROVE  TypeInv'
    BY <2>1, <2>4, ConfigTextType DEF EditConfig, Edit, DisturbsAll, local,
       TypeOK, ConfigBytes, Path
  <2>. QED BY <1>12, <2>2, <2>3, <2>4 DEF Editor
<1>. QED BY <1>1, <1>2, <1>4, <1>5, <1>6, <1>7, <1>9, <1>10, <1>11, <1>12
       DEF Next, Step

(***************************************************************************)
(* Every variable stays in its domain, whatever runs overlap, fail or are  *)
(* killed.                                                                 *)
(***************************************************************************)
THEOREM TypeCorrect == Spec => []TypeOK
<1>1. TypeInv => TypeOK
  BY DEF TypeInv
<1>. QED BY TypeInit, TypeNext, <1>1, PTL DEF Spec

-----------------------------------------------------------------------------
(***************************************************************************)
(* The floor, when runs follow one another and a person edits the          *)
(* configuration only between them.  The induction follows the floor from  *)
(* the load to the last step of a run: what was admitted at the load still *)
(* is, since nobody else writes meanwhile, and a raise is owed against the *)
(* floor on disk.                                                          *)
(***************************************************************************)
Sequential == ~Overlap /\ ~LiveEdits
NoneForces == \A i \in Invocation : "force" \notin i.flags

Solo == \A q, r \in Run : Active(q) /\ Active(r) => q = r

\* Between the two halves of a write the file is empty, and floor is what the
\* configuration last declared; a missing file never declared one.
FloorOnDisk ==
  /\ config.is = "whole" => floor = config.text.floor
  /\ config = Absent => floor = NoFloor

Mapping == {"walk", "scan"}
Detecting == {"walkUnit", "unit", "specs"}
Checking == {"checkFacts", "checkDocument"}
Writing == {"write", "flush", "baseline"}
Raising == {"raise", "amend", "amending"}

CommandAt(r) ==
  /\ pc[r] \in {"load"} \cup Detecting => call[r].cmd # "init"
  /\ pc[r] \in Mapping => call[r].cmd \in {"build", "check"}
  /\ pc[r] \in Writing \cup Raising => call[r].cmd = "build"

Admitted(r) ==
  pc[r] \in Mapping \cup Detecting \cup Checking \cup Writing \cup Raising
  => /\ conf[r].is = "whole"
     /\ cfg(r).floor = floor
     /\ ~Refuses(floor, release(r))

Owing(r) ==
  /\ pc[r] \in {"amend", "amending"} => OwesRaise(r)
  /\ pc[r] \in {"amending", "scaffold"} => config = Empty

\* Where a run stands in the order of outputs.
Progress(r) ==
  /\ pc[r] = "idle" => out[r] = 1
  /\ pc[r] \in {"baseline"} \cup Raising => out[r] > Len(Outputs)

Scaffolding(r) ==
  NoneForces /\ pc[r] \in {"create", "scaffold"} => floor = NoFloor

RunInv(r) ==
  CommandAt(r) /\ Admitted(r) /\ Owing(r) /\ Progress(r) /\ Scaffolding(r)

FloorInv == TypeInv /\ Solo /\ FloorOnDisk /\ \A r \in Run : RunInv(r)

LEMMA FloorInit == Init => FloorInv
<1>. SUFFICES ASSUME Init PROVE FloorInv
  OBVIOUS
<1>1. TypeInv
  BY TypeInit
<1>2. Solo
  BY DEF Init, Solo, Active
<1>3. FloorOnDisk
  BY DEF Init, FloorOnDisk, Absent
<1>4. \A r \in Run : RunInv(r)
  BY DEF Init, RunInv, CommandAt, Admitted, Owing, Progress, Scaffolding,
     Mapping, Detecting, Checking, Writing, Raising
<1>. QED BY <1>1, <1>2, <1>3, <1>4 DEF FloorInv

\* While one run moves the others are idle or done, and nothing is said of
\* those but where they start.
LEMMA OneMoves ==
  ASSUME FloorInv, NEW r \in Run, Active(r),
         NEW label \in Label \ {"idle"}, Goto(r, label),
         \A q \in Run \ {r} : out'[q] = out[q],
         RunInv(r)'
  PROVE  Solo' /\ \A q \in Run : RunInv(q)'
<1>1. pc \in [Run -> Label] /\ pc' = [pc EXCEPT ![r] = label]
  BY DEF FloorInv, TypeInv, TypeOK, Goto
<1>2. \A q \in Run \ {r} : pc[q] \in {"idle", "done"} /\ pc'[q] = pc[q]
  BY <1>1 DEF FloorInv, Solo, Active
<1>3. Solo'
  BY <1>2 DEF Solo, Active
<1>4. ASSUME NEW q \in Run \ {r}
      PROVE  RunInv(q)'
  <2>1. pc[q] = "idle" => out[q] = 1
    BY DEF FloorInv, RunInv, Progress
  <2>. QED BY <1>2, <2>1 DEF RunInv, CommandAt, Admitted, Owing, Progress,
         Scaffolding, Mapping, Detecting, Checking, Writing, Raising
<1>. QED BY <1>3, <1>4

LEMMA FloorNext == Sequential /\ FloorInv /\ [Next]_vars => FloorInv'
<1>. SUFFICES ASSUME Sequential, FloorInv, [Next]_vars PROVE FloorInv'
  OBVIOUS
<1>1. TypeInv /\ TypeOK /\ TypeInv'
  BY TypeNext DEF FloorInv, TypeInv
<1>. USE DEF Mapping, Detecting, Checking, Writing, Raising
<1>2. CASE UNCHANGED vars
  <2>1. UNCHANGED <<pc, call, conf, out, config, floor>>
    BY <1>2 DEF vars, copy, local, history
  <2>. QED BY <1>1, <2>1 DEF FloorInv, Solo, Active, FloorOnDisk, RunInv,
         CommandAt, Admitted, Owing, Progress, Scaffolding, cfg, release,
         OwesRaise
<1>3. ASSUME NEW r \in Run, NEW i \in Invocation, Start(r, i)
      PROVE  FloorInv'
  <2>1. UNCHANGED <<conf, out, config, floor>> /\ Quiet
    BY <1>3 DEF Start, copy, Sequential
  <2>2. /\ pc' = [pc EXCEPT ![r] = IF i.cmd = "init" THEN "probe" ELSE "load"]
        /\ call' = [call EXCEPT ![r] = i]
    BY <1>3 DEF Start, Goto
  <2>3. \A q \in Run : pc[q] \in {"idle", "done"}
    BY <2>1 DEF Quiet, Active
  <2>4. Solo' /\ FloorOnDisk'
    BY <1>1, <2>1, <2>2, <2>3 DEF Solo, Active, FloorOnDisk, FloorInv, TypeOK
  <2>5. ASSUME NEW q \in Run
        PROVE  RunInv(q)'
    <3>1. Progress(q)
      BY DEF FloorInv, RunInv
    <3>. QED BY <1>1, <2>1, <2>2, <2>3, <3>1 DEF RunInv, CommandAt, Admitted,
           Owing, Progress, Scaffolding, TypeOK
  <2>. QED BY <1>1, <2>4, <2>5 DEF FloorInv
\* A run that ends leaves nothing to show.
<1>4. ASSUME NEW r \in Run, Active(r), Goto(r, "done"), out' = out, FloorOnDisk'
      PROVE  FloorInv'
  <2>1. RunInv(r)'
    BY <1>1, <1>4 DEF Goto, TypeOK, RunInv, CommandAt, Admitted, Owing, Progress,
       Scaffolding
  <2>. QED BY <1>1, <1>4, <2>1, OneMoves DEF FloorInv, Label
\* A run that goes on while the configuration stays as it is.
<1>5. ASSUME NEW r \in Run, Active(r), NEW label \in Label \ {"idle"},
             Goto(r, label), out' = out, UNCHANGED <<config, floor>>, RunInv(r)'
      PROVE  FloorInv'
  BY <1>1, <1>5, OneMoves DEF FloorInv, FloorOnDisk
<1>6. ASSUME NEW r \in Run, NEW code, Active(r), Exit(r, code), unchangedButExit
      PROVE  FloorInv'
  BY <1>6, <1>4 DEF Exit, unchangedButExit, copy, local, history, FloorInv,
     FloorOnDisk
<1>7. ASSUME NEW r \in Run, Load(r)
      PROVE  FloorInv'
  <2>1. CASE LoadAccepted(r)
    <3>1. /\ Active(r) /\ UNCHANGED <<config, floor, call, out>>
          /\ conf' = [conf EXCEPT ![r] = config]
          /\ config.is = "whole" /\ ~Refuses(config.text.floor, release(r))
      BY <2>1 DEF LoadAccepted, Active, copy, history
    <3>2. /\ Goto(r, IF call[r].cmd = "facts" THEN "walkUnit" ELSE "walk")
          /\ call[r].cmd \in {"build", "check", "facts"}
      BY <1>1, <2>1, InvocationType
         DEF LoadAccepted, FloorInv, RunInv, CommandAt, TypeOK, Command
    <3>3. config.text.floor = floor
      BY <3>1 DEF FloorInv, FloorOnDisk
    <3>4. RunInv(r)'
      BY <1>1, <3>1, <3>2, <3>3 DEF Goto, TypeOK, RunInv, CommandAt, Admitted,
         Owing, Progress, Scaffolding, cfg, release
    <3>. QED BY <3>1, <3>2, <3>4, <1>5 DEF Label
  <2>2. ASSUME NEW code, Exit(r, code), pc[r] = "load", unchangedButExit
        PROVE  FloorInv'
    BY <2>2, <1>6 DEF Active
  <2>. QED BY <1>7, <2>1, <2>2 DEF Load, LoadNothing, LoadUnreadable,
         LoadRejected, LoadTooOld, RejectOnly
\* A step inside the admitted part of a run that keeps what it loaded.
<1>8. ASSUME NEW r \in Run, NEW label \in Mapping \cup Detecting \cup Checking
                                                \cup Writing \cup Raising,
             pc[r] \in Mapping \cup Detecting \cup Checking \cup Writing
                        \cup Raising,
             Goto(r, label), UNCHANGED <<config, floor, call, conf, out>>,
             CommandAt(r)', Owing(r)', Progress(r)'
      PROVE  FloorInv'
  <2>1. Active(r) /\ label \in Label \ {"idle"}
    BY <1>8 DEF Active, Label
  <2>2. Admitted(r)'
    BY <1>8 DEF FloorInv, RunInv, Admitted, cfg, release
  <2>3. Scaffolding(r)'
    BY <1>1, <1>8 DEF Scaffolding, Goto, TypeOK
  <2>. QED BY <1>5, <1>8, <2>1, <2>2, <2>3 DEF RunInv
<1>9. ASSUME NEW r \in Run, Scan(r)
      PROVE  FloorInv'
  <2>1. CASE Walk(r)
    BY <1>1, <1>8, <2>1 DEF Walk, Goto, copy, history, TypeOK, FloorInv, RunInv,
       CommandAt, Owing, Progress
  <2>2. CASE Extract(r) \/ Detect(r)
    <3>1. PICK label \in {"walkUnit", AfterRender(r)} :
            /\ Goto(r, label)
            /\ UNCHANGED <<config, floor, call, conf, out>>
      BY <2>2 DEF Extract, Detect, copy, local, history
    <3>2. pc[r] \in {"scan", "specs"} /\ call[r].cmd \in {"build", "check"}
      BY <1>1, <2>2, InvocationType DEF Extract, Detect, FloorInv, RunInv,
         CommandAt, TypeOK, Command
    <3>3. CommandAt(r)' /\ Owing(r)' /\ Progress(r)'
      BY <1>1, <3>1, <3>2 DEF AfterRender, Goto, TypeOK, CommandAt, Owing,
         Progress
    <3>. QED BY <1>8, <3>1, <3>2, <3>3 DEF AfterRender
  <2>3. CASE ResolveLocators(r)
    BY <1>1, <1>8, <2>3 DEF ResolveLocators, Goto, copy, history, TypeOK,
       FloorInv, RunInv, CommandAt, Owing, Progress
  <2>4. CASE LocatorFails(r) \/ ReportDigest(r)
    BY <1>6, <2>4 DEF LocatorFails, ReportDigest, Active
  <2>5. ASSUME NEW f \in File, ReadFile(r, f)
        PROVE  FloorInv'
    <3>1. UNCHANGED <<pc, call, conf, out, config, floor>>
      BY <2>5 DEF ReadFile, copy, history
    <3>. QED BY <1>1, <3>1 DEF FloorInv, Solo, Active, FloorOnDisk, RunInv,
           CommandAt, Admitted, Owing, Progress, Scaffolding, cfg, release,
           OwesRaise
  <2>6. ASSUME NEW f \in File, ReadFails(r, f)
        PROVE  FloorInv'
    BY <1>6, <2>6 DEF ReadFails, Reading, Active
  <2>. QED BY <1>9, <2>1, <2>2, <2>3, <2>4, <2>5, <2>6 DEF Scan
<1>10. ASSUME NEW r \in Run, Check(r)
       PROVE  FloorInv'
  <2>1. CASE CheckFactsFails(r) \/ CheckDocument(r)
    BY <1>6, <2>1 DEF CheckFactsFails, CheckDocument, Active
  <2>2. CASE CheckFactsPasses(r)
    BY <1>1, <1>8, <2>2 DEF CheckFactsPasses, Goto, copy, local, history,
       TypeOK, FloorInv, RunInv, CommandAt, Owing, Progress
  <2>. QED BY <1>10, <2>1, <2>2 DEF Check
<1>11. ASSUME NEW r \in Run, Write(r)
       PROVE  FloorInv'
  <2>1. CASE BeginWrite(r)
    BY <1>1, <1>8, <2>1 DEF BeginWrite, Goto, local, TypeOK, FloorInv, RunInv,
       CommandAt, Owing, Progress
  <2>2. CASE EndWrite(r)
    <3>1. /\ Active(r) /\ Goto(r, "write") /\ out' = [out EXCEPT ![r] = @ + 1]
          /\ UNCHANGED <<config, floor, call, conf>>
      BY <2>2 DEF EndWrite, Active
    <3>2. pc[r] = "flush"
      BY <2>2 DEF EndWrite
    <3>3. CommandAt(r) /\ Admitted(r)
      BY DEF FloorInv, RunInv
    <3>4. CommandAt(r)' /\ Admitted(r)'
      BY <1>1, <3>1, <3>2, <3>3
         DEF Goto, TypeOK, CommandAt, Admitted, cfg, release
    <3>5. Owing(r)' /\ Progress(r)' /\ Scaffolding(r)'
      BY <1>1, <3>1 DEF Goto, TypeOK, Owing, Progress, Scaffolding
    <3>6. \A q \in Run \ {r} : out'[q] = out[q]
      BY <1>1, <3>1 DEF TypeOK
    <3>. QED BY <1>1, <3>1, <3>4, <3>5, <3>6, OneMoves
         DEF FloorInv, FloorOnDisk, RunInv, Label
  <2>3. CASE \/ SkipRatchet(r) \/ ProbeBaseline(r)
             \/ RatchetFails(r) \/ RatchetPasses(r)
    <3>1. /\ pc[r] \in {"write", "baseline"} /\ out[r] > Len(Outputs)
          /\ Goto(r, "baseline") \/ Goto(r, "raise")
          /\ UNCHANGED <<config, floor, call, conf, out>>
      BY <1>1, <2>3, OutputsType DEF SkipRatchet, ProbeBaseline, RatchetFails,
         RatchetPasses, Judging, AllWritten, copy, local, history, TypeOK,
         FloorInv, RunInv, Progress
    <3>. QED BY <1>1, <1>8, <3>1 DEF Goto, TypeOK, FloorInv, RunInv, CommandAt,
           Owing, Progress
  <2>4. CASE BaselineMissing(r) \/ BaselineVanishes(r) \/ BaselineRejected(r)
    BY <1>6, <2>4 DEF BaselineMissing, BaselineVanishes, BaselineRejected,
       AllWritten, Active
  <2>. QED BY <1>11, <2>1, <2>2, <2>3, <2>4 DEF Write
<1>12. ASSUME NEW r \in Run, Raise(r)
       PROVE  FloorInv'
  <2>1. CASE NothingToRaise(r) \/ LeaveAlone(r)
    <3>1. /\ Active(r) /\ Goto(r, "done")
          /\ UNCHANGED <<config, floor, call, conf, out>>
      BY <2>1 DEF NothingToRaise, LeaveAlone, Active, copy, local, history
    <3>. QED BY <1>4, <3>1 DEF FloorInv, FloorOnDisk
  <2>2. CASE RereadConfig(r)
    BY <1>1, <1>8, <2>2 DEF RereadConfig, Goto, copy, history, TypeOK, FloorInv,
       RunInv, CommandAt, Owing, Progress, OwesRaise, cfg, release
  <2>3. CASE BeginAmend(r)
    <3>1. /\ pc[r] = "amend" /\ Goto(r, "amending") /\ config' = Empty
          /\ UNCHANGED <<floor, call, conf, out>>
      BY <2>3 DEF BeginAmend, local
    <3>2. RunInv(r)
      BY DEF FloorInv
    <3>3. RunInv(r)'
      BY <1>1, <3>1, <3>2 DEF Goto, TypeOK, RunInv, CommandAt, Admitted, Owing,
         Progress, Scaffolding, OwesRaise, cfg, release
    <3>4. FloorOnDisk'
      BY <3>1 DEF FloorOnDisk, Empty, Absent
    <3>. QED BY <1>1, <3>1, <3>3, <3>4, OneMoves DEF FloorInv, Active, Label
  <2>4. CASE EndAmend(r)
    <3>1. /\ Active(r) /\ Goto(r, "done") /\ out' = out
          /\ ConfigLands(r, Amended(r)) /\ config = Empty
      BY <2>4 DEF EndAmend, Active, local, FloorInv, RunInv, Owing
    <3>. QED BY <1>4, <3>1 DEF ConfigLands, Landing, Whole, FloorOnDisk, Absent
  <2>. QED BY <1>12, <2>1, <2>2, <2>3, <2>4 DEF Raise
<1>13. ASSUME NEW r \in Run, Scaffolds(r)
       PROVE  FloorInv'
  <2>1. CASE InitRefuses(r)
    BY <1>6, <2>1 DEF InitRefuses, Active
  <2>2. CASE InitProceeds(r)
    <3>1. /\ Active(r) /\ Goto(r, "create")
          /\ UNCHANGED <<config, floor, call, conf, out>>
          /\ NoneForces => config = Absent
      BY <1>1, <2>2 DEF InitProceeds, Active, copy, local, history, NoneForces,
         TypeOK
    <3>2. RunInv(r)'
      BY <1>1, <3>1 DEF Goto, TypeOK, FloorInv, FloorOnDisk, RunInv, CommandAt,
         Admitted, Owing, Progress, Scaffolding
    <3>. QED BY <1>5, <3>1, <3>2 DEF Label
  <2>3. CASE BeginScaffold(r)
    <3>1. /\ pc[r] = "create" /\ Goto(r, "scaffold") /\ config' = Empty
          /\ UNCHANGED <<floor, call, conf, out>>
      BY <2>3 DEF BeginScaffold, local
    <3>2. RunInv(r)'
      BY <1>1, <3>1 DEF Goto, TypeOK, FloorInv, RunInv, CommandAt, Admitted,
         Owing, Progress, Scaffolding
    <3>3. FloorOnDisk'
      BY <3>1 DEF FloorOnDisk, Empty, Absent
    <3>. QED BY <1>1, <3>1, <3>2, <3>3, OneMoves DEF FloorInv, Active, Label
  <2>4. CASE EndScaffold(r)
    <3>1. /\ Active(r) /\ Goto(r, "done") /\ out' = out
          /\ ConfigLands(r, DefaultConfig(release(r))) /\ config = Empty
      BY <2>4 DEF EndScaffold, Active, local, FloorInv, RunInv, Owing
    <3>. QED BY <1>4, <3>1 DEF ConfigLands, Landing, Whole, FloorOnDisk, Absent
  <2>. QED BY <1>13, <2>1, <2>2, <2>3, <2>4 DEF Scaffolds
<1>14. ASSUME NEW r \in Run, WriteFails(r) \/ AmendFails(r) \/ Crash(r)
       PROVE  FloorInv'
  <2>1. /\ Active(r) /\ Goto(r, "done")
        /\ UNCHANGED <<config, floor, call, conf, out>>
    BY <1>14 DEF WriteFails, AmendFails, Crash, Fault, Exit, Active, copy, local
  <2>. QED BY <1>4, <2>1 DEF FloorInv, FloorOnDisk
<1>15. CASE Editor
  <2>1. CASE UNCHANGED <<config, floor>> /\ UNCHANGED <<pc, call, conf, out>>
    BY <1>1, <2>1 DEF FloorInv, Solo, Active, FloorOnDisk, RunInv, CommandAt,
       Admitted, Owing, Progress, Scaffolding, cfg, release, OwesRaise
  <2>2. ASSUME NEW c \in ConfigText, EditConfig(c)
        PROVE  FloorInv'
    <3>1. /\ Quiet /\ config' = Whole(c) /\ floor' = c.floor
          /\ UNCHANGED <<pc, call, conf, out>>
      BY <2>2 DEF EditConfig, Edit, local, Sequential
    <3>2. FloorOnDisk'
      BY <3>1 DEF FloorOnDisk, Whole, Absent
    <3>3. \A r \in Run : pc[r] \in {"idle", "done"} /\ Progress(r)
      BY <3>1 DEF Quiet, Active, FloorInv, RunInv
    <3>4. Solo' /\ \A r \in Run : RunInv(r)'
      BY <3>1, <3>3 DEF Solo, Active, RunInv, CommandAt, Admitted, Owing,
         Progress, Scaffolding
    <3>. QED BY <1>1, <3>2, <3>4 DEF FloorInv
  <2>. QED BY <1>15, <2>1, <2>2
       DEF Editor, EditSource, EditBaseline, Edit, local
<1>. QED BY <1>2, <1>3, <1>7, <1>9, <1>10, <1>11, <1>12, <1>13, <1>14, <1>15
       DEF Next, Step

(***************************************************************************)
(* By the time a build opens an output the floor it was admitted under     *)
(* still stands, and no other command opens one.  (INV-006, POL-001)       *)
(***************************************************************************)
THEOREM BuildsClearTheFloor ==
  ASSUME Sequential PROVE Spec => WritesClearTheFloor
<1>1. ASSUME FloorInv, [Next]_vars, NEW r \in Run,
             (wrote'[r] \cap Artifact) # (wrote[r] \cap Artifact)
      PROVE  /\ call[r].cmd = "build"
             /\ floor = NoFloor \/ ~IsBelow(release(r), floor)
  <2>1. wrote' # wrote
    BY <1>1
  <2>2. "config" \notin Artifact
    BY DEF Artifact
  <2>3. PICK q \in Run : BeginWrite(q) \/ BeginAmend(q) \/ BeginScaffold(q)
    BY <1>1, <2>1 DEF Next, vars, Step, Start, Load, LoadNothing, LoadUnreadable,
       LoadRejected, LoadTooOld, RejectOnly, LoadAccepted, Scan, Walk, Extract,
       ResolveLocators, LocatorFails, Detect, ReportDigest, ReadFile, ReadFails,
       Check, CheckFactsFails, CheckFactsPasses, CheckDocument, Write, EndWrite,
       SkipRatchet, BaselineMissing, ProbeBaseline, BaselineVanishes,
     BaselineRejected, RatchetFails, RatchetPasses, Raise,
       NothingToRaise, RereadConfig, LeaveAlone, EndAmend, Scaffolds, InitRefuses,
       InitProceeds, EndScaffold, WriteFails, AmendFails, Crash, Fault, Editor,
       EditSource, EditBaseline, EditConfig, Edit, unchangedButExit, history
  <2>4. wrote \in [Run -> SUBSET Path]
    BY <1>1 DEF FloorInv, TypeInv, TypeOK
  <2>5. BeginWrite(q) /\ q = r
    BY <1>1, <2>2, <2>3, <2>4 DEF BeginWrite, BeginAmend, BeginScaffold, Opens
  <2>. QED BY <1>1, <2>5 DEF BeginWrite, FloorInv, RunInv, CommandAt, Admitted,
         Refuses, Writing
<1>2. FloorInv /\ [Next]_vars =>
        [\A r \in Run :
           (wrote'[r] \cap Artifact) # (wrote[r] \cap Artifact)
           => /\ call[r].cmd = "build"
              /\ floor = NoFloor \/ ~IsBelow(release(r), floor)]_vars
  BY <1>1
<1>. QED BY <1>2, FloorInit, FloorNext, PTL DEF Spec, WritesClearTheFloor

(***************************************************************************)
(* A step that changes the floor amends, scaffolds or edits the            *)
(* configuration; an amendment raises it, a scaffold gives it its first.   *)
(***************************************************************************)
LEMMA FloorStep ==
  ASSUME Sequential, FloorInv, [Next]_vars, floor' # floor
  PROVE  \/ \E r \in Run : /\ EndAmend(r)
                            /\ OwesRaise(r) /\ cfg(r).floor = floor
                            /\ floor' = LineOf(release(r))
         \/ \E r \in Run : EndScaffold(r) /\ floor' = LineOf(release(r))
         \/ \E c \in ConfigText : EditConfig(c)
<1>1. \/ \E r \in Run : EndAmend(r) \/ EndScaffold(r)
      \/ \E c \in ConfigText : EditConfig(c)
  BY DEF Next, vars, Step, Start, Load, LoadNothing, LoadUnreadable,
     LoadRejected, LoadTooOld, RejectOnly, LoadAccepted, Scan, Walk, Extract,
     ResolveLocators, LocatorFails, Detect, ReportDigest, ReadFile, ReadFails,
     Check, CheckFactsFails, CheckFactsPasses, CheckDocument, Write, BeginWrite,
     EndWrite, SkipRatchet, BaselineMissing, ProbeBaseline, BaselineVanishes,
     BaselineRejected, RatchetFails, RatchetPasses, Raise,
     NothingToRaise, RereadConfig, LeaveAlone, BeginAmend, Scaffolds,
     InitRefuses, InitProceeds, BeginScaffold, WriteFails, AmendFails, Crash,
     Fault, Editor, EditSource, EditBaseline, unchangedButExit, history
<1>2. ASSUME NEW r \in Run, EndAmend(r)
      PROVE  /\ OwesRaise(r) /\ cfg(r).floor = floor
             /\ floor' = LineOf(release(r))
  <2>1. config = Empty /\ OwesRaise(r) /\ cfg(r).floor = floor
    BY <1>2 DEF EndAmend, FloorInv, RunInv, Owing, Admitted, Raising
  <2>2. text[r].text \in ConfigText
    BY <1>2, WholeConfig
       DEF EndAmend, FloorInv, TypeInv, TypeOK, Amending, IsLocated
  <2>3. Amended(r).floor = LineOf(release(r))
    BY <2>2, ConfigTextType DEF Amended
  <2>. QED BY <1>2, <2>1, <2>3 DEF EndAmend, ConfigLands, Landing, Whole
<1>3. ASSUME NEW r \in Run, EndScaffold(r)
      PROVE  floor' = LineOf(release(r))
  <2>1. config = Empty
    BY <1>3 DEF EndScaffold, FloorInv, RunInv, Owing
  <2>2. DefaultConfig(release(r)).floor = LineOf(release(r))
    BY ScaffoldType DEF FloorInv, TypeInv, TypeOK, release
  <2>. QED BY <1>3, <2>1, <2>2 DEF EndScaffold, ConfigLands, Landing, Whole
<1>. QED BY <1>1, <1>2, <1>3

\* The release of a run is a release.
LEMMA ReleaseType ==
  ASSUME TypeOK, NEW r \in Run PROVE release(r) \in Release
BY InvocationType DEF TypeOK, release

(***************************************************************************)
(* A build that amends the configuration never declares a lower floor than *)
(* the one on disk.  It decides on the floor it loaded, so this needs the  *)
(* runs not to overlap.  (INV-006, commands.ts raiseFloor)                 *)
(***************************************************************************)
THEOREM AmendmentsRaise ==
  ASSUME Sequential PROVE Spec => FloorNeverLowered
<1>1. ASSUME FloorInv, [Next]_vars, NEW r \in Run,
             pc[r] = "amending", pc'[r] = "done", floor # NoFloor
      PROVE  floor' # NoFloor /\ ~IsBelow(floor', floor)
  <2>1. floor \in Release /\ TypeOK /\ Solo
    BY <1>1 DEF FloorInv, TypeInv, TypeOK
  <2>2. CASE floor' = floor
    BY <1>1, <2>1, <2>2, NotBelowItself
  <2>3. ASSUME NEW q \in Run, OwesRaise(q), cfg(q).floor = floor,
               floor' = LineOf(release(q))
        PROVE  floor' # NoFloor /\ ~IsBelow(floor', floor)
    BY <2>1, <2>3, ReleaseType, RaiseGoesUp, SentinelsAreApart DEF OwesRaise
  <2>4. ASSUME NEW q \in Run, EndScaffold(q)
        PROVE  FALSE
    BY <1>1, <2>1, <2>4 DEF EndScaffold, Solo, Active
  <2>5. ASSUME NEW c \in ConfigText, EditConfig(c)
        PROVE  FALSE
    BY <1>1, <2>5 DEF EditConfig, Edit
  <2>. QED BY <1>1, <2>2, <2>3, <2>4, <2>5, FloorStep
<1>2. FloorInv /\ [Next]_vars =>
        [\A r \in Run :
           pc[r] = "amending" /\ pc'[r] = "done" /\ floor # NoFloor
           => floor' # NoFloor /\ ~IsBelow(floor', floor)]_vars
  BY <1>1
<1>. QED BY <1>2, FloorInit, FloorNext, PTL DEF Spec, FloorNeverLowered

(***************************************************************************)
(* Where no init is forced, no command of any kind lowers the floor: only  *)
(* a person's edit does.  (INV-006)                                        *)
(***************************************************************************)
THEOREM CommandsRaise ==
  ASSUME Sequential, NoneForces PROVE Spec => FloorOnlyRises
<1>1. ASSUME FloorInv, [Next]_vars, floor' # floor, edits' = edits,
             floor # NoFloor
      PROVE  floor' # NoFloor /\ ~IsBelow(floor', floor)
  <2>1. floor \in Release /\ TypeOK
    BY <1>1 DEF FloorInv, TypeInv, TypeOK
  <2>2. ASSUME NEW q \in Run, OwesRaise(q), cfg(q).floor = floor,
               floor' = LineOf(release(q))
        PROVE  floor' # NoFloor /\ ~IsBelow(floor', floor)
    BY <2>1, <2>2, ReleaseType, RaiseGoesUp, SentinelsAreApart DEF OwesRaise
  <2>3. ASSUME NEW q \in Run, EndScaffold(q)
        PROVE  FALSE
    BY <1>1, <2>3 DEF EndScaffold, FloorInv, RunInv, Scaffolding
  <2>4. ASSUME NEW c \in ConfigText, EditConfig(c)
        PROVE  FALSE
    BY <1>1, <2>1, <2>4, BoundsAreNat DEF EditConfig, Edit, TypeOK
  <2>. QED BY <1>1, <2>2, <2>3, <2>4, FloorStep
<1>2. FloorInv /\ [Next]_vars =>
        [floor' # floor /\ edits' = edits /\ floor # NoFloor
         => floor' # NoFloor /\ ~IsBelow(floor', floor)]_vars
  BY <1>1
<1>. QED BY <1>2, FloorInit, FloorNext, PTL DEF Spec, FloorOnlyRises

-----------------------------------------------------------------------------
(***************************************************************************)
(* The refinement of VersionFloor.                                         *)
(***************************************************************************)

\* A step that changes what has been built, or counts an edit.
LEMMA BuiltStep ==
  ASSUME [Next]_vars
  PROVE  /\ \/ UNCHANGED <<call, out>>
            \/ \E r \in Run : EndWrite(r)
            \/ \E r \in Run, i \in Invocation : Start(r, i)
         /\ edits' = edits \/ (Edit /\ UNCHANGED <<call, out>>)
<1>1. \/ UNCHANGED <<call, out>>
      \/ \E r \in Run : EndWrite(r)
      \/ \E r \in Run, i \in Invocation : Start(r, i)
  BY DEF Next, vars, Step, Load, LoadNothing, LoadUnreadable,
     LoadRejected, LoadTooOld, RejectOnly, LoadAccepted, Scan, Walk, Extract,
     ResolveLocators, LocatorFails, Detect, ReportDigest, ReadFile, ReadFails,
     Check, CheckFactsFails, CheckFactsPasses, CheckDocument, Write, BeginWrite,
     SkipRatchet, BaselineMissing, ProbeBaseline, BaselineVanishes,
     BaselineRejected, RatchetFails, RatchetPasses, Raise,
     NothingToRaise, RereadConfig, LeaveAlone, BeginAmend, EndAmend, Scaffolds,
     InitRefuses, InitProceeds, BeginScaffold, EndScaffold, WriteFails,
     AmendFails, Crash, Fault, Editor, EditSource, EditBaseline, EditConfig,
     Edit, unchangedButExit, local
<1>2. edits' = edits \/ (Edit /\ UNCHANGED <<call, out>>)
  BY DEF Next, vars, Step, Start, Load, LoadNothing, LoadUnreadable,
     LoadRejected, LoadTooOld, RejectOnly, LoadAccepted, Scan, Walk, Extract,
     ResolveLocators, LocatorFails, Detect, ReportDigest, ReadFile, ReadFails,
     Check, CheckFactsFails, CheckFactsPasses, CheckDocument, Write, BeginWrite,
     EndWrite, SkipRatchet, BaselineMissing, ProbeBaseline, BaselineVanishes,
     BaselineRejected, RatchetFails, RatchetPasses, Raise,
     NothingToRaise, RereadConfig, LeaveAlone, BeginAmend, EndAmend, Scaffolds,
     InitRefuses, InitProceeds, BeginScaffold, EndScaffold, WriteFails,
     AmendFails, Crash, Fault, Editor, EditSource, EditBaseline, EditConfig,
     Edit, unchangedButExit, local
<1>. QED BY <1>1, <1>2

LEMMA PromiseInit == Init => Promise!Init
<1>1. ASSUME Init PROVE Promise!Init
  <2>1. floor \in Release \cup {NoFloor}
    BY <1>1, TypeInit DEF TypeInv, TypeOK
  <2>2. Built = {}
    BY <1>1, OutputsType DEF Init, Built
  <2>. QED BY <1>1, <2>1, <2>2 DEF Promise!Init, Init, Promise!Release,
         Release
<1>. QED BY <1>1

LEMMA PromiseStep ==
  ASSUME Sequential, NoneForces, FloorInv, [Next]_vars
  PROVE  [Promise!Next]_(Promise!vars)
<1>1. TypeOK /\ TypeOK'
  <2>1. TypeInv /\ TypeInv'
    BY TypeNext DEF FloorInv
  <2>. QED BY <2>1 DEF TypeInv
<1>2. ASSUME NEW r \in Run
      PROVE  release(r) \in {i.release : i \in Invocation}
  BY <1>1 DEF TypeOK, release
<1>3. UNCHANGED <<call, out>> => Built' = Built
  BY DEF Built
<1>4. CASE edits' # edits
  <2>1. edits' = edits + 1 /\ UNCHANGED <<call, out>>
    BY <1>4, BuiltStep DEF Edit
  <2>. QED BY <1>1, <1>3, <2>1 DEF Promise!Next, Promise!Declare, TypeOK,
         Promise!Release, Release
<1>5. CASE edits' = edits /\ floor' # floor
  <2>1. ASSUME NEW c \in ConfigText, EditConfig(c)
        PROVE  FALSE
    BY <1>1, <1>5, <2>1 DEF EditConfig, Edit, TypeOK
  <2>2. ASSUME NEW r \in Run, EndAmend(r), OwesRaise(r), cfg(r).floor = floor,
               floor' = LineOf(release(r))
        PROVE  Promise!Next
    <3>1. release(r) \in Built
      BY <2>2 DEF EndAmend, FloorInv, RunInv, Progress, Raising, Built, release
    <3>2. Built' = Built
      BY <1>3, <2>2 DEF EndAmend, local
    <3>3. Promise!RaiseTo(release(r))
      BY <1>5, <2>2, <3>1, <3>2 DEF Promise!RaiseTo, OwesRaise,
         Promise!ExceedsLine, ExceedsLine, Promise!LineOf, LineOf
    <3>. QED BY <1>2, <3>3 DEF Promise!Next
  <2>3. ASSUME NEW r \in Run, EndScaffold(r), floor' = LineOf(release(r))
        PROVE  Promise!Next
    <3>1. floor = NoFloor
      BY <2>3 DEF EndScaffold, FloorInv, RunInv, Scaffolding
    <3>2. Built' = Built
      BY <1>3, <2>3 DEF EndScaffold, local
    <3>3. Promise!Scaffold(release(r))
      BY <1>5, <2>3, <3>1, <3>2 DEF Promise!Scaffold, Promise!LineOf, LineOf
    <3>. QED BY <1>2, <3>3 DEF Promise!Next
  <2>. QED BY <1>5, <2>1, <2>2, <2>3, FloorStep
<1>6. CASE edits' = edits /\ floor' = floor
  <2>1. CASE UNCHANGED <<call, out>>
    BY <1>3, <1>6, <2>1 DEF Promise!vars
  <2>2. ASSUME NEW r \in Run, NEW i \in Invocation, Start(r, i)
        PROVE  Built' = Built
    <3>1. /\ call' = [call EXCEPT ![r] = i] /\ out' = out
          /\ pc[r] = "idle"
      BY <2>2 DEF Start
    <3>2. out[r] = 1
      BY <3>1 DEF FloorInv, RunInv, Progress
    <3>3. ~(out[r] > Len(Outputs))
      BY <3>2, OutputsType
    <3>4. \A q \in Run : out[q] > Len(Outputs) => call'[q] = call[q]
      BY <1>1, <3>1, <3>3 DEF TypeOK
    <3>. QED BY <3>1, <3>4, Zenon DEF Built
  <2>3. ASSUME NEW r \in Run, EndWrite(r)
        PROVE  Promise!Next \/ Built' = Built
    <3>1. /\ call' = call /\ out' = [out EXCEPT ![r] = @ + 1]
          /\ pc[r] = "flush"
      BY <2>3 DEF EndWrite
    <3>2. Promise!Admits(release(r))
      BY <3>1 DEF FloorInv, RunInv, Admitted, Writing, Refuses, Promise!Admits,
         Promise!IsBelow, IsBelow
    <3>3. Built' = Built \/ Built' = Built \cup {release(r)}
      <4>1. \A q \in Run \ {r} : out'[q] = out[q]
        BY <1>1, <3>1 DEF TypeOK
      <4>2. out[r] \in Nat /\ out'[r] = out[r] + 1
        BY <1>1, <3>1, OutputsType DEF TypeOK
      <4>3. out[r] > Len(Outputs) => out'[r] > Len(Outputs)
        BY <4>2, OutputsType
      <4>4. CASE out'[r] > Len(Outputs)
        <5>1. {q \in Run : out'[q] > Len(Outputs)}
                = {q \in Run : out[q] > Len(Outputs)} \cup {r}
          BY <4>1, <4>3, <4>4
        <5>. QED BY <3>1, <5>1, Zenon DEF Built, release
      <4>5. CASE ~(out'[r] > Len(Outputs))
        BY <3>1, <4>1, <4>3, <4>5 DEF Built
      <4>. QED BY <4>4, <4>5
    <3>. QED BY <1>2, <1>6, <3>2, <3>3 DEF Promise!Next, Promise!Build
  <2>. QED BY <1>6, <2>1, <2>2, <2>3, BuiltStep DEF Promise!vars
<1>. QED BY <1>4, <1>5, <1>6

(***************************************************************************)
(* BuildRuns implements VersionFloor when runs follow one another and no   *)
(* init is forced: only an admitted release completes a build, and only a  *)
(* release that completed one raises the floor, to its own line.           *)
(* (INV-006, BEH-017)                                                      *)
(***************************************************************************)
THEOREM ImplementsVersionFloor ==
  ASSUME Sequential, NoneForces PROVE Spec => KeepsPromise
<1>1. FloorInv /\ [Next]_vars => [Promise!Next]_(Promise!vars)
  BY PromiseStep
<1>. QED BY <1>1, FloorInit, FloorNext, PromiseInit, PTL
       DEF Spec, KeepsPromise, Promise!Spec

=============================================================================
