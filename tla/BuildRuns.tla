----------------------------- MODULE BuildRuns -----------------------------
(***************************************************************************)
(* Invocations of the command line over one working copy: what `build`,    *)
(* `build --check`, `facts` and `init` read, write and report, in the      *)
(* order src/src/cli/commands.ts awaits them.                              *)
(*                                                                         *)
(* Every await is a step, so a run interleaves with an editor of the       *)
(* sources and the configuration and, when Overlap holds, with other runs. *)
(* A file write is two steps because writeFile truncates before it writes. *)
(* Document, JSON companion, facts artifact and sidecar are records of the *)
(* inputs their bytes depend on; two of them are equal exactly when the    *)
(* files are byte for byte equal.                                          *)
(***************************************************************************)
EXTENDS ToolVersion, Sequences, FiniteSets

CONSTANTS
  Run,               \* invocations, each used once
  Invocation,        \* the command lines a run may be started with
  SourceFile,        \* walked source files; the order on Nat is walk order
  SpecFile,          \* OpenAPI documents the configuration declares
  Content, Gone,     \* what a file holds, and that it does not exist
  NoFloor,           \* min_tool_version is null, or is not there
  NoOne,             \* no run opened the path
  ConfigText,        \* the configurations of this working copy
  FirstConfig,       \* the configuration files a behaviour may start from
  FirstSource,       \* the source trees a behaviour may start from
  DefaultConfig(_),  \* what `init` of a release writes
  BadLocator,        \* detection settings whose spec locators do not resolve
  Baselines,         \* what the unclassified baseline may hold
  Core, Mandatory,   \* diagnostic cores, and those that fail check mode
  Raises,            \* the cores a source raises, per content
  JsonOut, FactsOut, \* output.json, output.facts is a string
  HasInput,          \* a detection section is rendered and has input
  DeclaresBaseline,  \* detect.unclassified_baseline is a string
  Overlap,           \* runs may overlap in time
  LiveEdits,         \* the configuration may be edited during a run
  MaxEdits, MaxFaults

File == SourceFile \cup SpecFile
Command == {"build", "check", "facts", "init"}
Flag == {"strict", "force", "only_unknown"}

(***************************************************************************)
(* The state of one file on disk.                                          *)
(***************************************************************************)
Absent == [is |-> "absent"]
Empty == [is |-> "empty"]              \* truncated, the write has not landed
Mixed == [is |-> "mixed"]              \* two writers' bytes overlaid
Rejected == [is |-> "rejected"]        \* parses, and is not a mapping
Whole(x) == [is |-> "whole", text |-> x]

ASSUME FilesAreOrdered == SourceFile \subseteq Nat /\ SpecFile \subseteq Nat
ASSUME RaisesType == Raises \in [Content -> SUBSET Core]
ASSUME BoundsAreNat == MaxEdits \in Nat /\ MaxFaults \in Nat
ASSUME SentinelsAreApart ==
  Gone \notin Content /\ NoFloor \notin Release /\ NoOne \notin Run
ASSUME ConfigTextType ==
  \A c \in ConfigText : /\ {"floor", "plain", "unit", "rest"} \subseteq DOMAIN c
                        /\ c.floor \in Release \cup {NoFloor}
                        /\ c.plain \in BOOLEAN
ASSUME ConfigTextClosed ==
  /\ \A c \in ConfigText, i \in Invocation :
       [c EXCEPT !.floor = LineOf(i.release)] \in ConfigText
  /\ \A i \in Invocation : DefaultConfig(i.release) \in ConfigText
ASSUME ScaffoldType ==
  \A i \in Invocation : DefaultConfig(i.release).floor = LineOf(i.release)
ASSUME FirstConfigType ==
  FirstConfig \subseteq {Absent, Rejected} \cup {Whole(c) : c \in ConfigText}
ASSUME FirstSourceType == FirstSource \subseteq [File -> Content \cup {Gone}]
ASSUME BaselinesType ==
  Baselines \subseteq {Absent, Rejected} \cup {Whole(b) : b \in SUBSET Core}
ASSUME InvocationType ==
  /\ Invocation # {}
  /\ Invocation \subseteq [cmd : Command, release : Release, pre : BOOLEAN,
                           flags : SUBSET Flag]
ASSUME SwitchesAreBoolean ==
  {JsonOut, FactsOut, HasInput, DeclaresBaseline, Overlap, LiveEdits}
    \subseteq BOOLEAN

VARIABLES
  \* the working copy
  source,    \* [File -> Content \cup {Gone}]
  config,    \* .project-map.yaml
  baseline,  \* the unclassified baseline
  disk,      \* the four outputs
  \* the runs
  pc, call, conf, todo, mapSnap, unitSnap, out, text, exit,
  \* history, read by properties only
  floor,     \* the floor of the last complete configuration on disk
  owner,     \* the run that last opened a path for writing
  wrote,     \* the paths a run opened for writing
  stable,    \* nobody else changed the working copy since the run started
  before,    \* the runs that had ended when this one started
  edits, faults

copy == <<source, config, baseline, disk>>
local == <<call, conf, todo, mapSnap, unitSnap, out, text>>
history == <<floor, owner, wrote, stable, before>>
vars == <<copy, pc, exit, local, history, edits, faults>>

Artifact == {"md", "json", "facts", "sidecar"}
Path == Artifact \cup {"config"}
Killed == 137
ExitCode == 0..7 \cup {Killed}

\* The order in which a build writes; the paths it may write.
Outputs == <<"md">> \o (IF JsonOut THEN <<"json">> ELSE << >>)
                    \o (IF FactsOut THEN <<"facts", "sidecar">> ELSE << >>)
OutputSet == {Outputs[i] : i \in DOMAIN Outputs}

Snapshot == [File -> Content \cup {Gone}]
NothingRead == [f \in File |-> Gone]

-----------------------------------------------------------------------------
(***************************************************************************)
(* What a run renders.  The analysis unit is the detection settings and    *)
(* the files as the second scan read them; the floor is not part of it.    *)
(***************************************************************************)
release(r) == call[r].release
\* ANALYZER_BUILD_DIGEST, which every published build of the tool has its own of.
analyzer(r) == <<call[r].release, call[r].pre>>
cfg(r) == conf[r].text

DetectionWanted == FactsOut \/ HasInput

UnitOf(settings, files) == [settings |-> settings, files |-> files]

DocumentOf(rel, c, files, unit) ==
  [layout |-> LineOf(rel), rest |-> c.rest, sources |-> files,
   facts |-> IF HasInput THEN {unit} ELSE {}]

ArtifactOf(build, unit) == [analyzer |-> build, unit |-> unit]

unitOfWholeConfig(r) == UnitOf(cfg(r), unitSnap[r])
unitOf(r) == UnitOf(cfg(r).unit, unitSnap[r])

DocumentOfFirstScan(r) ==
  DocumentOf(release(r), cfg(r), mapSnap[r], UnitOf(cfg(r).unit, mapSnap[r]))
Document(r) == DocumentOf(release(r), cfg(r), mapSnap[r], unitOf(r))

Rendering(r, a) ==
  CASE a = "md" -> Document(r)
    [] a = "json" -> [tool |-> release(r), config |-> cfg(r),
                      sources |-> mapSnap[r]]
    [] a = "facts" -> ArtifactOf(analyzer(r), unitOf(r))
    [] a = "sidecar" -> [unit |-> unitOf(r)]

\* The diagnostic cores detection emits over a snapshot of the unit.
Emitted(files) ==
  UNION {Raises[files[f]] : f \in {g \in File : files[g] # Gone}}

Diagnostics(r) == IF DetectionWanted THEN Emitted(unitSnap[r]) ELSE {}

(***************************************************************************)
(* The version floor.                                                      *)
(***************************************************************************)
RefusesByMajor(declared, rel) ==
  declared # NoFloor /\ rel.major < declared.major
Refuses(declared, rel) == declared # NoFloor /\ IsBelow(rel, declared)

OwesRaiseByMajor(r) ==
  /\ cfg(r).floor # NoFloor
  /\ ~call[r].pre
  /\ release(r).major > cfg(r).floor.major
OwesRaiseAlways(r) == cfg(r).floor # NoFloor /\ ~call[r].pre
\* raisedFloorFor over the floor the run loaded.
OwesRaise(r) ==
  /\ cfg(r).floor # NoFloor
  /\ ~call[r].pre
  /\ ExceedsLine(release(r), cfg(r).floor)

\* locateFloor: found, as against absent or refused.  A configuration is plain
\* when the key stands in it once with a plain scalar, which null is as well.
IsLocated(bytes) == bytes.is = "whole" /\ bytes.text.plain

AmendedToPatch(r) == [text[r].text EXCEPT !.floor = release(r)]
Amended(r) == [text[r].text EXCEPT !.floor = LineOf(release(r))]

(***************************************************************************)
(* The ratchet over the baseline.                                          *)
(***************************************************************************)
Suppressed == IF DeclaresBaseline THEN baseline.text ELSE {}
UnlistedUnlessEmpty(emitted, listed) ==
  IF listed = {} THEN {} ELSE (emitted \ Mandatory) \ listed
Unlisted(emitted, listed) == (emitted \ Mandatory) \ listed
Stale(emitted, listed) ==
  {b \in listed : b \in Mandatory \/ b \notin emitted}
RatchetClean(r) ==
  /\ Unlisted(Diagnostics(r), Suppressed) = {}
  /\ Stale(Diagnostics(r), Suppressed) = {}

(***************************************************************************)
(* The verdict of check mode on the committed facts artifact.              *)
(***************************************************************************)
FactsVerdictOfAnalyzer(r) ==
  LET committed == disk["facts"] IN
  CASE ~FactsOut -> 0
    [] FactsOut /\ Diagnostics(r) \cap Mandatory # {} -> 4
    [] FactsOut /\ Diagnostics(r) \cap Mandatory = {} /\ committed = Absent -> 1
    [] OTHER ->
         IF committed.is # "whole" \/ committed.text.analyzer # analyzer(r)
         THEN 3 ELSE 0
FactsVerdict(r) ==
  LET committed == disk["facts"] IN
  CASE ~FactsOut -> 0
    [] FactsOut /\ Diagnostics(r) \cap Mandatory # {} -> 4
    [] FactsOut /\ Diagnostics(r) \cap Mandatory = {} /\ committed = Absent -> 1
    [] OTHER ->
         IF committed.is # "whole" \/ committed.text.analyzer # analyzer(r) THEN 3
         ELSE IF committed.text = Rendering(r, "facts") THEN 0 ELSE 1

-----------------------------------------------------------------------------
Active(r) == pc[r] \notin {"idle", "done"}
Quiet == \A r \in Run : ~Active(r)

Goto(r, label) == pc' = [pc EXCEPT ![r] = label]

\* process.exitCode is set and the command returns or throws.
Exit(r, code) ==
  /\ Goto(r, "done")
  /\ exit' = [exit EXCEPT ![r] = code]

\* r opens p for writing: writeFile truncates, and r is its last writer.
Opens(r, p) ==
  /\ owner' = [owner EXCEPT ![p] = r]
  /\ wrote' = [wrote EXCEPT ![r] = @ \cup {p}]

DisturbsOthers(r) == stable' = [q \in Run |-> q = r /\ stable[q]]
DisturbsAll == stable' = [q \in Run |-> FALSE]

\* The bytes of a file after a write lands on what it holds by then.
Landing(current, x) ==
  {Whole(x)} \cup (IF current \in {Empty, Whole(x)} THEN {} ELSE {Mixed})

Init ==
  /\ source \in FirstSource
  /\ config \in FirstConfig
  /\ baseline \in Baselines
  /\ disk = [a \in Artifact |-> Absent]
  /\ pc = [r \in Run |-> "idle"]
  /\ call = [r \in Run |-> CHOOSE i \in Invocation : TRUE]
  /\ conf = [r \in Run |-> Absent]
  /\ todo = [r \in Run |-> {}]
  /\ mapSnap = [r \in Run |-> NothingRead]
  /\ unitSnap = [r \in Run |-> NothingRead]
  /\ out = [r \in Run |-> 1]
  /\ text = [r \in Run |-> Absent]
  /\ exit = [r \in Run |-> 0]
  /\ floor = IF config.is = "whole" THEN config.text.floor ELSE NoFloor
  /\ owner = [p \in Path |-> NoOne]
  /\ wrote = [r \in Run |-> {}]
  /\ stable = [r \in Run |-> FALSE]
  /\ before = [r \in Run |-> {}]
  /\ edits = 0
  /\ faults = 0

-----------------------------------------------------------------------------
(***************************************************************************)
(* Starting a run and loading the configuration (loader.ts, load).         *)
(***************************************************************************)
Start(r, i) ==
  /\ pc[r] = "idle"
  /\ Overlap \/ Quiet
  /\ call' = [call EXCEPT ![r] = i]
  /\ stable' = [stable EXCEPT ![r] = TRUE]
  /\ before' = [before EXCEPT ![r] = {q \in Run : pc[q] = "done"}]
  /\ Goto(r, IF i.cmd = "init" THEN "probe" ELSE "load")
  /\ UNCHANGED <<copy, conf, todo, mapSnap, unitSnap, out, text, exit,
                 floor, owner, wrote, edits, faults>>

unchangedButExit == UNCHANGED <<copy, local, history, edits, faults>>

\* No configuration is found, or the one found is empty.
LoadNothing(r) ==
  /\ pc[r] = "load"
  /\ config \in {Absent, Empty}
  /\ Exit(r, 2)
  /\ unchangedButExit

\* YAML that does not parse is no ConfigTimeError: the command crashes.
LoadUnreadable(r) ==
  /\ pc[r] = "load"
  /\ config = Mixed
  /\ Exit(r, 1)
  /\ unchangedButExit

LoadRejected(r) ==
  /\ pc[r] = "load"
  /\ config = Rejected
  /\ Exit(r, 5)
  /\ unchangedButExit

\* refuseBelowFloor.
LoadTooOld(r) ==
  /\ pc[r] = "load"
  /\ config.is = "whole"
  /\ Refuses(config.text.floor, release(r))
  /\ Exit(r, 7)
  /\ unchangedButExit

\* applyOnly meets a section id it does not know.
RejectOnly(r) ==
  /\ pc[r] = "load"
  /\ config.is = "whole"
  /\ ~Refuses(config.text.floor, release(r))
  /\ call[r].cmd # "facts" /\ "only_unknown" \in call[r].flags
  /\ Exit(r, 5)
  /\ unchangedButExit

LoadAccepted(r) ==
  /\ pc[r] = "load"
  /\ config.is = "whole"
  /\ ~Refuses(config.text.floor, release(r))
  /\ ~(call[r].cmd # "facts" /\ "only_unknown" \in call[r].flags)
  /\ conf' = [conf EXCEPT ![r] = config]
  /\ Goto(r, IF call[r].cmd = "facts" THEN "walkUnit" ELSE "walk")
  /\ UNCHANGED <<copy, exit, call, todo, mapSnap, unitSnap, out, text,
                 history, edits, faults>>

(***************************************************************************)
(* The two scans.  readSourceSet walks, then reads file by file in walk    *)
(* order; extraction and the analysis unit each make a scan of their own.  *)
(***************************************************************************)
Existing == {f \in SourceFile : source[f] # Gone}

Walk(r) ==
  /\ \/ pc[r] = "walk" /\ Goto(r, "scan")
     \/ pc[r] = "walkUnit" /\ Goto(r, "unit")
  /\ todo' = [todo EXCEPT ![r] = Existing]
  /\ UNCHANGED <<copy, exit, call, conf, mapSnap, unitSnap, out, text,
                 history, edits, faults>>

Reading(r, f) ==
  /\ pc[r] \in {"scan", "unit", "specs"}
  /\ f \in todo[r]
  /\ \A g \in todo[r] : f <= g

ReadFile(r, f) ==
  /\ Reading(r, f)
  /\ source[f] # Gone
  /\ todo' = [todo EXCEPT ![r] = @ \ {f}]
  /\ IF pc[r] = "scan"
     THEN /\ mapSnap' = [mapSnap EXCEPT ![r][f] = source[f]]
          /\ UNCHANGED unitSnap
     ELSE /\ unitSnap' = [unitSnap EXCEPT ![r][f] = source[f]]
          /\ UNCHANGED mapSnap
  /\ UNCHANGED <<copy, pc, exit, call, conf, out, text, history, edits, faults>>

\* The file went between the walk and the read: the rejection is not caught.
ReadFails(r, f) ==
  /\ Reading(r, f)
  /\ source[f] = Gone
  /\ Exit(r, 1)
  /\ unchangedButExit

\* Render, then check or write.
AfterRender(r) == IF call[r].cmd = "check" THEN "checkFacts" ELSE "write"

Extract(r) ==
  /\ pc[r] = "scan"
  /\ todo[r] = {}
  /\ Goto(r, IF DetectionWanted THEN "walkUnit" ELSE AfterRender(r))
  /\ UNCHANGED <<copy, exit, local, history, edits, faults>>

\* readSpecs resolves a locator, then reads its path.  Settings in BadLocator
\* fail on the locator that sorts first, so before any document is read.
ResolveLocators(r) ==
  /\ pc[r] = "unit"
  /\ todo[r] = {}
  /\ cfg(r).unit \notin BadLocator
  /\ todo' = [todo EXCEPT ![r] = SpecFile]
  /\ Goto(r, "specs")
  /\ UNCHANGED <<copy, exit, call, conf, mapSnap, unitSnap, out, text,
                 history, edits, faults>>

LocatorFails(r) ==
  /\ pc[r] = "unit"
  /\ todo[r] = {}
  /\ cfg(r).unit \in BadLocator
  /\ Exit(r, 5)
  /\ unchangedButExit

\* Detection is pure: the unit is complete, the fact set follows from it.
Detect(r) ==
  /\ pc[r] = "specs"
  /\ todo[r] = {}
  /\ call[r].cmd # "facts"
  /\ Goto(r, AfterRender(r))
  /\ UNCHANGED <<copy, exit, local, history, edits, faults>>

\* reportUnitDigest prints and returns.
ReportDigest(r) ==
  /\ pc[r] = "specs"
  /\ todo[r] = {}
  /\ call[r].cmd = "facts"
  /\ Exit(r, 0)
  /\ unchangedButExit

-----------------------------------------------------------------------------
(***************************************************************************)
(* Check mode: the artifact first, the document only if it agrees.         *)
(***************************************************************************)
CheckFactsFails(r) ==
  /\ pc[r] = "checkFacts"
  /\ FactsVerdict(r) # 0
  /\ Exit(r, FactsVerdict(r))
  /\ unchangedButExit

CheckFactsPasses(r) ==
  /\ pc[r] = "checkFacts"
  /\ FactsVerdict(r) = 0
  /\ Goto(r, "checkDocument")
  /\ UNCHANGED <<copy, exit, local, history, edits, faults>>

CheckDocumentExists(r) ==
  /\ pc[r] = "checkDocument"
  /\ Exit(r, IF disk["md"].is = "whole" THEN 0 ELSE 1)
  /\ unchangedButExit
CheckDocument(r) ==
  /\ pc[r] = "checkDocument"
  /\ Exit(r, IF disk["md"] = Whole(Document(r)) THEN 0 ELSE 1)
  /\ unchangedButExit

(***************************************************************************)
(* Writing the outputs in order.                                           *)
(***************************************************************************)
BeginWrite(r) ==
  /\ pc[r] = "write"
  /\ out[r] \in DOMAIN Outputs
  /\ disk' = [disk EXCEPT ![Outputs[out[r]]] = Empty]
  /\ Opens(r, Outputs[out[r]])
  /\ DisturbsOthers(r)
  /\ Goto(r, "flush")
  /\ UNCHANGED <<source, config, baseline, exit, local, floor, before,
                 edits, faults>>

EndWriteTwice(r) ==
  /\ pc[r] = "flush"
  /\ LET a == Outputs[out[r]] IN
       disk' = [disk EXCEPT ![a] = Whole(Rendering(r, a))]
  /\ out' = [out EXCEPT ![r] = @ + 2]
  /\ DisturbsOthers(r)
  /\ Goto(r, "write")
  /\ UNCHANGED <<source, config, baseline, exit, call, conf, todo, mapSnap,
                 unitSnap, text, floor, owner, wrote, before, edits, faults>>
EndWrite(r) ==
  /\ pc[r] = "flush"
  /\ LET a == Outputs[out[r]] IN
       \E bytes \in Landing(disk[a], Rendering(r, a)) :
         disk' = [disk EXCEPT ![a] = bytes]
  /\ out' = [out EXCEPT ![r] = @ + 1]
  /\ DisturbsOthers(r)
  /\ Goto(r, "write")
  /\ UNCHANGED <<source, config, baseline, exit, call, conf, todo, mapSnap,
                 unitSnap, text, floor, owner, wrote, before, edits, faults>>

DocumentWritten(r) == pc[r] = "write" /\ out[r] > 1
AllWritten(r) == pc[r] = "write" /\ out[r] \notin DOMAIN Outputs

SkipRatchet(r) ==
  /\ AllWritten(r)
  /\ "strict" \notin call[r].flags
  /\ Goto(r, "raise")
  /\ UNCHANGED <<copy, exit, local, history, edits, faults>>

\* readBaseline asks whether a declared file exists, then reads it.
BaselineMissing(r) ==
  /\ AllWritten(r)
  /\ "strict" \in call[r].flags
  /\ DeclaresBaseline /\ baseline = Absent
  /\ Exit(r, 5)
  /\ unchangedButExit

ProbeBaseline(r) ==
  /\ AllWritten(r)
  /\ "strict" \in call[r].flags
  /\ DeclaresBaseline /\ baseline # Absent
  /\ Goto(r, "baseline")
  /\ UNCHANGED <<copy, exit, local, history, edits, faults>>

\* Deleted in between: the rejection is no ConfigTimeError.
BaselineVanishes(r) ==
  /\ pc[r] = "baseline"
  /\ baseline = Absent
  /\ Exit(r, 1)
  /\ unchangedButExit

BaselineRejected(r) ==
  /\ pc[r] = "baseline"
  /\ baseline = Rejected
  /\ Exit(r, 5)
  /\ unchangedButExit

\* No baseline is declared, or the declared one parsed.
Judging(r) ==
  \/ AllWritten(r) /\ "strict" \in call[r].flags /\ ~DeclaresBaseline
  \/ pc[r] = "baseline" /\ baseline.is = "whole"

\* The code is set and the command goes on to raiseFloor, which sees it.
RatchetFails(r) ==
  /\ Judging(r)
  /\ ~RatchetClean(r)
  /\ exit' = [exit EXCEPT ![r] = 6]
  /\ Goto(r, "raise")
  /\ UNCHANGED <<copy, local, history, edits, faults>>

RatchetPasses(r) ==
  /\ Judging(r)
  /\ RatchetClean(r)
  /\ Goto(r, "raise")
  /\ UNCHANGED <<copy, exit, local, history, edits, faults>>

(***************************************************************************)
(* raiseFloor: whether a raise is owed is decided on the configuration as  *)
(* loaded; what is amended is the text read again.                         *)
(***************************************************************************)
NothingToRaise(r) ==
  /\ pc[r] = "raise"
  /\ ~OwesRaise(r) \/ exit[r] # 0
  /\ Goto(r, "done")
  /\ UNCHANGED <<copy, exit, local, history, edits, faults>>

RereadConfig(r) ==
  /\ pc[r] = "raise"
  /\ OwesRaise(r) /\ exit[r] = 0
  /\ text' = [text EXCEPT ![r] = config]
  /\ Goto(r, "amend")
  /\ UNCHANGED <<copy, exit, call, conf, todo, mapSnap, unitSnap, out,
                 history, edits, faults>>

LeaveAlone(r) ==
  /\ pc[r] = "amend"
  /\ ~IsLocated(text[r])
  /\ Goto(r, "done")
  /\ UNCHANGED <<copy, exit, local, history, edits, faults>>

BeginAmend(r) ==
  /\ pc[r] = "amend"
  /\ IsLocated(text[r])
  /\ config' = Empty
  /\ Opens(r, "config")
  /\ DisturbsOthers(r)
  /\ Goto(r, "amending")
  /\ UNCHANGED <<source, baseline, disk, exit, local, floor, before,
                 edits, faults>>

\* The configuration on disk changes, and floor with it when it is complete.
ConfigLands(r, c) ==
  \E bytes \in Landing(config, c) :
    /\ config' = bytes
    /\ floor' = IF bytes.is = "whole" THEN c.floor ELSE floor

EndAmend(r) ==
  /\ pc[r] = "amending"
  /\ ConfigLands(r, Amended(r))
  /\ DisturbsOthers(r)
  /\ Goto(r, "done")
  /\ UNCHANGED <<source, baseline, disk, exit, local, owner, wrote, before,
                 edits, faults>>

(***************************************************************************)
(* init: scaffold a configuration carrying the running release's floor.    *)
(***************************************************************************)
InitRefuses(r) ==
  /\ pc[r] = "probe"
  /\ config # Absent
  /\ "force" \notin call[r].flags
  /\ Exit(r, 1)
  /\ unchangedButExit

\* The file is probed in one await and written in a later one.
InitProceeds(r) ==
  /\ pc[r] = "probe"
  /\ config = Absent \/ "force" \in call[r].flags
  /\ Goto(r, "create")
  /\ UNCHANGED <<copy, exit, local, history, edits, faults>>

BeginScaffold(r) ==
  /\ pc[r] = "create"
  /\ config' = Empty
  /\ Opens(r, "config")
  /\ DisturbsOthers(r)
  /\ Goto(r, "scaffold")
  /\ UNCHANGED <<source, baseline, disk, exit, local, floor, before,
                 edits, faults>>

EndScaffold(r) ==
  /\ pc[r] = "scaffold"
  /\ ConfigLands(r, DefaultConfig(release(r)))
  /\ DisturbsOthers(r)
  /\ Goto(r, "done")
  /\ UNCHANGED <<source, baseline, disk, exit, local, owner, wrote, before,
                 edits, faults>>

-----------------------------------------------------------------------------
(***************************************************************************)
(* Failing writes and killed runs, MaxFaults of them in a behaviour.       *)
(***************************************************************************)
Fault(r) ==
  /\ faults < MaxFaults
  /\ faults' = faults + 1
  /\ stable' = [stable EXCEPT ![r] = FALSE]
  /\ UNCHANGED <<copy, local, floor, owner, wrote, before, edits>>

\* An output that cannot be opened or flushed: the rejection is not caught.
WriteFails(r) ==
  /\ \/ pc[r] = "write" /\ out[r] \in DOMAIN Outputs
     \/ pc[r] \in {"flush", "create", "scaffold"}
  /\ Exit(r, 1)
  /\ Fault(r)

\* raiseFloor catches what the amendment throws and leaves the code alone.
AmendFails(r) ==
  /\ \/ pc[r] = "amend" /\ IsLocated(text[r])
     \/ pc[r] = "amending"
  /\ Goto(r, "done")
  /\ UNCHANGED exit
  /\ Fault(r)

Crash(r) ==
  /\ Active(r)
  /\ Exit(r, Killed)
  /\ Fault(r)

(***************************************************************************)
(* The editor, MaxEdits edits in a behaviour.                              *)
(***************************************************************************)
Edit ==
  /\ edits < MaxEdits
  /\ edits' = edits + 1
  /\ DisturbsAll
  /\ UNCHANGED <<disk, pc, exit, local, wrote, before, faults>>

EditSource(f, c) ==
  /\ source[f] # c
  /\ source' = [source EXCEPT ![f] = c]
  /\ Edit
  /\ UNCHANGED <<config, baseline, floor, owner>>

EditBaseline(b) ==
  /\ baseline # b
  /\ baseline' = b
  /\ Edit
  /\ UNCHANGED <<source, config, floor, owner>>

EditConfig(c) ==
  /\ LiveEdits \/ Quiet
  /\ config # Whole(c)
  /\ config' = Whole(c)
  /\ floor' = c.floor
  /\ owner' = [owner EXCEPT !["config"] = NoOne]
  /\ Edit
  /\ UNCHANGED <<source, baseline>>

-----------------------------------------------------------------------------
Load(r) ==
  \/ LoadNothing(r) \/ LoadUnreadable(r) \/ LoadRejected(r)
  \/ LoadTooOld(r) \/ RejectOnly(r) \/ LoadAccepted(r)

Scan(r) ==
  \/ Walk(r) \/ Extract(r) \/ ResolveLocators(r) \/ LocatorFails(r)
  \/ Detect(r) \/ ReportDigest(r)
  \/ \E f \in File : ReadFile(r, f) \/ ReadFails(r, f)

Check(r) == CheckFactsFails(r) \/ CheckFactsPasses(r) \/ CheckDocument(r)

Write(r) ==
  \/ BeginWrite(r) \/ EndWrite(r) \/ SkipRatchet(r)
  \/ BaselineMissing(r) \/ ProbeBaseline(r) \/ BaselineVanishes(r)
  \/ BaselineRejected(r) \/ RatchetFails(r) \/ RatchetPasses(r)

Raise(r) ==
  \/ NothingToRaise(r) \/ RereadConfig(r) \/ LeaveAlone(r)
  \/ BeginAmend(r) \/ EndAmend(r)

Scaffolds(r) ==
  InitRefuses(r) \/ InitProceeds(r) \/ BeginScaffold(r) \/ EndScaffold(r)

\* The steps a run takes by itself once it is started.
Step(r) ==
  Load(r) \/ Scan(r) \/ Check(r) \/ Write(r) \/ Raise(r) \/ Scaffolds(r)

Editor ==
  \/ \E f \in File, c \in Content \cup {Gone} : EditSource(f, c)
  \/ \E b \in Baselines : EditBaseline(b)
  \/ \E c \in ConfigText : EditConfig(c)

Next ==
  \/ \E r \in Run, i \in Invocation : Start(r, i)
  \/ \E r \in Run : Step(r) \/ WriteFails(r) \/ AmendFails(r) \/ Crash(r)
  \/ Editor

Spec == Init /\ [][Next]_vars

-----------------------------------------------------------------------------
(***************************************************************************)
(* Types.                                                                  *)
(***************************************************************************)
Label == {"idle", "load", "walk", "scan", "walkUnit", "unit", "specs",
          "checkFacts", "checkDocument", "write", "flush", "baseline", "raise",
          "amend", "amending", "probe", "create", "scaffold", "done"}

ConfigBytes ==
  {Absent, Empty, Mixed, Rejected} \cup {Whole(c) : c \in ConfigText}

\* Every variable stays in its domain; the outputs are typed by what is read
\* of them, so that no step compares bytes of two shapes.
TypeOK ==
  /\ source \in Snapshot
  /\ config \in ConfigBytes
  /\ baseline \in {Absent, Rejected} \cup {Whole(b) : b \in SUBSET Core}
  /\ DOMAIN disk = Artifact
  /\ pc \in [Run -> Label]
  /\ call \in [Run -> Invocation]
  /\ conf \in [Run -> ConfigBytes]
  /\ todo \in [Run -> SUBSET File]
  /\ mapSnap \in [Run -> Snapshot]
  /\ unitSnap \in [Run -> Snapshot]
  /\ out \in [Run -> 1 .. Len(Outputs) + 1]
  /\ text \in [Run -> ConfigBytes]
  /\ exit \in [Run -> ExitCode]
  /\ floor \in Release \cup {NoFloor}
  /\ owner \in [Path -> Run \cup {NoOne}]
  /\ wrote \in [Run -> SUBSET Path]
  /\ stable \in [Run -> BOOLEAN]
  /\ before \in [Run -> SUBSET Run]
  /\ edits \in 0..MaxEdits
  /\ faults \in 0..MaxFaults

Ended(r, cmd) == pc[r] = "done" /\ call[r].cmd = cmd /\ exit[r] # Killed

(***************************************************************************)
(* A build that reached exit 0 or 6, after which nothing else changed the  *)
(* working copy, is a fixed point: a later check by the same release finds *)
(* nothing to say about the bytes, although the build may have amended the *)
(* configuration in between.  It reports 4 or 0 on the diagnostics alone.  *)
(* (commands.ts build, runCheck; loader.ts hashUnitConfig, DLT-030)        *)
(***************************************************************************)
FixedPoint ==
  \A q, r \in Run :
    /\ Ended(q, "build") /\ exit[q] \in {0, 6} /\ stable[q]
    /\ Ended(r, "check") /\ q \in before[r]
    /\ analyzer(r) = analyzer(q)
    /\ "only_unknown" \notin call[r].flags
    => exit[r] = IF FactsOut /\ Diagnostics(r) \cap Mandatory # {} THEN 4 ELSE 0

(***************************************************************************)
(* A check that exits 0 while nobody touched the working copy has seen     *)
(* outputs that are what the sources and the configuration now on disk     *)
(* render to: no torn scan, no half-written or mixed file, and no output   *)
(* of an earlier tree passes.  (commands.ts runCheck, facts-check.ts)      *)
(***************************************************************************)
Walked == [f \in File |-> IF f \in SourceFile THEN source[f] ELSE Gone]
CurrentUnit == UnitOf(config.text.unit,
                      IF DetectionWanted THEN source ELSE NothingRead)

CheckAcceptsOnlyCurrent ==
  \A r \in Run :
    Ended(r, "check") /\ exit[r] = 0 /\ stable[r]
    => /\ disk["md"] = Whole(DocumentOf(release(r), config.text, Walked,
                                        CurrentUnit))
       /\ FactsOut =>
            disk["facts"] = Whole(ArtifactOf(analyzer(r), CurrentUnit))

(***************************************************************************)
(* The document and the artifact one run wrote report one analysis unit,   *)
(* also when the sources changed between the run's two scans.              *)
(* (commands.ts detectFacts: one analysis unit, rendered twice)            *)
(***************************************************************************)
OneUnitRenderedTwice ==
  /\ HasInput /\ FactsOut
  /\ owner["md"] = owner["facts"]
  /\ disk["md"].is = "whole" /\ disk["facts"].is = "whole"
  => disk["md"].text.facts = {disk["facts"].text.unit}

(***************************************************************************)
(* A run that amended the floor wrote every output before, ends with code  *)
(* 0 unless it is killed, and what it wrote is on disk complete until      *)
(* someone opens it again: a floor never claims a build that did not       *)
(* finish.  (commands.ts raiseFloor, BEH-017)                              *)
(***************************************************************************)
RaiseFollowsCompleteBuild ==
  \A r \in Run :
    call[r].cmd = "build" /\ "config" \in wrote[r]
    => /\ OutputSet \subseteq wrote[r]
       /\ exit[r] \in {0, Killed}
       /\ \A a \in OutputSet :
            owner[a] = r => disk[a] = Whole(Rendering(r, a))

(***************************************************************************)
(* Only a build the floor on disk admits opens an output, and a check, a   *)
(* facts query and a refused run open nothing: by the time a build writes, *)
(* the floor it was admitted under still stands.  (INV-006, POL-001)       *)
(***************************************************************************)
WritesClearTheFloor ==
  [][\A r \in Run :
       (wrote'[r] \cap Artifact) # (wrote[r] \cap Artifact)
       => /\ call[r].cmd = "build"
          /\ floor = NoFloor \/ ~IsBelow(release(r), floor)]_vars

(***************************************************************************)
(* A build that amends the configuration never declares a lower floor than *)
(* the one the configuration last declared in full.  (INV-006)             *)
(***************************************************************************)
FloorNeverLowered ==
  [][\A r \in Run :
       pc[r] = "amending" /\ pc'[r] = "done" /\ floor # NoFloor
       => floor' # NoFloor /\ ~IsBelow(floor', floor)]_vars

(***************************************************************************)
(* Whatever command wrote the configuration, the floor went up, unless a   *)
(* person edited it.  (INV-006)                                            *)
(***************************************************************************)
FloorOnlyRises ==
  [][floor' # floor /\ edits' = edits /\ floor # NoFloor
     => floor' # NoFloor /\ ~IsBelow(floor', floor)]_vars

(***************************************************************************)
(* The ratchet is exact: an undisturbed strict build that wrote everything *)
(* exits 0 when the baseline is the set of cores it emits outside check    *)
(* mode's mandatory ones, and 6 when it differs in either direction.       *)
(* (ratchet.ts ratchet, BEH-014)                                           *)
(***************************************************************************)
RatchetIsExact ==
  \A r \in Run :
    /\ Ended(r, "build") /\ stable[r]
    /\ "strict" \in call[r].flags
    /\ exit[r] \in {0, 6}
    => (exit[r] = 0) <=>
         (IF DeclaresBaseline THEN baseline = Whole(Emitted(source) \ Mandatory)
          ELSE Emitted(source) \subseteq Mandatory)

(***************************************************************************)
(* Runs that do not overlap keep the promise of VersionFloor.  A release   *)
(* has completed a build when a run of it wrote its last output.           *)
(***************************************************************************)
Built == {call[r].release : r \in {q \in Run : out[q] > Len(Outputs)}}

Promise == INSTANCE VersionFloor WITH
  built <- Built, revision <- edits, Known <- {i.release : i \in Invocation}

KeepsPromise == Promise!Spec

(***************************************************************************)
(* An undisturbed build that exits 0 leaves the floor at its own line or   *)
(* above, where the floor can be located.  (commands.ts raiseFloor)        *)
(***************************************************************************)
RaiseIsPaid ==
  \A r \in Run :
    /\ Ended(r, "build") /\ exit[r] = 0 /\ stable[r]
    /\ ~call[r].pre
    /\ config.is = "whole" => config.text.plain /\ config.text.floor # NoFloor
    => config.is = "whole" /\ ~IsBelow(config.text.floor, LineOf(release(r)))

(***************************************************************************)
(* What the documents say and the code does not do; each is the subject of *)
(* a run that finds the counterexample.                                    *)
(***************************************************************************)

\* A configuration-time error is raised before any build runs, so a run that
\* exits 5 opened no path for writing.  (CTR-001, CTR-010, commands.ts:195)
ConfigErrorWritesNothing ==
  \A r \in Run : pc[r] = "done" /\ exit[r] = 5 => wrote[r] = {}


=============================================================================
