------------------------- MODULE BuildOutputsProofs -------------------------
(***************************************************************************)
(* Theorems about the outputs of BuildRuns when runs follow one another:   *)
(* what a run leaves on disk is its own, complete, and all of it before    *)
(* the floor rises.  Files may be edited at any moment, writes may fail    *)
(* and runs may be killed.                                                 *)
(***************************************************************************)
EXTENDS BuildCurrencyProofs

Late == Writing \cup Raising \cup {"scaffold", "done"}

\* What a run has opened is what its place in the order of outputs says, and
\* what it opened last is empty or carries its own rendering.
Written(r) ==
  /\ pc[r] \notin Late => wrote[r] = {} /\ \A p \in Path : owner[p] # r
  /\ \A k \in DOMAIN Outputs : k < out[r] =>
       /\ Outputs[k] \in wrote[r]
       /\ owner[Outputs[k]] = r
            => disk[Outputs[k]] = Whole(Rendering(r, Outputs[k]))
  /\ \A a \in Artifact :
       owner[a] = r => disk[a] = Empty \/ disk[a] = Whole(Rendering(r, a))
  /\ pc[r] = "flush" =>
       /\ owner[Outputs[out[r]]] = r /\ Outputs[out[r]] \in wrote[r]
       /\ disk[Outputs[out[r]]] = Empty
  /\ pc[r] \in {"amend", "amending"} => exit[r] = 0
  /\ call[r].cmd = "build" /\ "config" \in wrote[r] =>
       /\ pc[r] \in {"amending", "done"}
       /\ out[r] > Len(Outputs)
       /\ exit[r] \in {0, Killed}

\* An output nobody opened was never there.
Unopened == \A a \in Artifact : owner[a] = NoOne => disk[a] = Absent

OutputsInv == CurrencyInv /\ Solo /\ Unopened /\ \A r \in Run : Written(r)

LEMMA OutputsInit == Init => OutputsInv
<1>. SUFFICES ASSUME Init PROVE OutputsInv
  OBVIOUS
<1>1. CurrencyInv
  BY CurrencyInit
<1>2. Solo /\ Unopened
  BY DEF Init, Solo, Active, Unopened
<1>3. \A r \in Run : Written(r)
  BY SentinelsAreApart, OutputsType DEF Init, Written, Path
<1>. QED BY <1>1, <1>2, <1>3 DEF OutputsInv

\* A run that does not move keeps what it wrote while nobody else writes into
\* what it opened.
LEMMA StillWritten ==
  ASSUME NEW q \in Run, Still(q), Written(q), wrote'[q] = wrote[q],
         \A p \in Path : owner'[p] = q => owner[p] = q,
         \A a \in Artifact : owner'[a] = q => disk'[a] = disk[a],
         pc[q] = "flush" =>
           \A a \in Artifact : owner'[a] = owner[a] /\ disk'[a] = disk[a],
         pc[q] = "flush" => out[q] \in DOMAIN Outputs
  PROVE  Written(q)'
<1>1. \A a : Rendering(q, a)' = Rendering(q, a)
  BY SameRendering
<1>2. \A k \in DOMAIN Outputs : Outputs[k] \in Artifact
  BY OutputsType
<1>3. Artifact \subseteq Path
  BY DEF Path
<1>. QED BY <1>1, <1>2, <1>3 DEF Written, Still

\* A step of a run that opens and fills no file.
LEMMA QuietStep ==
  ASSUME TypeOK, NEW r \in Run, Written(r), Standing(r),
         UNCHANGED <<disk, owner, wrote, out>>, call'[r] = call[r],
         pc[r] \in Late => /\ \A a : Rendering(r, a)' = Rendering(r, a)
                           /\ pc'[r] \in Late \ {"flush", "scaffold"},
         pc'[r] # "flush" /\ pc'[r] # "amending",
         pc'[r] = "amend" => exit'[r] = 0,
         pc[r] = "amending" => pc'[r] = "done" /\ exit'[r] \in {exit[r], Killed},
         pc[r] # "done"
  PROVE  Written(r)'
<1>1. \A p \in Path : owner[p] = r => pc[r] \in Late
  BY DEF Written
<1>2. \A k \in DOMAIN Outputs : Outputs[k] \in Path
  BY OutputsType DEF Path
<1>3. Artifact \subseteq Path
  BY DEF Path
<1>4. "config" \in wrote[r] /\ call[r].cmd = "build" => pc[r] = "amending"
  BY DEF Written
<1>. QED BY <1>1, <1>2, <1>3, <1>4 DEF Written

\* A step by one run leaves the others what they wrote.
LEMMA QuietForOthers ==
  ASSUME OutputsInv, NEW r \in Run, \A q \in Run \ {r} : Still(q),
         UNCHANGED <<disk, owner, wrote>>
  PROVE  \A q \in Run \ {r} : Written(q)'
<1>1. \A q \in Run : pc[q] = "flush" => out[q] \in DOMAIN Outputs
  BY DEF OutputsInv, CurrencyInv, TypeInv, Flushing
<1>. QED BY <1>1, StillWritten DEF OutputsInv

\* The steps that open or fill no file.
Quietly(r) ==
  \/ Load(r) \/ Scan(r) \/ Check(r) \/ SkipRatchet(r) \/ BaselineMissing(r)
  \/ ProbeBaseline(r) \/ BaselineVanishes(r) \/ BaselineRejected(r)
  \/ RatchetFails(r) \/ RatchetPasses(r) \/ NothingToRaise(r)
  \/ RereadConfig(r) \/ LeaveAlone(r) \/ EndAmend(r) \/ InitRefuses(r)
  \/ InitProceeds(r) \/ EndScaffold(r)
  \/ WriteFails(r) \/ AmendFails(r) \/ Crash(r)

LEMMA QuietlyKeeps ==
  ASSUME TypeOK, NEW r \in Run, Written(r), Standing(r), Quietly(r)
  PROVE  Written(r)' /\ UNCHANGED <<disk, owner, wrote>>
<1>. USE DEF Late, Mapping, Detecting, Checking, Writing, Raising
<1>1. ASSUME UNCHANGED <<call, conf, mapSnap, unitSnap>>
      PROVE  \A a : Rendering(r, a)' = Rendering(r, a)
  BY <1>1 DEF Rendering, Document, unitOf, release, analyzer, cfg
<1>2. ASSUME UNCHANGED <<disk, owner, wrote, out, call>>, pc[r] \notin Late,
             NEW label \in Label \ {"flush", "amend", "amending"}, Goto(r, label)
      PROVE  Written(r)' /\ UNCHANGED <<disk, owner, wrote>>
  BY <1>2, QuietStep DEF Goto, TypeOK
<1>3. ASSUME UNCHANGED <<disk, owner, wrote, out, call, conf, mapSnap, unitSnap>>,
             pc[r] \in Late \ {"done"},
             NEW label \in {"baseline", "raise", "amend", "done"}, Goto(r, label),
             label = "amend" => exit'[r] = 0,
             pc[r] = "amending" =>
               label = "done" /\ exit'[r] \in {exit[r], Killed}
      PROVE  Written(r)' /\ UNCHANGED <<disk, owner, wrote>>
  BY <1>1, <1>3, QuietStep DEF Goto, TypeOK
<1>4. CASE Load(r) \/ Check(r)
  BY <1>2, <1>4 DEF Load, LoadNothing, LoadUnreadable, LoadRejected,
     LoadTooOld, RejectOnly, LoadAccepted, Check, CheckFactsFails,
     CheckFactsPasses, CheckDocument, Exit, unchangedButExit, copy, local,
     history, Label
<1>5. CASE Scan(r)
  <2>1. CASE Walk(r) \/ ResolveLocators(r) \/ LocatorFails(r) \/ ReportDigest(r)
    BY <1>2, <2>1 DEF Walk, ResolveLocators, LocatorFails, ReportDigest, Exit,
       unchangedButExit, copy, local, history, Label
  <2>2. CASE Extract(r) \/ Detect(r)
    BY <1>2, <2>2
       DEF Extract, Detect, AfterRender, copy, local, history, Label
  <2>3. ASSUME NEW f \in File, ReadFails(r, f)
        PROVE  Written(r)' /\ UNCHANGED <<disk, owner, wrote>>
    BY <1>2, <2>3 DEF ReadFails, Reading, Exit, unchangedButExit, copy, local,
       history, Label
  <2>4. ASSUME NEW f \in File, ReadFile(r, f)
        PROVE  Written(r)' /\ UNCHANGED <<disk, owner, wrote>>
    BY <2>4, QuietStep DEF ReadFile, Reading, copy, history
  <2>. QED BY <1>5, <2>1, <2>2, <2>3, <2>4 DEF Scan
<1>6. CASE SkipRatchet(r) \/ BaselineMissing(r) \/ ProbeBaseline(r)
           \/ BaselineVanishes(r) \/ BaselineRejected(r)
  BY <1>3, <1>6 DEF SkipRatchet, BaselineMissing, ProbeBaseline,
     BaselineVanishes, BaselineRejected, AllWritten, Exit, unchangedButExit,
     copy, local, history
<1>7. CASE RatchetFails(r) \/ RatchetPasses(r)
  BY <1>3, <1>7 DEF RatchetFails, RatchetPasses, Judging, AllWritten, copy,
     local, history
<1>8. CASE NothingToRaise(r) \/ RereadConfig(r) \/ LeaveAlone(r)
  BY <1>3, <1>8 DEF NothingToRaise, RereadConfig, LeaveAlone, copy, local,
     history
<1>9. CASE EndAmend(r)
  BY <1>3, <1>9 DEF EndAmend, local
<1>10. CASE InitRefuses(r) \/ InitProceeds(r)
  BY <1>2, <1>10 DEF InitRefuses, InitProceeds, Exit, unchangedButExit, copy,
     local, history, Label
<1>11. CASE EndScaffold(r)
  BY <1>3, <1>11 DEF EndScaffold, local
<1>12. CASE WriteFails(r) \/ AmendFails(r) \/ Crash(r)
  <2>1. /\ Goto(r, "done") /\ pc[r] # "done"
        /\ UNCHANGED <<disk, owner, wrote, out, call, conf, mapSnap, unitSnap>>
        /\ pc[r] = "amending" => exit'[r] \in {exit[r], Killed}
    BY <1>12 DEF WriteFails, AmendFails, Crash, Active, Fault, Exit, copy, local,
       TypeOK
  <2>. QED BY <1>2, <1>3, <2>1 DEF Label, TypeOK
<1>. QED BY <1>4, <1>5, <1>6, <1>7, <1>8, <1>9, <1>10, <1>11, <1>12 DEF Quietly

\* A run is alone when it moves.
LEMMA SoloNext ==
  ASSUME ~Overlap, TypeOK, Solo, [Next]_vars
  PROVE  Solo'
<1>1. CASE UNCHANGED vars
  BY <1>1 DEF vars, Solo, Active
<1>2. CASE Editor
  BY <1>2 DEF Editor, EditSource, EditBaseline, EditConfig, Edit, Solo, Active
<1>3. ASSUME NEW r \in Run, Moves(r), NEW i \in Invocation, Start(r, i)
      PROVE  Solo'
  <2>1. \A q \in Run \ {r} : ~Active(q) /\ pc'[q] = pc[q]
    BY <1>3 DEF Start, Quiet, Moves, Still
  <2>. QED BY <2>1 DEF Solo, Active
<1>4. ASSUME NEW r \in Run, Moves(r), Active(r)
      PROVE  Solo'
  <2>1. \A q \in Run \ {r} : ~Active(q) /\ pc'[q] = pc[q]
    BY <1>4 DEF Solo, Moves, Still
  <2>. QED BY <2>1 DEF Solo, Active
<1>. QED BY <1>1, <1>2, <1>3, <1>4, OneRunMoves, Stepping

LEMMA OutputsNext == ~Overlap /\ OutputsInv /\ [Next]_vars => OutputsInv'
<1>. SUFFICES ASSUME ~Overlap, OutputsInv, [Next]_vars PROVE OutputsInv'
  OBVIOUS
<1>. USE DEF Late, Mapping, Detecting, Checking, Writing, Raising
<1>1. /\ CurrencyInv /\ CurrencyInv' /\ TypeOK /\ TypeOK' /\ Solo /\ Solo'
      /\ \A q \in Run : Standing(q) /\ Written(q)
      /\ \A q \in Run : pc[q] = "flush" => out[q] \in DOMAIN Outputs
  <2>1. CurrencyInv /\ CurrencyInv' /\ TypeInv /\ TypeInv'
    BY CurrencyNext DEF OutputsInv, CurrencyInv
  <2>. QED BY <2>1, SoloNext
         DEF OutputsInv, CurrencyInv, TypeInv, Flushing
<1>2. ASSUME Unopened', \A q \in Run : Written(q)'
      PROVE  OutputsInv'
  BY <1>1, <1>2 DEF OutputsInv
<1>3. ASSUME UNCHANGED <<disk, owner>>
      PROVE  Unopened'
  BY <1>3 DEF OutputsInv, Unopened
<1>4. CASE UNCHANGED vars
  <2>1. (\A q \in Run : Still(q)) /\ UNCHANGED <<disk, owner, wrote>>
    BY <1>4 DEF vars, copy, local, history, Still
  <2>. QED BY <1>1, <1>2, <1>3, <2>1, StillWritten
<1>5. CASE Editor
  <2>1. /\ UNCHANGED <<pc, exit, local, before, disk, wrote>>
        /\ owner' = owner \/ owner' = [owner EXCEPT !["config"] = NoOne]
    BY <1>5 DEF Editor, EditSource, EditBaseline, EditConfig, Edit
  <2>2. \A q \in Run : Still(q)
    BY <2>1 DEF local, Still
  <2>3. /\ \A a \in Artifact : owner'[a] = owner[a]
        /\ \A q \in Run, p \in Path : owner'[p] = q => owner[p] = q
    <3>1. owner \in [Path -> Run \cup {NoOne}] /\ "config" \notin Artifact
          /\ Artifact \subseteq Path
      BY <1>1 DEF TypeOK, Artifact, Path
    <3>2. CASE owner' = owner
      BY <3>2
    <3>3. CASE owner' = [owner EXCEPT !["config"] = NoOne]
      BY <3>1, <3>3, SentinelsAreApart
    <3>. QED BY <2>1, <3>2, <3>3
  <2>4. Unopened'
    BY <2>1, <2>3 DEF OutputsInv, Unopened
  <2>. QED BY <1>1, <1>2, <2>1, <2>2, <2>3, <2>4, StillWritten
<1>6. ASSUME NEW r \in Run, Moves(r), NEW i \in Invocation, Start(r, i)
      PROVE  OutputsInv'
  <2>1. /\ UNCHANGED <<disk, owner, wrote, out>> /\ pc[r] = "idle"
        /\ pc'[r] \in {"load", "probe"} /\ out[r] = 1
    <3>1. /\ pc[r] = "idle" /\ UNCHANGED <<disk, owner, wrote, out>>
          /\ Goto(r, IF i.cmd = "init" THEN "probe" ELSE "load")
      BY <1>6 DEF Start, copy
    <3>2. out[r] = 1
      BY <1>1, <3>1 DEF Standing
    <3>. QED BY <1>1, <3>1, <3>2 DEF Goto, TypeOK
  <2>2. Written(r)'
    <3>1. wrote[r] = {} /\ \A p \in Path : owner[p] # r
      BY <1>1, <2>1 DEF Written
    <3>2. Artifact \subseteq Path
      BY DEF Path
    <3>. QED BY <2>1, <3>1, <3>2, OutputsType DEF Written
  <2>3. \A q \in Run \ {r} : Written(q)'
    BY <1>6, <2>1, QuietForOthers DEF Moves
  <2>. QED BY <1>2, <1>3, <2>1, <2>2, <2>3
<1>7. ASSUME NEW r \in Run, Moves(r), Quietly(r)
      PROVE  OutputsInv'
  <2>1. Written(r)' /\ UNCHANGED <<disk, owner, wrote>>
    BY <1>1, <1>7, QuietlyKeeps
  <2>2. \A q \in Run \ {r} : Written(q)'
    BY <1>7, <2>1, QuietForOthers DEF Moves
  <2>. QED BY <1>2, <1>3, <2>1, <2>2
\* A step that opens a path as r.
<1>8. ASSUME NEW r \in Run, Moves(r), Active(r), NEW p \in Path, Opens(r, p),
             \A a \in Artifact \ {p} : disk'[a] = disk[a]
      PROVE  \A q \in Run \ {r} : Written(q)'
  <2>1. ASSUME NEW q \in Run \ {r}
        PROVE  Written(q)'
    <3>1. /\ \A o \in Path : owner'[o] = q => o # p /\ owner[o] = q
          /\ wrote'[q] = wrote[q]
      BY <1>1, <1>8 DEF Opens, TypeOK
    <3>2. \A a \in Artifact : owner'[a] = q => disk'[a] = disk[a]
      BY <1>8, <3>1 DEF Path
    <3>3. pc[q] # "flush"
      BY <1>1, <1>8 DEF Solo, Active
    <3>. QED BY <1>1, <1>8, <3>1, <3>2, <3>3, StillWritten DEF Moves
  <2>. QED BY <2>1
<1>9. ASSUME NEW r \in Run, Moves(r), BeginWrite(r)
      PROVE  OutputsInv'
  <2>. DEFINE a == Outputs[out[r]]
  <2>1. /\ pc[r] = "write" /\ pc'[r] = "flush" /\ out[r] \in DOMAIN Outputs
        /\ disk' = [disk EXCEPT ![a] = Empty] /\ Opens(r, a)
        /\ UNCHANGED <<exit, local>>
    BY <1>1, <1>9 DEF BeginWrite, Goto, TypeOK
  <2>2. /\ a \in Artifact /\ a \in Path /\ a # "config"
        /\ \A o \in Artifact : disk'[o] = IF o = a THEN Empty ELSE disk[o]
        /\ \A o \in Path : owner'[o] = IF o = a THEN r ELSE owner[o]
        /\ wrote'[r] = wrote[r] \cup {a}
        /\ \A o : Rendering(r, o)' = Rendering(r, o)
    BY <1>1, <2>1, OutputsType
       DEF Path, Artifact, Opens, TypeOK, local, Rendering, Document, unitOf,
           release, analyzer, cfg
  <2>3. \A k \in DOMAIN Outputs : /\ Outputs[k] \in Artifact /\ Outputs[k] \in Path
                                  /\ k < out[r] => Outputs[k] # a
    BY <2>1, OutputsType, OutputsDiffer DEF Path
  <2>4. Artifact \subseteq Path /\ call'[r] = call[r] /\ out'[r] = out[r]
    BY <2>1 DEF Path, local
  <2>5. "config" \notin wrote'[r]
    BY <1>1, <2>1, <2>2 DEF Written, Standing, CommandAt
  <2>6. Written(r)'
    BY <1>1, <2>1, <2>2, <2>3, <2>4, <2>5 DEF Written
  <2>7. \A q \in Run \ {r} : Written(q)'
    BY <1>8, <1>9, <2>1, <2>2 DEF Active
  <2>8. Unopened'
    BY <2>2, <2>4, SentinelsAreApart DEF OutputsInv, Unopened
  <2>. QED BY <1>2, <2>6, <2>7, <2>8
<1>10. ASSUME NEW r \in Run, Moves(r), EndWrite(r)
       PROVE  OutputsInv'
  <2>. DEFINE a == Outputs[out[r]]
  <2>1. /\ pc[r] = "flush" /\ pc'[r] = "write" /\ out[r] \in DOMAIN Outputs
        /\ out'[r] = out[r] + 1
        /\ UNCHANGED <<exit, owner, wrote, call, conf, mapSnap, unitSnap>>
    BY <1>1, <1>10 DEF EndWrite, Goto, TypeOK
  <2>2. owner[a] = r /\ disk[a] = Empty /\ a \in Artifact
    BY <1>1, <2>1, OutputsType DEF Written
  <2>3. \A o \in Artifact :
          disk'[o] = IF o = a THEN Whole(Rendering(r, a)) ELSE disk[o]
    BY <1>1, <1>10, <2>2 DEF EndWrite, Landing, TypeOK
  <2>4. \A o : Rendering(r, o)' = Rendering(r, o)
    BY <2>1 DEF Rendering, Document, unitOf, release, analyzer, cfg
  <2>5. \A k \in DOMAIN Outputs :
          /\ Outputs[k] \in Artifact
          /\ k < out'[r] => k < out[r] \/ k = out[r]
    BY <1>1, <2>1, OutputsType DEF TypeOK
  <2>6. "config" \notin wrote[r]
    BY <1>1, <2>1 DEF Written, Standing, CommandAt
  <2>7. a \in wrote[r]
    BY <1>1, <2>1 DEF Written
  <2>8. Written(r)'
    BY <1>1, <2>1, <2>2, <2>3, <2>4, <2>5, <2>6, <2>7 DEF Written
  <2>9. ASSUME NEW q \in Run \ {r}
        PROVE  Written(q)'
    <3>1. pc[q] # "flush"
      BY <1>1, <2>1 DEF Solo, Active
    <3>2. \A o \in Artifact : owner'[o] = q => disk'[o] = disk[o]
      BY <2>1, <2>2, <2>3
    <3>. QED BY <1>1, <1>10, <2>1, <3>1, <3>2, StillWritten DEF Moves
  <2>10. Unopened'
    BY <2>1, <2>2, <2>3, SentinelsAreApart DEF OutputsInv, Unopened
  <2>. QED BY <1>2, <2>8, <2>9, <2>10
<1>11. ASSUME NEW r \in Run, Moves(r), BeginAmend(r) \/ BeginScaffold(r)
       PROVE  OutputsInv'
  <2>1. /\ disk' = disk /\ Opens(r, "config") /\ UNCHANGED <<exit, local>>
        /\ \/ pc[r] = "amend" /\ pc'[r] = "amending"
           \/ pc[r] = "create" /\ pc'[r] = "scaffold"
    BY <1>1, <1>11 DEF BeginAmend, BeginScaffold, Goto, TypeOK
  <2>2. /\ \A o \in Path : owner'[o] = IF o = "config" THEN r ELSE owner[o]
        /\ wrote'[r] = wrote[r] \cup {"config"}
        /\ \A o : Rendering(r, o)' = Rendering(r, o)
        /\ call'[r] = call[r] /\ out'[r] = out[r] /\ exit'[r] = exit[r]
    BY <1>1, <2>1 DEF Path, Opens, TypeOK, local, Rendering, Document, unitOf,
       release, analyzer, cfg
  <2>3. /\ "config" \in Path /\ "config" \notin Artifact
        /\ Artifact \subseteq Path
        /\ \A k \in DOMAIN Outputs : Outputs[k] \in Artifact
    BY OutputsType DEF Path, Artifact
  <2>4. Written(r)'
    BY <1>1, <2>1, <2>2, <2>3 DEF Written, Standing, CommandAt, Scaffolded
  <2>5. \A q \in Run \ {r} : Written(q)'
    BY <1>8, <1>11, <2>1, <2>3 DEF Active
  <2>6. Unopened'
    BY <2>1, <2>2, <2>3 DEF OutputsInv, Unopened
  <2>. QED BY <1>2, <2>4, <2>5, <2>6
<1>. QED BY <1>1, <1>4, <1>5, <1>6, <1>7, <1>9, <1>10, <1>11, OneRunMoves
       DEF Quietly, Step, Write, Raise, Scaffolds

(***************************************************************************)
(* The document and the artifact one run wrote report one analysis unit,   *)
(* also when files change between its two scans.                           *)
(* (commands.ts detectFacts)                                               *)
(***************************************************************************)
THEOREM DocumentAndFactsAgree ==
  ASSUME ~Overlap PROVE Spec => []OneUnitRenderedTwice
<1>1. ASSUME OutputsInv, HasInput, FactsOut, owner["md"] = owner["facts"],
             disk["md"].is = "whole", disk["facts"].is = "whole"
      PROVE  disk["md"].text.facts = {disk["facts"].text.unit}
  <2>1. "md" \in Artifact /\ "facts" \in Artifact /\ Artifact \subseteq Path
    BY DEF Artifact, Path
  <2>2. owner["md"] \in Run
    <3>1. owner["md"] \in Run \cup {NoOne}
      BY <1>1, <2>1 DEF OutputsInv, CurrencyInv, TypeInv, TypeOK
    <3>2. owner["md"] # NoOne
      BY <1>1, <2>1 DEF OutputsInv, Unopened, Absent
    <3>. QED BY <3>1, <3>2
  <2>3. PICK r \in Run : owner["md"] = r /\ owner["facts"] = r
    BY <1>1, <2>2
  <2>4. /\ disk["md"] = Whole(Rendering(r, "md"))
        /\ disk["facts"] = Whole(Rendering(r, "facts"))
    BY <1>1, <2>1, <2>3 DEF OutputsInv, Written, Empty
  <2>. QED BY <1>1, <2>4
         DEF Whole, Rendering, Document, DocumentOf, ArtifactOf
<1>2. OutputsInv => OneUnitRenderedTwice
  BY <1>1 DEF OneUnitRenderedTwice
<1>3. Init => OutputsInv
  BY OutputsInit
<1>4. OutputsInv /\ [Next]_vars => OutputsInv'
  BY OutputsNext
<1>. QED BY <1>2, <1>3, <1>4, PTL DEF Spec

(***************************************************************************)
(* A run that amended the floor had written every output, ends with code 0 *)
(* unless it is killed, and what it wrote is complete on disk until        *)
(* someone opens it again.  (commands.ts raiseFloor, BEH-017)              *)
(***************************************************************************)
THEOREM RaisesFollowCompleteBuilds ==
  ASSUME ~Overlap PROVE Spec => []RaiseFollowsCompleteBuild
<1>1. ASSUME OutputsInv, NEW r \in Run, call[r].cmd = "build",
             "config" \in wrote[r]
      PROVE  /\ OutputSet \subseteq wrote[r]
             /\ exit[r] \in {0, Killed}
             /\ \A a \in OutputSet :
                  owner[a] = r => disk[a] = Whole(Rendering(r, a))
  <2>1. Written(r) /\ out[r] > Len(Outputs) /\ out[r] \in Nat
    BY <1>1, OutputsType
       DEF OutputsInv, Written, CurrencyInv, TypeInv, TypeOK
  <2>2. \A k \in DOMAIN Outputs : k < out[r]
    BY <2>1, OutputsType
  <2>. QED BY <1>1, <2>1, <2>2 DEF Written, OutputSet
<1>2. OutputsInv => RaiseFollowsCompleteBuild
  BY <1>1 DEF RaiseFollowsCompleteBuild
<1>3. Init => OutputsInv
  BY OutputsInit
<1>4. OutputsInv /\ [Next]_vars => OutputsInv'
  BY OutputsNext
<1>. QED BY <1>2, <1>3, <1>4, PTL DEF Spec
=============================================================================
