---------------------------- MODULE HookInstall ----------------------------
(***************************************************************************)
(* The installers: `claude install` merges a hook into a settings file     *)
(* and writes a skill, `install-git-hook` writes a hook that stands before *)
(* a commit.  Runs of them interleave with one another and with the person *)
(* who owns the files; a run may be killed and a write may fail.           *)
(*                                                                         *)
(* Settings are their other keys, which nothing here tells apart further,  *)
(* and the groups of commands under the event the hook is filed under; a   *)
(* group is known by whether a command of it carries the signature of the  *)
(* hook, and by its other commands.                                        *)
(***************************************************************************)
EXTENDS Naturals, Sequences, FiniteSets, SequencesExt

CONSTANTS
  Runs,         \* runs of the installers
  Calls,        \* command lines: [pieces, force]
  Keys,         \* keys of the settings beside the hooks
  Commands,     \* commands that are not the hook
  Saves,        \* per piece, what a person may save there
  Scenes,       \* the sets of pieces one behaviour is about: a bound
  MaxEdits      \* bound on what the person does

Pieces == {"settings", "skill", "hook"}

VARIABLES
  scene,        \* the pieces this behaviour is about
  files,        \* what each piece holds
  executable,   \* whether the git hook may be executed
  run,          \* where each run is
  edits,        \* the number of things the person did
  saved,        \* history: per piece, what the person saved last, and when
  excuses,      \* history: per piece, what else may have happened to it since
  tree, index,  \* [source, document]: the versions on disk and staged
  guarded,      \* history: an install of the git hook succeeded and stands
  vouched       \* history: what the last commit behind the gate holds

vars == <<scene, files, executable, run, edits, saved, excuses, tree, index, guarded, vouched>>

-----------------------------------------------------------------------------
(* Contents.                                                               *)

Absent == [kind |-> "absent"]
Blank == [kind |-> "blank"]           \* nothing but white space
Invalid == [kind |-> "invalid"]       \* not JSON; a foreign or mangled text
NotObject == [kind |-> "value"]       \* JSON that is no object
Misshapen == [kind |-> "misshapen"]   \* an object whose hooks are not lists
Template == [kind |-> "template"]     \* the bundled skill or hook script
Edited == [kind |-> "edited"]
Settings(rest, groups) == [kind |-> "object", rest |-> rest, groups |-> groups]

Group == [hook : BOOLEAN, others : SUBSET Commands]
Objects == [kind : {"object"}, rest : SUBSET Keys, groups : Seq(Group)]
Contents ==
  {Absent, Blank, Invalid, NotObject, Misshapen, Template, Edited} \cup Objects

OwnGroup == [hook |-> TRUE, others |-> {}]

(* White space and JSON that is no object count as no settings at all.     *)
SettingsOf(content) == IF content.kind = "object" THEN content ELSE Settings({}, <<>>)

Hooked(content) ==
  {i \in DOMAIN SettingsOf(content).groups : SettingsOf(content).groups[i].hook}

FirstHooked(content) == CHOOSE i \in Hooked(content) : \A j \in Hooked(content) : i <= j

WithHookLast(content) ==
  Settings(SettingsOf(content).rest, Append(SettingsOf(content).groups, OwnGroup))

(* The hook goes last; a group that held it already goes, with its other   *)
(* commands.                                                               *)
WithHook(content) ==
  LET settings == SettingsOf(content)
      kept == IF Hooked(content) = {} THEN settings.groups
              ELSE RemoveAt(settings.groups, FirstHooked(content))
  IN  Settings(settings.rest, Append(kept, OwnGroup))

(* What a run makes of what it found.                                      *)
Throws(piece, content) == piece = "settings" /\ content = Misshapen

Already(piece, content, force) ==
  /\ ~force
  /\ \/ piece = "settings" /\ Hooked(content) # {}
     \/ piece = "skill" /\ content = Template

RefusesEditedOnly(piece, content, force) ==
  piece # "settings" /\ content \notin {Absent, Template} /\ ~force

RefusesOwnOnly(piece, content, force) ==
  \/ piece = "settings" /\ content = Invalid
  \/ piece # "settings" /\ content = Template /\ ~force

Refuses(piece, content, force) ==
  \/ piece = "settings" /\ content = Invalid
  \/ piece = "skill" /\ content \notin {Absent, Template} /\ ~force
  \/ piece = "hook" /\ content # Absent /\ ~force

Written(piece, content) == IF piece = "settings" THEN WithHook(content) ELSE Template

(* What a forced install takes away: the other commands of the group it    *)
(* removes, or the person's own text.                                      *)
Drops(piece, content) ==
  \/ piece # "settings" /\ content = Edited
  \/ /\ piece = "settings" /\ Hooked(content) # {}
     /\ SettingsOf(content).groups[FirstHooked(content)].others # {}

IsAtMostOne(set) == \A i, j \in set : i = j

ASSUME CallsAssumption ==
  \A c \in Calls : c.pieces \in Seq(Pieces) \ {<<>>} /\ c.force \in BOOLEAN

ASSUME SavesAssumption ==
  \A p \in Pieces : \A c \in Saves[p] : c \in Contents

ASSUME SavedHooksAssumption ==
  \A c \in Saves["settings"] : IsAtMostOne(Hooked(c))

ASSUME MaxEditsAssumption == MaxEdits \in Nat

-----------------------------------------------------------------------------
(* Runs.                                                                   *)

Idle ==
  [at |-> "idle", pieces |-> <<>>, force |-> FALSE, text |-> Blank, known |-> 0,
   owed |-> {}, progress |-> FALSE, code |-> 0]

Piece(r) == run[r].pieces[1]

At(r, place) == run[r].at = place

Writing(piece) == {r \in Runs : At(r, "fill") /\ Piece(r) = piece}

Init ==
  /\ scene \in Scenes
  /\ files = [p \in Pieces |-> Absent] /\ executable = FALSE
  /\ run = [r \in Runs |-> Idle]
  /\ edits = 0
  /\ saved = [p \in Pieces |-> [content |-> Absent, edit |-> 0]]
  /\ excuses = [p \in Pieces |-> {}]
  /\ tree = [source |-> 0, document |-> 0] /\ index = tree
  /\ guarded = FALSE
  /\ vouched = {}

Begin(r) ==
  /\ At(r, "idle")
  /\ \E call \in {c \in Calls : ToSet(c.pieces) \subseteq scene} :
       run' = [run EXCEPT ![r] = [Idle EXCEPT !.at = "probe", !.pieces = call.pieces,
                                              !.force = call.force]]
  /\ UNCHANGED <<scene, files, executable, edits, saved, excuses, tree, index, guarded, vouched>>

Ended(state, code) == [state EXCEPT !.at = "ended", !.code = code]

ContinuedPast(state, progress) ==
  [state EXCEPT !.at = "probe", !.pieces = Tail(state.pieces), !.progress = progress]

(* A run that made progress with any piece succeeds.                       *)
Continued(state, progress) ==
  LET rest == Tail(state.pieces)
  IN  IF rest = <<>> THEN Ended([state EXCEPT !.progress = progress], IF progress THEN 0 ELSE 1)
      ELSE [state EXCEPT !.at = "probe", !.pieces = rest, !.progress = progress]

(* The decision is taken on what was read, and acted on later.             *)
Decided(state, piece, content) ==
  IF Throws(piece, content) THEN Ended(state, 1)
  ELSE IF Refuses(piece, content, state.force) THEN Continued(state, state.progress)
  ELSE IF Already(piece, content, state.force) THEN Continued(state, TRUE)
  ELSE [state EXCEPT !.at = "open", !.text = Written(piece, content), !.known = edits,
                     !.owed = (IF state.force /\ Drops(piece, content) THEN {"forced"} ELSE {})
                                \cup (IF Writing(piece) # {} THEN {"overlap"} ELSE {})]

(* Only the existence of a git hook matters.                               *)
Probe(r) ==
  /\ At(r, "probe")
  /\ run' = [run EXCEPT ![r] =
       IF files[Piece(r)] = Absent \/ Piece(r) = "hook"
         THEN Decided(@, Piece(r), files[Piece(r)])
         ELSE [@ EXCEPT !.at = "read"]]
  /\ UNCHANGED <<scene, files, executable, edits, saved, excuses, tree, index, guarded, vouched>>

(* A file deleted since the probe ends the run.                            *)
Read(r) ==
  /\ At(r, "read")
  /\ run' = [run EXCEPT ![r] = IF files[Piece(r)] = Absent THEN Ended(@, 1)
                               ELSE Decided(@, Piece(r), files[Piece(r)])]
  /\ UNCHANGED <<scene, files, executable, edits, saved, excuses, tree, index, guarded, vouched>>

(* Saved since the run looked: what it writes does not know of it.         *)
Stale(r) == IF saved[Piece(r)].edit > run[r].known THEN {"stale"} ELSE {}

(* A write empties the file before it fills it.                            *)
Open(r) ==
  /\ At(r, "open")
  /\ files' = [files EXCEPT ![Piece(r)] = Blank]
  /\ executable' = (executable /\ ~(Piece(r) = "hook" /\ files["hook"] = Absent))
  /\ excuses' = [excuses EXCEPT ![Piece(r)] = @ \cup run[r].owed \cup Stale(r)]
  /\ run' = [run EXCEPT ![r].at = "fill"]
  /\ guarded' = (guarded /\ Piece(r) # "hook")
  /\ UNCHANGED <<scene, edits, saved, tree, index, vouched>>

(* Over a text that landed meanwhile the longer one may show at the end;   *)
(* a file deleted meanwhile stays deleted.                                 *)
Landing(current, text) ==
  IF current = Absent THEN {Absent}
  ELSE IF current \in {Blank, text} THEN {text}
  ELSE {text, Invalid}

Fill(r) ==
  /\ At(r, "fill")
  /\ \E content \in Landing(files[Piece(r)], run[r].text) :
       files' = [files EXCEPT ![Piece(r)] = content]
  /\ excuses' = [excuses EXCEPT ![Piece(r)] = @ \cup Stale(r) \cup
                   (IF files[Piece(r)] \in {Absent, Blank, run[r].text} THEN {} ELSE {"overlap"})]
  /\ run' = [run EXCEPT ![r] = IF Piece(r) = "hook" THEN [@ EXCEPT !.at = "chmod"]
                               ELSE Continued(@, TRUE)]
  /\ UNCHANGED <<scene, executable, edits, saved, tree, index, guarded, vouched>>

ChmodForgotten(r) ==
  /\ At(r, "chmod")
  /\ run' = [run EXCEPT ![r] = Continued(@, TRUE)]
  /\ guarded' = (files["hook"] = Template)
  /\ UNCHANGED <<scene, files, executable, edits, saved, excuses, tree, index, vouched>>

(* Without this the script is there and git does not run it.               *)
Chmod(r) ==
  /\ At(r, "chmod")
  /\ IF files["hook"] = Absent
       THEN run' = [run EXCEPT ![r] = Ended(@, 1)] /\ UNCHANGED <<scene, executable, guarded>>
       ELSE /\ run' = [run EXCEPT ![r] = Continued(@, TRUE)]
            /\ executable' = TRUE
            /\ guarded' = (files["hook"] = Template)
  /\ UNCHANGED <<scene, files, edits, saved, excuses, tree, index, vouched>>

(* What is left where only a part of the text was written.                 *)
Part(current, text) == IF current \in {Absent, text} THEN {current} ELSE {current, Invalid}

WriteFails(r) ==
  /\ At(r, "fill")
  /\ \E content \in Part(files[Piece(r)], run[r].text) :
       files' = [files EXCEPT ![Piece(r)] = content]
  /\ excuses' = [excuses EXCEPT ![Piece(r)] = @ \cup {"cut"}]
  /\ run' = [run EXCEPT ![r] = Ended(@, 1)]
  /\ UNCHANGED <<scene, executable, edits, saved, tree, index, guarded, vouched>>

Killed(r) ==
  /\ run[r].at \notin {"idle", "ended", "fill"}
  /\ run' = [run EXCEPT ![r] = Ended(@, 1)]
  /\ UNCHANGED <<scene, files, executable, edits, saved, excuses, tree, index, guarded, vouched>>

-----------------------------------------------------------------------------
(* The person.                                                             *)

Save(piece) ==
  /\ edits < MaxEdits /\ piece \in scene
  /\ \E content \in Saves[piece] :
       /\ files' = [files EXCEPT ![piece] = content]
       /\ saved' = [saved EXCEPT ![piece] = [content |-> content, edit |-> edits + 1]]
       /\ executable' = IF piece = "hook" THEN content # Absent ELSE executable
  /\ excuses' = [excuses EXCEPT ![piece] = {}]
  /\ edits' = edits + 1
  /\ guarded' = (guarded /\ piece # "hook")
  /\ UNCHANGED <<scene, run, tree, index, vouched>>

EditSource ==
  /\ edits < MaxEdits /\ "hook" \in scene
  /\ tree' = [tree EXCEPT !.source = @ + 1]
  /\ edits' = edits + 1
  /\ UNCHANGED <<scene, files, executable, run, saved, excuses, index, guarded, vouched>>

Build ==
  /\ tree' = [tree EXCEPT !.document = tree.source]
  /\ UNCHANGED <<scene, files, executable, run, edits, saved, excuses, index, guarded, vouched>>

(* All of the tree, or the sources alone.                                  *)
Stage ==
  /\ index' \in {tree, [index EXCEPT !.source = tree.source]}
  /\ UNCHANGED <<scene, files, executable, run, edits, saved, excuses, tree, guarded, vouched>>

(* The script checks the tree on disk: it lets through what is current     *)
(* there, what the person asks to skip, and everything where the project   *)
(* does not opt in or the tool is absent; a tool below the floor refuses.  *)
Blocks(environment, skip) ==
  /\ environment \notin {"no_config", "no_tool"}
  /\ environment = "too_old" \/ tree.document # tree.source
  /\ ~skip

IsGate(content) == content = Template

Commit ==
  /\ "hook" \in scene
  /\ \E environment \in {"ready", "no_config", "no_tool", "too_old"}, skip \in BOOLEAN :
       /\ IsGate(files["hook"]) /\ executable => ~Blocks(environment, skip)
       /\ vouched' = IF guarded /\ index = tree /\ environment = "ready" /\ ~skip
                       THEN {index} ELSE {}
  /\ UNCHANGED <<scene, files, executable, run, edits, saved, excuses, tree, index, guarded>>

Next ==
  \/ \E r \in Runs : Begin(r) \/ Probe(r) \/ Read(r) \/ Open(r) \/ Fill(r) \/ Chmod(r)
                     \/ WriteFails(r) \/ Killed(r)
  \/ \E p \in Pieces : Save(p)
  \/ EditSource \/ Build \/ Stage \/ Commit

Spec == Init /\ [][Next]_vars
-----------------------------------------------------------------------------
(* Properties.                                                             *)

Places == {"idle", "probe", "read", "open", "fill", "chmod", "ended"}

Excuses == {"stale", "overlap", "cut", "forced"}

RunStates ==
  [at : Places, pieces : Seq(Pieces), force : BOOLEAN, text : Contents, known : Nat,
   owed : SUBSET Excuses, progress : BOOLEAN, code : {0, 1}]

(* The types of the state: a run that is under way has a piece to go on    *)
(* with and looked at it no later than now.                                *)
TypeOK ==
  /\ scene \in Scenes
  /\ files \in [Pieces -> Contents]
  /\ executable \in BOOLEAN /\ guarded \in BOOLEAN
  /\ edits \in 0..MaxEdits
  /\ run \in [Runs -> RunStates]
  /\ \A r \in Runs : /\ run[r].at \notin {"idle", "ended"} => run[r].pieces # <<>>
                     /\ run[r].known <= edits
  /\ saved \in [Pieces -> [content : Contents, edit : 0..edits]]
  /\ excuses \in [Pieces -> SUBSET Excuses]
  /\ {tree, index} \cup vouched \subseteq [source : Nat, document : Nat]

(* However runs overlap, and whatever was read while another wrote, the    *)
(* settings never hold the hook twice, if the person never saves it twice. *)
HookAtMostOnce == IsAtMostOne(Hooked(files["settings"]))

(* What the person saved is still in the settings: every other key and     *)
(* group, and any text that is not JSON or not a list of hooks untouched.  *)
Survives(content, now) ==
  /\ content.kind = "object" => /\ now.kind = "object" /\ now.rest = content.rest
                                /\ ToSet(content.groups) \subseteq ToSet(now.groups)
  /\ content.kind \in {"invalid", "misshapen"} => now = content

(* A person's settings are lost only where a run that had looked before    *)
(* the save, or while another run wrote, wrote after it, where a write was *)
(* cut short, or where --force removed the group the hook shared.          *)
SavedSettingsSurvive ==
  excuses["settings"] = {} /\ Writing("settings") = {} =>
    Survives(saved["settings"].content, files["settings"])

(* An edited skill and a hook of the person's own are written over only by *)
(* --force, or by a run that had looked before they were saved.            *)
SavedFilesSurvive ==
  \A p \in {"skill", "hook"} :
    excuses[p] = {} /\ saved[p].content = Edited => files[p] = Edited

(* Once an install of the git hook has succeeded, and until a person or    *)
(* another install touches it, no commit of the whole tree goes through    *)
(* with a document that is not current, unless the person skips the gate   *)
(* or the project or the tool is not there.                                *)
GuardedCommitIsCurrent == \A content \in vouched : content.document = content.source
=============================================================================
