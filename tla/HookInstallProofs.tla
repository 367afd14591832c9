------------------------- MODULE HookInstallProofs -------------------------
(***************************************************************************)
(* For every set of runs, of command lines and of contents a person may    *)
(* save: the state is typed, the settings never hold the hook twice, and   *)
(* what the person saved survives what is not excused.                     *)
(***************************************************************************)
EXTENDS HookInstall, SequenceTheorems, TLAPS

-----------------------------------------------------------------------------
(* What an installation makes of the settings.                             *)

LEMMA SettingsAreObjects ==
  ASSUME NEW c \in Contents
  PROVE  SettingsOf(c) \in Objects
BY DEF SettingsOf, Settings, Contents, Objects, Absent, Blank, Invalid, NotObject, Misshapen,
       Template, Edited

LEMMA HookedAreIndices ==
  ASSUME NEW c \in Contents
  PROVE  Hooked(c) = {i \in 1..Len(SettingsOf(c).groups) : SettingsOf(c).groups[i].hook}
<1> SettingsOf(c).groups \in Seq(Group)
  BY SettingsAreObjects DEF Objects
<1> QED BY DEF Hooked

LEMMA FirstIsHooked ==
  ASSUME NEW c \in Contents, Hooked(c) # {}, IsAtMostOne(Hooked(c))
  PROVE  FirstHooked(c) \in Hooked(c)
<1>1. PICK i \in Hooked(c) : TRUE
  OBVIOUS
<1>2. i \in Nat
  BY <1>1, HookedAreIndices
<1>3. \A j \in Hooked(c) : i <= j
  BY <1>1, <1>2 DEF IsAtMostOne
<1> QED BY <1>1, <1>3 DEF FirstHooked

(* Removing an element keeps every other one, in order.                    *)
LEMMA Removal ==
  ASSUME NEW S, NEW s \in Seq(S), NEW k \in 1..Len(s)
  PROVE  /\ RemoveAt(s, k) \in Seq(S)
         /\ Len(RemoveAt(s, k)) = Len(s) - 1
         /\ \A i \in 1..(Len(s) - 1) : RemoveAt(s, k)[i] = IF i < k THEN s[i] ELSE s[i + 1]
<1> DEFINE before == SubSeq(s, 1, k - 1)
           after == SubSeq(s, k + 1, Len(s))
<1>1. before \in Seq(S) /\ Len(before) = k - 1 /\ \A i \in 1..(k - 1) : before[i] = s[i]
  OBVIOUS
<1>2. after \in Seq(S) /\ Len(after) = Len(s) - k /\ \A i \in 1..(Len(s) - k) : after[i] = s[i + k]
  OBVIOUS
<1>3. RemoveAt(s, k) = before \o after
  BY DEF RemoveAt
<1>4. Len(s) \in Nat /\ k \in Nat
  OBVIOUS
<1> HIDE DEF before, after
<1>5. before \o after \in Seq(S) /\ Len(before \o after) = Len(s) - 1
  <2>1. before \o after \in Seq(S) /\ Len(before \o after) = Len(before) + Len(after)
    BY <1>1, <1>2, ConcatProperties
  <2>2. Len(before) = k - 1 /\ Len(after) = Len(s) - k
    BY <1>1, <1>2
  <2> QED BY <2>1, <2>2, <1>4
<1>6. ASSUME NEW i \in 1..(Len(s) - 1)
      PROVE  (before \o after)[i] = IF i < k THEN s[i] ELSE s[i + 1]
  <2>0. (before \o after)[i] = IF i <= Len(before) THEN before[i] ELSE after[i - Len(before)]
    BY <1>1, <1>2, <1>4, ConcatProperties
  <2>1. CASE i < k
    BY <2>0, <2>1, <1>1, <1>4
  <2>2. CASE ~(i < k)
    <3>1. i - (k - 1) \in 1..(Len(s) - k) /\ i - (k - 1) + k = i + 1
      BY <2>2, <1>4
    <3> QED BY <2>0, <3>1, <2>2, <1>1, <1>2, <1>4
  <2> QED BY <2>1, <2>2
<1> QED BY <1>3, <1>5, <1>6

LEMMA HookIsFiled ==
  ASSUME NEW c \in Contents, IsAtMostOne(Hooked(c))
  PROVE  /\ WithHook(c) \in Objects
         /\ IsAtMostOne(Hooked(WithHook(c)))
         /\ WithHook(c).rest = SettingsOf(c).rest
         /\ ~Drops("settings", c) => ToSet(SettingsOf(c).groups) \subseteq ToSet(WithHook(c).groups)
<1> DEFINE old == SettingsOf(c).groups
           kept == IF Hooked(c) = {} THEN old ELSE RemoveAt(old, FirstHooked(c))
<1>1. old \in Seq(Group) /\ SettingsOf(c).rest \in SUBSET Keys
  BY SettingsAreObjects DEF Objects
<1>2. Hooked(c) = {i \in 1..Len(old) : old[i].hook}
  BY HookedAreIndices
<1>3. Hooked(c) # {} => FirstHooked(c) \in 1..Len(old) /\ Hooked(c) = {FirstHooked(c)}
  BY <1>2, FirstIsHooked DEF IsAtMostOne
<1>4. kept \in Seq(Group) /\ \A i \in 1..Len(kept) : ~kept[i].hook
  <2>1. CASE Hooked(c) = {}
    BY <2>1, <1>1, <1>2
  <2>2. CASE Hooked(c) # {}
    <3> DEFINE k == FirstHooked(c)
    <3>1. k \in 1..Len(old) /\ \A i \in 1..Len(old) : i # k => ~old[i].hook
      BY <2>2, <1>2, <1>3
    <3>2. /\ RemoveAt(old, k) \in Seq(Group) /\ Len(RemoveAt(old, k)) = Len(old) - 1
          /\ \A i \in 1..(Len(old) - 1) :
               RemoveAt(old, k)[i] = IF i < k THEN old[i] ELSE old[i + 1]
      BY <3>1, <1>1, Removal
    <3>3. Len(old) \in Nat
      BY <1>1
    <3> HIDE DEF old, k
    <3>4. \A i \in 1..Len(RemoveAt(old, k)) : ~RemoveAt(old, k)[i].hook
      BY <3>1, <3>2, <3>3
    <3> QED BY <2>2, <3>2, <3>4 DEF k
  <2> QED BY <2>1, <2>2
<1>5. WithHook(c) = Settings(SettingsOf(c).rest, Append(kept, OwnGroup))
  BY DEF WithHook
<1>6. OwnGroup \in Group
  BY DEF OwnGroup, Group
<1>7. Append(kept, OwnGroup) \in Seq(Group)
  BY <1>4, <1>6
<1>8. WithHook(c) \in Objects /\ WithHook(c).rest = SettingsOf(c).rest
  BY <1>1, <1>5, <1>7 DEF Settings, Objects
<1>9. WithHook(c).groups = Append(kept, OwnGroup)
  BY <1>5 DEF Settings
<1>10. SettingsOf(WithHook(c)) = WithHook(c) /\ WithHook(c) \in Contents
  BY <1>8 DEF SettingsOf, Objects, Contents
<1>11. \A i \in Hooked(WithHook(c)) : i = Len(kept) + 1
  <2>1. Hooked(WithHook(c)) = {i \in 1..Len(Append(kept, OwnGroup)) : Append(kept, OwnGroup)[i].hook}
    BY <1>9, <1>10, HookedAreIndices
  <2> QED
    <3> HIDE DEF kept
    <3> QED BY <2>1, <1>4
<1>12. ASSUME ~Drops("settings", c) PROVE ToSet(old) \subseteq ToSet(WithHook(c).groups)
  <2> SUFFICES ASSUME NEW i \in 1..Len(old)
               PROVE  \E j \in 1..(Len(kept) + 1) : Append(kept, OwnGroup)[j] = old[i]
    <3>1. DOMAIN old = 1..Len(old)
      BY <1>1
    <3> HIDE DEF old, kept
    <3>2. DOMAIN Append(kept, OwnGroup) = 1..(Len(kept) + 1)
      BY <1>4
    <3> QED BY <3>1, <3>2, <1>9 DEF ToSet, old
  <2>1. CASE Hooked(c) = {}
    BY <2>1, <1>1
  <2>2. CASE Hooked(c) # {} /\ i = FirstHooked(c)
    <3>1. old[i] = OwnGroup
      <4>1. old[i] \in Group /\ old[i].hook /\ old[i].others = {}
        BY <2>2, <1>1, <1>2, <1>3, <1>12 DEF Drops
      <4> HIDE DEF old
      <4> QED BY <4>1 DEF Group, OwnGroup
    <3> HIDE DEF old, kept
    <3> QED BY <3>1, <1>4
  <2>3. CASE Hooked(c) # {} /\ i # FirstHooked(c)
    <3> DEFINE k == FirstHooked(c)
               j == IF i < k THEN i ELSE i - 1
    <3>1. kept = RemoveAt(old, k) /\ k \in 1..Len(old) /\ Len(old) \in Nat
      BY <2>3, <1>1, <1>3
    <3>2. /\ Len(kept) = Len(old) - 1
          /\ \A n \in 1..(Len(old) - 1) : kept[n] = IF n < k THEN old[n] ELSE old[n + 1]
      BY <3>1, <1>1, Removal
    <3> HIDE DEF old, kept, k
    <3>3. i # k
      BY <2>3 DEF k
    <3>4. j \in 1..Len(kept) /\ kept[j] = old[i]
      BY <3>1, <3>2, <3>3
    <3> HIDE DEF j
    <3> QED BY <3>4, <1>4
  <2> QED BY <2>1, <2>2, <2>3
<1> QED BY <1>8, <1>11, <1>12 DEF IsAtMostOne

-----------------------------------------------------------------------------
(* The state is typed and holds the hook at most once.                     *)

(* Where a run may be: it has a piece to go on with, and what it writes    *)
(* holds the hook at most once.                                            *)
Sound(state) ==
  /\ state \in RunStates
  /\ state.at \notin {"idle", "ended"} => state.pieces # <<>>
  /\ state.known <= edits
  /\ IsAtMostOne(Hooked(state.text))

IInv ==
  /\ TypeOK
  /\ HookAtMostOnce
  /\ \A r \in Runs : Sound(run[r])

LEMMA BasicHoldsNone ==
  ASSUME NEW c \in {Absent, Blank, Invalid, NotObject, Misshapen, Template, Edited}
  PROVE  c \in Contents /\ Hooked(c) = {} /\ IsAtMostOne(Hooked(c))
<1>1. SettingsOf(c).groups = <<>>
  BY DEF SettingsOf, Settings, Absent, Blank, Invalid, NotObject, Misshapen, Template, Edited
<1> QED BY <1>1 DEF Hooked, IsAtMostOne, Contents

LEMMA WrittenIsSound ==
  ASSUME NEW piece \in Pieces, NEW c \in Contents,
         piece = "settings" => IsAtMostOne(Hooked(c))
  PROVE  Written(piece, c) \in Contents /\ IsAtMostOne(Hooked(Written(piece, c)))
<1>1. CASE piece = "settings"
  BY <1>1, HookIsFiled DEF Written, Contents
<1>2. CASE piece # "settings"
  BY <1>2, BasicHoldsNone DEF Written
<1> QED BY <1>1, <1>2

LEMMA EndedIsSound ==
  ASSUME NEW state, Sound(state), NEW code \in {0, 1}
  PROVE  Sound(Ended(state, code))
BY DEF Sound, Ended, RunStates, Places

LEMMA ContinuedIsSound ==
  ASSUME NEW state, Sound(state), state.pieces # <<>>, NEW progress \in BOOLEAN
  PROVE  Sound(Continued(state, progress))
<1> DEFINE moved == [state EXCEPT !.progress = progress]
           on == [state EXCEPT !.at = "probe", !.pieces = Tail(state.pieces), !.progress = progress]
<1>1. Tail(state.pieces) \in Seq(Pieces)
  BY DEF Sound, RunStates
<1>2. Sound(moved)
  BY DEF Sound, RunStates
<1>3. CASE Tail(state.pieces) = <<>>
  <2>1. Continued(state, progress) = Ended(moved, IF progress THEN 0 ELSE 1)
    BY <1>3 DEF Continued
  <2>2. (IF progress THEN 0 ELSE 1) \in {0, 1}
    OBVIOUS
  <2> HIDE DEF moved
  <2> QED BY <1>2, <2>1, <2>2, EndedIsSound
<1>4. CASE Tail(state.pieces) # <<>>
  <2>1. Continued(state, progress) = on
    BY <1>4 DEF Continued
  <2>2. Sound(on)
    BY <1>1, <1>4 DEF Sound, RunStates, Places
  <2> QED BY <2>1, <2>2
<1> QED BY <1>3, <1>4

LEMMA DecidedIsSound ==
  ASSUME NEW state, Sound(state), state.pieces # <<>>, edits \in Nat,
         NEW piece \in Pieces, NEW c \in Contents,
         piece = "settings" => IsAtMostOne(Hooked(c))
  PROVE  Sound(Decided(state, piece, c))
<1> DEFINE owed == (IF state.force /\ Drops(piece, c) THEN {"forced"} ELSE {})
                     \cup (IF Writing(piece) # {} THEN {"overlap"} ELSE {})
           opening == [state EXCEPT !.at = "open", !.text = Written(piece, c), !.known = edits,
                                    !.owed = owed]
<1>1. Sound(Ended(state, 1)) /\ Sound(Continued(state, TRUE))
  BY EndedIsSound, ContinuedIsSound
<1>2. Sound(Continued(state, state.progress))
  BY ContinuedIsSound DEF Sound, RunStates
<1>3. Sound(opening)
  <2>1. Written(piece, c) \in Contents /\ IsAtMostOne(Hooked(Written(piece, c)))
    BY WrittenIsSound
  <2>2. owed \in SUBSET Excuses
    BY DEF Excuses
  <2> HIDE DEF owed
  <2>3. state \in RunStates
    BY DEF Sound
  <2>4. opening \in RunStates
    BY <2>1, <2>2, <2>3 DEF RunStates, Places
  <2>5. opening.pieces = state.pieces /\ opening.known = edits /\ opening.text = Written(piece, c)
    BY <2>3 DEF RunStates
  <2> HIDE DEF opening
  <2> QED BY <2>1, <2>4, <2>5 DEF Sound
<1>4. Decided(state, piece, c) \in
        {Ended(state, 1), Continued(state, state.progress), Continued(state, TRUE), opening}
  BY DEF Decided
<1> QED BY <1>1, <1>2, <1>3, <1>4

LEMMA PieceIsPiece ==
  ASSUME NEW r \in Runs, Sound(run[r]), run[r].at \notin {"idle", "ended"}
  PROVE  Piece(r) \in Pieces /\ run[r].pieces # <<>>
BY DEF Sound, RunStates, Piece

(* A step of one run that leaves the others alone.                         *)
LEMMA RunMoves ==
  ASSUME IInv, NEW r \in Runs, NEW state, Sound(state), run' = [run EXCEPT ![r] = state],
         edits' = edits
  PROVE  /\ run' \in [Runs -> RunStates]
         /\ \A q \in Runs : Sound(run[q])'
<1>1. \A q \in Runs : run'[q] = IF q = r THEN state ELSE run[q]
  BY DEF IInv, TypeOK
<1>2. \A q \in Runs : Sound(run'[q])
  BY <1>1 DEF IInv
<1>3. \A q \in Runs : Sound(run[q])'
  BY <1>2 DEF Sound
<1> QED BY <1>2, <1>3 DEF IInv, TypeOK, Sound

LEMMA InitIsSound == Init => IInv
<1> SUFFICES ASSUME Init PROVE IInv
  OBVIOUS
<1>1. Absent \in Contents /\ IsAtMostOne(Hooked(Absent)) /\ Blank \in Contents
      /\ IsAtMostOne(Hooked(Blank))
  BY BasicHoldsNone
<1>2. Idle \in RunStates /\ Idle.at = "idle" /\ Idle.known = 0 /\ Idle.text = Blank
  BY <1>1 DEF Idle, RunStates, Places
<1>3. \A r \in Runs : run[r] = Idle
  BY DEF Init
<1>4. \A r \in Runs : Sound(run[r])
  BY <1>1, <1>2, <1>3 DEF Sound, Init
<1>5. TypeOK
  <2>1. saved \in [Pieces -> [content : Contents, edit : 0..edits]]
    BY <1>1 DEF Init
  <2>2. {tree, index} \cup vouched \subseteq [source : Nat, document : Nat]
    BY DEF Init
  <2>3. edits \in 0..MaxEdits /\ excuses \in [Pieces -> SUBSET Excuses]
    BY MaxEditsAssumption DEF Init
  <2>4. run \in [Runs -> RunStates] /\ files \in [Pieces -> Contents]
    BY <1>1, <1>2 DEF Init
  <2>5. \A r \in Runs : run[r].at \notin {"idle", "ended"} => run[r].pieces # <<>>
    BY <1>4 DEF Sound
  <2>6. \A r \in Runs : run[r].known <= edits
    BY <1>4 DEF Sound
  <2> QED BY <2>1, <2>2, <2>3, <2>4, <2>5, <2>6 DEF Init, TypeOK
<1>6. HookAtMostOnce
  BY <1>1 DEF Init, HookAtMostOnce, Pieces
<1> QED BY <1>4, <1>5, <1>6 DEF IInv

(* Writing a content that holds the hook at most once to one file.         *)
LEMMA FileIsWritten ==
  ASSUME IInv, NEW p \in Pieces, NEW c \in Contents, files' = [files EXCEPT ![p] = c],
         IsAtMostOne(Hooked(c))
  PROVE  files' \in [Pieces -> Contents] /\ HookAtMostOnce'
<1>1. files' \in [Pieces -> Contents]
  BY DEF IInv, TypeOK
<1>2. files'["settings"] \in {c, files["settings"]}
  BY DEF IInv, TypeOK, Pieces
<1> QED BY <1>1, <1>2 DEF IInv, HookAtMostOnce

LEMMA SavedStaysTyped ==
  ASSUME IInv, UNCHANGED saved, edits' = edits
  PROVE  saved' \in [Pieces -> [content : Contents, edit : 0..edits']]
BY DEF IInv, TypeOK

(* What is typed by the other conjuncts.                                   *)
LEMMA TypeFromParts ==
  ASSUME scene' \in Scenes, files' \in [Pieces -> Contents],
         executable' \in BOOLEAN, guarded' \in BOOLEAN, edits' \in 0..MaxEdits,
         run' \in [Runs -> RunStates], \A r \in Runs : Sound(run[r])',
         saved' \in [Pieces -> [content : Contents, edit : 0..edits']],
         excuses' \in [Pieces -> SUBSET Excuses],
         ({tree, index} \cup vouched)' \subseteq [source : Nat, document : Nat],
         HookAtMostOnce'
  PROVE  IInv'
BY DEF IInv, TypeOK, Sound

(* A step that moves a run and nothing else.                               *)
LEMMA OnlyRunMoves ==
  ASSUME IInv, NEW r \in Runs, NEW state, Sound(state), run' = [run EXCEPT ![r] = state],
         UNCHANGED <<scene, files, executable, edits, saved, excuses, tree, index, guarded, vouched>>
  PROVE  IInv'
<1>1. run' \in [Runs -> RunStates] /\ \A q \in Runs : Sound(run[q])'
  BY RunMoves
<1>2. saved' \in [Pieces -> [content : Contents, edit : 0..edits']]
  BY SavedStaysTyped
<1>3. /\ scene' \in Scenes /\ files' \in [Pieces -> Contents] /\ executable' \in BOOLEAN
      /\ guarded' \in BOOLEAN /\ edits' \in 0..MaxEdits /\ excuses' \in [Pieces -> SUBSET Excuses]
      /\ ({tree, index} \cup vouched)' \subseteq [source : Nat, document : Nat]
  BY DEF IInv, TypeOK
<1>4. HookAtMostOnce'
  BY DEF IInv, HookAtMostOnce
<1> QED BY <1>1, <1>2, <1>3, <1>4, TypeFromParts

(* A step that moves a run and writes its file.                            *)
LEMMA RunWrites ==
  ASSUME IInv, NEW r \in Runs, NEW state, Sound(state), run' = [run EXCEPT ![r] = state],
         NEW p \in Pieces, NEW c \in Contents, files' = [files EXCEPT ![p] = c],
         IsAtMostOne(Hooked(c)), NEW E \in SUBSET Excuses, excuses' = [excuses EXCEPT ![p] = E],
         executable' \in BOOLEAN, guarded' \in BOOLEAN,
         UNCHANGED <<scene, edits, saved, tree, index, vouched>>
  PROVE  IInv'
<1>1. run' \in [Runs -> RunStates] /\ \A q \in Runs : Sound(run[q])'
  BY RunMoves
<1>2. saved' \in [Pieces -> [content : Contents, edit : 0..edits']]
  BY SavedStaysTyped
<1>3. /\ scene' \in Scenes /\ edits' \in 0..MaxEdits /\ excuses' \in [Pieces -> SUBSET Excuses]
      /\ ({tree, index} \cup vouched)' \subseteq [source : Nat, document : Nat]
  BY DEF IInv, TypeOK
<1>4. files' \in [Pieces -> Contents] /\ HookAtMostOnce'
  BY FileIsWritten
<1> QED BY <1>1, <1>2, <1>3, <1>4, TypeFromParts

LEMMA HookedFile ==
  ASSUME IInv, NEW p \in Pieces
  PROVE  /\ files[p] \in Contents
         /\ p = "settings" => IsAtMostOne(Hooked(files[p]))
BY DEF IInv, TypeOK, HookAtMostOnce

LEMMA BeginStep == ASSUME IInv, NEW r \in Runs, Begin(r) PROVE IInv'
<1>1. PICK call \in Calls :
        run' = [run EXCEPT ![r] = [Idle EXCEPT !.at = "probe", !.pieces = call.pieces,
                                               !.force = call.force]]
  BY DEF Begin
<1> DEFINE state == [Idle EXCEPT !.at = "probe", !.pieces = call.pieces, !.force = call.force]
<1>2. call.pieces \in Seq(Pieces) /\ call.pieces # <<>> /\ call.force \in BOOLEAN
  BY CallsAssumption
<1>3. Blank \in Contents /\ IsAtMostOne(Hooked(Blank))
  BY BasicHoldsNone
<1>4. state \in RunStates /\ state.pieces # <<>> /\ state.known = 0 /\ state.text = Blank
  BY <1>2, <1>3 DEF Idle, RunStates, Places
<1>5. edits \in Nat
  BY MaxEditsAssumption DEF IInv, TypeOK
<1> HIDE DEF state
<1>6. Sound(state)
  BY <1>3, <1>4, <1>5 DEF Sound
<1> QED BY <1>1, <1>6, OnlyRunMoves DEF Begin, state

(* Where a run stands before a step of it.                                 *)
LEMMA Underway ==
  ASSUME IInv, NEW r \in Runs, run[r].at \notin {"idle", "ended"}
  PROVE  /\ Sound(run[r]) /\ run[r].pieces # <<>> /\ Piece(r) \in Pieces
         /\ run[r].progress \in BOOLEAN /\ run[r].text \in Contents /\ run[r].owed \in SUBSET Excuses
         /\ edits \in Nat
<1>1. Sound(run[r])
  BY DEF IInv
<1>2. edits \in Nat
  BY MaxEditsAssumption DEF IInv, TypeOK
<1> QED BY <1>1, <1>2, PieceIsPiece DEF Sound, RunStates

LEMMA ProbeStep == ASSUME IInv, NEW r \in Runs, Probe(r) PROVE IInv'
<1> DEFINE piece == Piece(r)
           reading == [run[r] EXCEPT !.at = "read"]
           state == IF files[piece] = Absent \/ piece = "hook"
                      THEN Decided(run[r], piece, files[piece]) ELSE reading
<1>1. run[r].at \notin {"idle", "ended"}
  BY DEF Probe, At
<1>2. Sound(Decided(run[r], piece, files[piece]))
  BY <1>1, Underway, HookedFile, DecidedIsSound
<1>3. Sound(reading)
  BY <1>1, Underway DEF Sound, RunStates, Places
<1>4. Sound(state)
  BY <1>2, <1>3
<1>5. run' = [run EXCEPT ![r] = state]
  BY DEF Probe, IInv, TypeOK
<1> HIDE DEF state
<1> QED BY <1>4, <1>5, OnlyRunMoves DEF Probe

LEMMA ReadStep == ASSUME IInv, NEW r \in Runs, Read(r) PROVE IInv'
<1> DEFINE piece == Piece(r)
           state == IF files[piece] = Absent THEN Ended(run[r], 1)
                    ELSE Decided(run[r], piece, files[piece])
<1>1. run[r].at \notin {"idle", "ended"}
  BY DEF Read, At
<1>2. Sound(Decided(run[r], piece, files[piece]))
  BY <1>1, Underway, HookedFile, DecidedIsSound
<1>3. Sound(Ended(run[r], 1))
  BY <1>1, Underway, EndedIsSound
<1>4. Sound(state)
  BY <1>2, <1>3
<1>5. run' = [run EXCEPT ![r] = state]
  BY DEF Read, IInv, TypeOK
<1> HIDE DEF state
<1> QED BY <1>4, <1>5, OnlyRunMoves DEF Read

LEMMA KilledStep == ASSUME IInv, NEW r \in Runs, Killed(r) PROVE IInv'
<1>1. Sound(Ended(run[r], 1))
  BY Underway, EndedIsSound DEF Killed
<1>2. run' = [run EXCEPT ![r] = Ended(run[r], 1)]
  BY DEF Killed
<1> QED BY <1>1, <1>2, OnlyRunMoves DEF Killed

LEMMA StaleIsExcuse == ASSUME NEW r PROVE Stale(r) \in SUBSET Excuses
BY DEF Stale, Excuses

LEMMA OpenStep == ASSUME IInv, NEW r \in Runs, Open(r) PROVE IInv'
<1> DEFINE state == [run[r] EXCEPT !.at = "fill"]
           E == excuses[Piece(r)] \cup run[r].owed \cup Stale(r)
<1>1. run[r].at \notin {"idle", "ended"}
  BY DEF Open, At
<1>2. Sound(state)
  BY <1>1, Underway DEF Sound, RunStates, Places
<1>3. Piece(r) \in Pieces /\ E \in SUBSET Excuses
  BY <1>1, Underway, StaleIsExcuse DEF IInv, TypeOK
<1>4. Blank \in Contents /\ IsAtMostOne(Hooked(Blank))
  BY BasicHoldsNone
<1>5. run' = [run EXCEPT ![r] = state] /\ excuses' = [excuses EXCEPT ![Piece(r)] = E]
  BY DEF Open
<1>6. executable' \in BOOLEAN /\ guarded' \in BOOLEAN
  BY DEF Open
<1> HIDE DEF state, E
<1> QED BY <1>2, <1>3, <1>4, <1>5, <1>6, RunWrites DEF Open

LEMMA InvalidOrText ==
  ASSUME IInv, NEW r \in Runs, run[r].at \notin {"idle", "ended"},
         NEW c \in {Absent, Blank, Invalid, run[r].text}
  PROVE  c \in Contents /\ IsAtMostOne(Hooked(c))
BY Underway, BasicHoldsNone DEF Sound

LEMMA FillStep == ASSUME IInv, NEW r \in Runs, Fill(r) PROVE IInv'
<1> DEFINE state == IF Piece(r) = "hook" THEN [run[r] EXCEPT !.at = "chmod"]
                    ELSE Continued(run[r], TRUE)
           E == excuses[Piece(r)] \cup Stale(r) \cup
                  (IF files[Piece(r)] \in {Absent, Blank, run[r].text} THEN {} ELSE {"overlap"})
<1>1. run[r].at \notin {"idle", "ended"}
  BY DEF Fill, At
<1>2. Sound([run[r] EXCEPT !.at = "chmod"])
  BY <1>1, Underway DEF Sound, RunStates, Places
<1>3. Sound(state)
  BY <1>1, <1>2, Underway, ContinuedIsSound
<1>4. Piece(r) \in Pieces /\ E \in SUBSET Excuses
  BY <1>1, Underway, StaleIsExcuse DEF IInv, TypeOK, Excuses
<1>5. PICK c \in Landing(files[Piece(r)], run[r].text) : files' = [files EXCEPT ![Piece(r)] = c]
  BY DEF Fill
<1>6. c \in Contents /\ IsAtMostOne(Hooked(c))
  BY <1>1, <1>5, InvalidOrText DEF Landing
<1>7. run' = [run EXCEPT ![r] = state] /\ excuses' = [excuses EXCEPT ![Piece(r)] = E]
  BY DEF Fill, IInv, TypeOK
<1>8. executable' \in BOOLEAN /\ guarded' \in BOOLEAN
  BY DEF Fill, IInv, TypeOK
<1> HIDE DEF state, E
<1> QED BY <1>3, <1>4, <1>5, <1>6, <1>7, <1>8, RunWrites DEF Fill

LEMMA WriteFailsStep == ASSUME IInv, NEW r \in Runs, WriteFails(r) PROVE IInv'
<1> DEFINE E == excuses[Piece(r)] \cup {"cut"}
<1>1. run[r].at \notin {"idle", "ended"}
  BY DEF WriteFails, At
<1>2. Sound(Ended(run[r], 1))
  BY <1>1, Underway, EndedIsSound
<1>3. Piece(r) \in Pieces /\ E \in SUBSET Excuses
  BY <1>1, Underway DEF IInv, TypeOK, Excuses
<1>4. PICK c \in Part(files[Piece(r)], run[r].text) : files' = [files EXCEPT ![Piece(r)] = c]
  BY DEF WriteFails
<1>5. c \in {files[Piece(r)], Invalid}
  BY <1>4 DEF Part
<1>6. run' = [run EXCEPT ![r] = Ended(run[r], 1)] /\ excuses' = [excuses EXCEPT ![Piece(r)] = E]
  BY DEF WriteFails
<1>7. executable' \in BOOLEAN /\ guarded' \in BOOLEAN
  BY DEF WriteFails, IInv, TypeOK
<1> HIDE DEF E
<1>8. CASE c = Invalid
  BY <1>2, <1>3, <1>4, <1>6, <1>7, <1>8, BasicHoldsNone, RunWrites DEF WriteFails
<1>9. CASE c = files[Piece(r)]
  <2>1. files' = files
    BY <1>4, <1>9 DEF IInv, TypeOK
  <2>2. run' \in [Runs -> RunStates] /\ \A q \in Runs : Sound(run[q])'
    BY <1>2, <1>6, RunMoves DEF WriteFails
  <2>3. saved' \in [Pieces -> [content : Contents, edit : 0..edits']]
    BY SavedStaysTyped DEF WriteFails
  <2>4. excuses' \in [Pieces -> SUBSET Excuses]
    BY <1>3, <1>6 DEF IInv, TypeOK
  <2>5. /\ scene' \in Scenes /\ files' \in [Pieces -> Contents] /\ edits' \in 0..MaxEdits
        /\ ({tree, index} \cup vouched)' \subseteq [source : Nat, document : Nat]
        /\ HookAtMostOnce'
    BY <2>1 DEF WriteFails, IInv, TypeOK, HookAtMostOnce
  <2> QED BY <1>7, <2>2, <2>3, <2>4, <2>5, TypeFromParts
<1> QED BY <1>5, <1>8, <1>9

LEMMA ChmodStep == ASSUME IInv, NEW r \in Runs, Chmod(r) PROVE IInv'
<1>1. run[r].at \notin {"idle", "ended"}
  BY DEF Chmod, At
<1>2. Sound(Ended(run[r], 1)) /\ Sound(Continued(run[r], TRUE))
  BY <1>1, Underway, EndedIsSound, ContinuedIsSound
<1>3. \/ run' = [run EXCEPT ![r] = Ended(run[r], 1)]
      \/ run' = [run EXCEPT ![r] = Continued(run[r], TRUE)]
  BY DEF Chmod
<1>4. run' \in [Runs -> RunStates] /\ \A q \in Runs : Sound(run[q])'
  BY <1>2, <1>3, RunMoves DEF Chmod
<1>5. saved' \in [Pieces -> [content : Contents, edit : 0..edits']]
  BY SavedStaysTyped DEF Chmod
<1>6. /\ scene' \in Scenes /\ files' \in [Pieces -> Contents] /\ edits' \in 0..MaxEdits
      /\ excuses' \in [Pieces -> SUBSET Excuses] /\ HookAtMostOnce'
      /\ ({tree, index} \cup vouched)' \subseteq [source : Nat, document : Nat]
  BY DEF Chmod, IInv, TypeOK, HookAtMostOnce
<1>7. executable' \in BOOLEAN /\ guarded' \in BOOLEAN
  BY DEF Chmod, IInv, TypeOK
<1> QED BY <1>4, <1>5, <1>6, <1>7, TypeFromParts

LEMMA SaveStep == ASSUME IInv, NEW p \in Pieces, Save(p) PROVE IInv'
<1>1. edits \in Nat /\ edits' = edits + 1 /\ edits' \in 0..MaxEdits
  BY MaxEditsAssumption DEF Save, IInv, TypeOK
<1>2. PICK c \in Saves[p] :
        /\ files' = [files EXCEPT ![p] = c]
        /\ saved' = [saved EXCEPT ![p] = [content |-> c, edit |-> edits + 1]]
        /\ executable' = IF p = "hook" THEN c # Absent ELSE executable
  BY DEF Save
<1>3. c \in Contents /\ (p = "settings" => IsAtMostOne(Hooked(c)))
  BY <1>2, SavesAssumption, SavedHooksAssumption
<1>4. files' \in [Pieces -> Contents]
  BY <1>2, <1>3 DEF IInv, TypeOK
<1>5. HookAtMostOnce'
  BY <1>2, <1>3 DEF IInv, TypeOK, HookAtMostOnce, Pieces
<1>6. saved' \in [Pieces -> [content : Contents, edit : 0..edits']]
  BY <1>1, <1>2, <1>3 DEF IInv, TypeOK
<1>7. run' \in [Runs -> RunStates] /\ \A q \in Runs : Sound(run[q])'
  BY <1>1 DEF Save, IInv, TypeOK, Sound, RunStates
<1>8. /\ scene' \in Scenes /\ guarded' \in BOOLEAN /\ executable' \in BOOLEAN
      /\ excuses' \in [Pieces -> SUBSET Excuses]
      /\ ({tree, index} \cup vouched)' \subseteq [source : Nat, document : Nat]
  BY <1>2 DEF Save, IInv, TypeOK
<1> QED BY <1>1, <1>4, <1>5, <1>6, <1>7, <1>8, TypeFromParts

LEMMA TreeStep == ASSUME IInv, EditSource \/ Build \/ Stage \/ Commit PROVE IInv'
<1>1. {tree, index} \cup vouched \subseteq [source : Nat, document : Nat]
  BY DEF IInv, TypeOK
<1>2. ({tree, index} \cup vouched)' \subseteq [source : Nat, document : Nat]
  BY <1>1 DEF EditSource, Build, Stage, Commit
<1>3. edits \in Nat /\ edits' \in 0..MaxEdits /\ edits <= edits' /\ edits' \in Nat
  BY MaxEditsAssumption DEF EditSource, Build, Stage, Commit, IInv, TypeOK
<1>4. /\ UNCHANGED <<scene, files, executable, run, saved, excuses>> /\ guarded' = guarded
  BY DEF EditSource, Build, Stage, Commit
<1>5. run' \in [Runs -> RunStates] /\ \A q \in Runs : Sound(run[q])'
  BY <1>3, <1>4 DEF IInv, TypeOK, Sound, RunStates
<1>6. saved' \in [Pieces -> [content : Contents, edit : 0..edits']]
  BY <1>3, <1>4 DEF IInv, TypeOK
<1>7. /\ scene' \in Scenes /\ files' \in [Pieces -> Contents] /\ executable' \in BOOLEAN
      /\ guarded' \in BOOLEAN /\ excuses' \in [Pieces -> SUBSET Excuses] /\ HookAtMostOnce'
  BY <1>4 DEF IInv, TypeOK, HookAtMostOnce
<1> QED BY <1>2, <1>3, <1>5, <1>6, <1>7, TypeFromParts

LEMMA StutterStep == ASSUME IInv, UNCHANGED vars PROVE IInv'
BY DEF vars, IInv, TypeOK, Sound, HookAtMostOnce

LEMMA StepIsSound == IInv /\ [Next]_vars => IInv'
<1> SUFFICES ASSUME IInv, [Next]_vars PROVE IInv'
  OBVIOUS
<1>1. ASSUME NEW r \in Runs,
             Begin(r) \/ Probe(r) \/ Read(r) \/ Open(r) \/ Fill(r) \/ Chmod(r)
               \/ WriteFails(r) \/ Killed(r)
      PROVE  IInv'
  BY <1>1, BeginStep, ProbeStep, ReadStep, OpenStep, FillStep, ChmodStep, WriteFailsStep, KilledStep
<1>2. ASSUME NEW p \in Pieces, Save(p) PROVE IInv'
  BY <1>2, SaveStep
<1>3. CASE EditSource \/ Build \/ Stage \/ Commit
  BY <1>3, TreeStep
<1>4. CASE UNCHANGED vars
  BY <1>4, StutterStep
<1> QED BY <1>1, <1>2, <1>3, <1>4 DEF Next

LEMMA AlwaysSound == Spec => []IInv
BY InitIsSound, StepIsSound, PTL DEF Spec

(* Every variable stays in its domain, whatever runs, saves and faults     *)
(* interleave.                                                             *)
THEOREM TypeCorrect == Spec => []TypeOK
<1>1. IInv => TypeOK
  BY DEF IInv
<1> QED BY <1>1, AlwaysSound, PTL

(* The installer never files its hook a second time: what it computes from *)
(* any text it may have read holds the hook at most once, and nothing else *)
(* is written.                                                             *)
THEOREM HookIsFiledOnce == Spec => []HookAtMostOnce
<1>1. IInv => HookAtMostOnce
  BY DEF IInv
<1> QED BY <1>1, AlwaysSound, PTL

-----------------------------------------------------------------------------
(* What the person saved survives.                                         *)

(* Writing the text over what was saved takes nothing from the person.     *)
Spares(piece, content, text) ==
  IF piece = "settings" THEN Survives(content, text) ELSE content # Edited

(* A run that looked at its piece after the last save of it, and owes no   *)
(* excuse, is about to write something that spares what was saved.         *)
Careful(state) ==
  LET piece == state.pieces[1]
  IN  /\ state.text # Absent
      /\ /\ state.at \in {"open", "fill"}
         /\ saved[piece].edit <= state.known /\ excuses[piece] = {}
         /\ state.at = "open" => state.owed = {}
         => /\ Spares(piece, saved[piece].content, state.text)
            /\ state.at = "fill" => files[piece] # Absent

Survival ==
  /\ SavedSettingsSurvive
  /\ SavedFilesSurvive
  /\ \A r \in Runs : Careful(run[r])

SInv == IInv /\ Survival

LEMMA InstallSpares ==
  ASSUME NEW s \in Contents, NEW c \in Contents, IsAtMostOne(Hooked(c)), Survives(s, c),
         c \notin {Invalid, Misshapen}, ~Drops("settings", c)
  PROVE  Survives(s, WithHook(c))
<1>1. /\ WithHook(c).kind = "object" /\ WithHook(c).rest = SettingsOf(c).rest
      /\ ToSet(SettingsOf(c).groups) \subseteq ToSet(WithHook(c).groups)
  BY HookIsFiled DEF Objects
<1>2. s.kind \notin {"invalid", "misshapen"}
  <2>1. s.kind = "invalid" => s = Invalid
    BY DEF Contents, Objects, Absent, Blank, Invalid, NotObject, Misshapen, Template, Edited
  <2>2. s.kind = "misshapen" => s = Misshapen
    BY DEF Contents, Objects, Absent, Blank, Invalid, NotObject, Misshapen, Template, Edited
  <2> QED BY <2>1, <2>2 DEF Survives
<1>3. ASSUME s.kind = "object" PROVE Survives(s, WithHook(c))
  <2>1. SettingsOf(c) = c /\ c.rest = s.rest /\ ToSet(s.groups) \subseteq ToSet(c.groups)
    BY <1>3 DEF Survives, SettingsOf
  <2> QED BY <1>1, <1>2, <2>1 DEF Survives
<1> QED BY <1>2, <1>3 DEF Survives

LEMMA WrittenIsThere ==
  ASSUME NEW piece \in Pieces, NEW c \in Contents, piece = "settings" => IsAtMostOne(Hooked(c))
  PROVE  Written(piece, c) # Absent
<1>1. WithHook(c).kind = "object"
  BY DEF WithHook, Settings
<1> QED BY <1>1 DEF Written, Absent, Template

(* A run decides on what it finds now.                                     *)
LEMMA DecidedIsCareful ==
  ASSUME SInv, NEW r \in Runs, run[r].at \notin {"idle", "ended"}
  PROVE  /\ Careful(Decided(run[r], Piece(r), files[Piece(r)]))
         /\ Decided(run[r], Piece(r), files[Piece(r)]).at # "fill"
<1> DEFINE piece == Piece(r)
           c == files[piece]
           state == run[r]
           owed == (IF state.force /\ Drops(piece, c) THEN {"forced"} ELSE {})
                     \cup (IF Writing(piece) # {} THEN {"overlap"} ELSE {})
           opening == [state EXCEPT !.at = "open", !.text = Written(piece, c), !.known = edits,
                                    !.owed = owed]
<1>1. /\ state \in RunStates /\ state.pieces # <<>> /\ piece \in Pieces /\ c \in Contents
      /\ piece = state.pieces[1] /\ state.text # Absent
      /\ piece = "settings" => IsAtMostOne(Hooked(c))
  BY Underway, HookedFile DEF SInv, Survival, Careful, Piece, Sound
<1>2. ASSUME NEW code \in {0, 1}
      PROVE  Careful(Ended(state, code)) /\ Ended(state, code).at # "fill"
  BY <1>1 DEF Ended, Careful, RunStates
<1>3. ASSUME NEW progress \in BOOLEAN
      PROVE  Careful(Continued(state, progress)) /\ Continued(state, progress).at # "fill"
  <2>1. /\ Continued(state, progress).at \in {"probe", "ended"}
        /\ Continued(state, progress).text = state.text
    BY <1>1 DEF Continued, Ended, RunStates
  <2> QED BY <1>1, <2>1 DEF Careful
<1>4. /\ opening.at = "open" /\ opening.text = Written(piece, c) /\ opening.known = edits
      /\ opening.owed = owed /\ opening.pieces[1] = piece
  BY <1>1 DEF RunStates
<1>5. Written(piece, c) # Absent
  BY <1>1, WrittenIsThere
<1>6. ASSUME ~Throws(piece, c), ~Refuses(piece, c, state.force), ~Already(piece, c, state.force)
      PROVE  Careful(opening)
  <2> SUFFICES ASSUME excuses[piece] = {}, owed = {}
               PROVE  Spares(piece, saved[piece].content, Written(piece, c))
    <3> HIDE DEF opening
    <3> QED BY <1>4, <1>5 DEF Careful
  <2>1. ~(state.force /\ Drops(piece, c)) /\ Writing(piece) = {}
    BY DEF owed
  <2>2. CASE piece = "settings"
    <3>1. Survives(saved[piece].content, c)
      BY <2>1, <2>2 DEF SInv, Survival, SavedSettingsSurvive
    <3>2. saved[piece].content \in Contents
      BY <1>1 DEF SInv, IInv, TypeOK
    <3>3. c \notin {Invalid, Misshapen}
      BY <1>6, <2>2 DEF Throws, Refuses
    <3>4. ~Drops("settings", c)
      BY <1>6, <2>1, <2>2 DEF Already, Drops
    <3>5. Survives(saved[piece].content, WithHook(c))
      BY <1>1, <2>2, <3>1, <3>2, <3>3, <3>4, InstallSpares
    <3> QED BY <2>2, <3>5 DEF Spares, Written
  <2>3. CASE piece # "settings"
    <3>1. piece \in {"skill", "hook"}
      BY <1>1, <2>3 DEF Pieces
    <3>2. saved[piece].content = Edited => c = Edited
      BY <3>1 DEF SInv, Survival, SavedFilesSurvive
    <3>3. c # Edited
      BY <1>6, <2>1, <3>1 DEF Drops, Refuses, Absent, Template, Edited
    <3> QED BY <2>3, <3>2, <3>3 DEF Spares
  <2> QED BY <2>2, <2>3
<1>7. state.progress \in BOOLEAN
  BY <1>1 DEF RunStates
<1>8. \/ Decided(state, piece, c) = Ended(state, 1)
      \/ Decided(state, piece, c) = Continued(state, state.progress)
      \/ Decided(state, piece, c) = Continued(state, TRUE)
      \/ /\ Decided(state, piece, c) = opening
         /\ ~Throws(piece, c) /\ ~Refuses(piece, c, state.force)
         /\ ~Already(piece, c, state.force)
  BY DEF Decided
<1> HIDE DEF opening, c, piece, state
<1>9. Careful(Decided(state, piece, c)) /\ Decided(state, piece, c).at # "fill"
  BY <1>2, <1>3, <1>4, <1>6, <1>7, <1>8
<1> QED BY <1>9 DEF piece, c, state

(* Steps that touch neither files nor what was saved, and no write.        *)
LEMMA QuietStep ==
  ASSUME SInv, NEW r \in Runs, NEW state, Careful(state), run[r].at # "fill", state.at # "fill",
         run' = [run EXCEPT ![r] = state], UNCHANGED <<files, saved, excuses>>
  PROVE  Survival'
<1>1. \A q \in Runs : run'[q] = IF q = r THEN state ELSE run[q]
  BY DEF SInv, IInv, TypeOK
<1>2. \A q \in Runs : run'[q].at = "fill" => q # r
  BY <1>1
<1>3. Writing("settings")' = Writing("settings")
  BY <1>1 DEF Writing, At, Piece
<1>4. \A q \in Runs : Careful(run'[q])
  BY <1>1 DEF SInv, Survival
<1>5. \A q \in Runs : Careful(run[q])'
  BY <1>4 DEF Careful, Spares
<1>6. SavedSettingsSurvive'
  BY <1>3 DEF SInv, Survival, SavedSettingsSurvive
<1>7. SavedFilesSurvive'
  BY DEF SInv, Survival, SavedFilesSurvive
<1> QED BY <1>5, <1>6, <1>7 DEF Survival

LEMMA BeginSpares == ASSUME SInv, NEW r \in Runs, Begin(r) PROVE Survival'
<1>1. PICK call \in Calls :
        run' = [run EXCEPT ![r] = [Idle EXCEPT !.at = "probe", !.pieces = call.pieces,
                                               !.force = call.force]]
  BY DEF Begin
<1> DEFINE state == [Idle EXCEPT !.at = "probe", !.pieces = call.pieces, !.force = call.force]
<1>2. state.at = "probe" /\ state.text # Absent
  BY DEF Idle, Blank, Absent
<1> HIDE DEF state
<1>3. Careful(state)
  BY <1>2 DEF Careful
<1> QED BY <1>1, <1>2, <1>3, QuietStep DEF Begin, At, state

LEMMA ProbeSpares == ASSUME SInv, NEW r \in Runs, Probe(r) PROVE Survival'
<1> DEFINE reading == [run[r] EXCEPT !.at = "read"]
           state == IF files[Piece(r)] = Absent \/ Piece(r) = "hook"
                      THEN Decided(run[r], Piece(r), files[Piece(r)]) ELSE reading
<1>1. run[r].at \notin {"idle", "ended", "fill"}
  BY DEF Probe, At
<1>2. reading.at = "read" /\ reading.text # Absent
  BY <1>1, Underway DEF SInv, Sound, RunStates, Survival, Careful
<1>3. Careful(reading)
  BY <1>2 DEF Careful
<1>4. Careful(state) /\ state.at # "fill"
  BY <1>1, <1>2, <1>3, DecidedIsCareful
<1>5. run' = [run EXCEPT ![r] = state]
  BY DEF Probe, SInv, IInv, TypeOK
<1> HIDE DEF state
<1> QED BY <1>1, <1>4, <1>5, QuietStep DEF Probe

LEMMA EndedIsCareful ==
  ASSUME SInv, NEW r \in Runs, run[r].at \notin {"idle", "ended"}
  PROVE  /\ Careful(Ended(run[r], 1)) /\ Ended(run[r], 1).at # "fill"
         /\ Careful(Continued(run[r], TRUE)) /\ Continued(run[r], TRUE).at # "fill"
<1>1. run[r] \in RunStates /\ run[r].text # Absent
  BY DEF SInv, IInv, TypeOK, Survival, Careful
<1>2. Ended(run[r], 1).at = "ended" /\ Ended(run[r], 1).text = run[r].text
  BY <1>1 DEF Ended, RunStates
<1>3. /\ Continued(run[r], TRUE).at \in {"probe", "ended"}
      /\ Continued(run[r], TRUE).text = run[r].text
  BY <1>1 DEF Continued, Ended, RunStates
<1> QED BY <1>1, <1>2, <1>3 DEF Careful

LEMMA ReadSpares == ASSUME SInv, NEW r \in Runs, Read(r) PROVE Survival'
<1> DEFINE state == IF files[Piece(r)] = Absent THEN Ended(run[r], 1)
                    ELSE Decided(run[r], Piece(r), files[Piece(r)])
<1>1. run[r].at \notin {"idle", "ended", "fill"}
  BY DEF Read, At
<1>2. Careful(state) /\ state.at # "fill"
  BY <1>1, EndedIsCareful, DecidedIsCareful
<1>3. run' = [run EXCEPT ![r] = state]
  BY DEF Read, SInv, IInv, TypeOK
<1> HIDE DEF state
<1> QED BY <1>1, <1>2, <1>3, QuietStep DEF Read

LEMMA KilledSpares == ASSUME SInv, NEW r \in Runs, Killed(r) PROVE Survival'
<1>1. Careful(Ended(run[r], 1)) /\ Ended(run[r], 1).at # "fill"
  BY EndedIsCareful DEF Killed
<1> QED BY <1>1, QuietStep DEF Killed

LEMMA ChmodSpares == ASSUME SInv, NEW r \in Runs, Chmod(r) PROVE Survival'
<1>1. run[r].at \notin {"idle", "ended", "fill"}
  BY DEF Chmod, At
<1>2. /\ Careful(Ended(run[r], 1)) /\ Ended(run[r], 1).at # "fill"
      /\ Careful(Continued(run[r], TRUE)) /\ Continued(run[r], TRUE).at # "fill"
  BY <1>1, EndedIsCareful
<1>3. UNCHANGED <<files, saved, excuses>>
  BY DEF Chmod
<1>4. CASE run' = [run EXCEPT ![r] = Ended(run[r], 1)]
  BY <1>1, <1>2, <1>3, <1>4, QuietStep
<1>5. CASE run' = [run EXCEPT ![r] = Continued(run[r], TRUE)]
  BY <1>1, <1>2, <1>3, <1>5, QuietStep
<1> QED BY <1>4, <1>5 DEF Chmod

(* A run that fills its file stands by what it looked at.                  *)
LEMMA CarefulAtFill ==
  ASSUME SInv, NEW r \in Runs, run[r].at \in {"open", "fill"}, excuses[Piece(r)] = {},
         Stale(r) = {}, run[r].at = "open" => run[r].owed = {}
  PROVE  /\ Spares(Piece(r), saved[Piece(r)].content, run[r].text)
         /\ run[r].at = "fill" => files[Piece(r)] # Absent
<1>1. run[r].known \in Nat /\ Piece(r) \in Pieces
  BY Underway DEF SInv, Sound, RunStates
<1>2. saved[Piece(r)].edit \in Nat
  BY <1>1, MaxEditsAssumption DEF SInv, IInv, TypeOK
<1>3. saved[Piece(r)].edit <= run[r].known
  BY <1>1, <1>2 DEF Stale
<1>4. Careful(run[r])
  BY DEF SInv, Survival
<1> QED BY <1>3, <1>4 DEF Careful, Piece

LEMMA OpenSpares == ASSUME SInv, NEW r \in Runs, Open(r) PROVE Survival'
<1> DEFINE p == Piece(r)
           E == excuses[p] \cup run[r].owed \cup Stale(r)
<1>1. /\ run[r].at = "open" /\ p \in Pieces /\ UNCHANGED saved
      /\ run' = [run EXCEPT ![r].at = "fill"]
      /\ files' = [files EXCEPT ![p] = Blank] /\ excuses' = [excuses EXCEPT ![p] = E]
  BY Underway DEF Open, At, SInv
<1>2. /\ \A x \in Pieces : files'[x] = IF x = p THEN Blank ELSE files[x]
      /\ \A x \in Pieces : excuses'[x] = IF x = p THEN E ELSE excuses[x]
      /\ \A q \in Runs : run'[q] = IF q = r THEN [run[r] EXCEPT !.at = "fill"] ELSE run[q]
  BY <1>1 DEF SInv, IInv, TypeOK
<1>3. run[r] \in RunStates /\ [run[r] EXCEPT !.at = "fill"] \in RunStates
  BY DEF SInv, IInv, TypeOK, RunStates, Places
<1>4. ASSUME E = {} PROVE Spares(p, saved[p].content, run[r].text)
  BY <1>1, <1>4, CarefulAtFill
<1>5. Blank # Absent /\ Blank # Edited
  BY DEF Blank, Absent, Edited
<1>6. /\ run'[r].at = "fill" /\ run'[r].pieces = run[r].pieces /\ run'[r].text = run[r].text
      /\ run'[r].known = run[r].known
  BY <1>2, <1>3 DEF RunStates
<1>7. SavedSettingsSurvive'
  <2>1. CASE p = "settings"
    <3>1. run'[r].pieces[1] = "settings"
      BY <1>6, <2>1 DEF Piece
    <3>2. r \in Writing("settings")'
      BY <1>6, <3>1 DEF Writing, At, Piece
    <3> QED BY <3>2 DEF SavedSettingsSurvive
  <2>2. CASE p # "settings"
    <3>1. Writing("settings")' = Writing("settings")
      BY <1>1, <1>2, <1>6, <2>2 DEF Writing, At, Piece
    <3>2. files'["settings"] = files["settings"] /\ excuses'["settings"] = excuses["settings"]
      BY <1>2, <2>2 DEF Pieces
    <3> QED BY <1>1, <3>1, <3>2 DEF SInv, Survival, SavedSettingsSurvive
  <2> QED BY <2>1, <2>2
<1>8. SavedFilesSurvive'
  <2> SUFFICES ASSUME NEW x \in {"skill", "hook"}, excuses'[x] = {}, saved[x].content = Edited
               PROVE  files'[x] = Edited
    BY <1>1 DEF SavedFilesSurvive
  <2>1. CASE x = p
    <3>1. E = {}
      BY <1>2, <2>1, <1>1
    <3> QED BY <1>4, <2>1, <3>1 DEF Spares
  <2>2. CASE x # p
    <3>1. x \in Pieces /\ files'[x] = files[x] /\ excuses'[x] = excuses[x]
      BY <1>2, <2>2 DEF Pieces
    <3> QED BY <3>1 DEF SInv, Survival, SavedFilesSurvive
  <2> QED BY <2>1, <2>2
<1>9. ASSUME NEW q \in Runs PROVE Careful(run[q])'
  <2> DEFINE x == run'[q].pieces[1]
  <2>0. Careful(run[q]) /\ Careful(run[r])
    BY DEF SInv, Survival
  <2>1. run'[q].text # Absent
    BY <1>2, <1>6, <2>0 DEF Careful
  <2> SUFFICES ASSUME run'[q].at \in {"open", "fill"}, saved[x].edit <= run'[q].known,
                      excuses'[x] = {}, run'[q].at = "open" => run'[q].owed = {}
               PROVE  /\ Spares(x, saved[x].content, run'[q].text)
                      /\ run'[q].at = "fill" => files'[x] # Absent
    BY <1>1, <2>1 DEF Careful, Spares
  <2>2. CASE q = r
    <3>1. x = p /\ E = {}
      BY <1>1, <1>2, <1>6, <2>2 DEF Piece
    <3> QED BY <1>1, <1>2, <1>4, <1>5, <1>6, <2>2, <3>1
  <2>3. CASE q # r
    <3>1. run'[q] = run[q] /\ x = Piece(q)
      BY <1>2, <2>3 DEF Piece
    <3>2. x \in Pieces
      BY <3>1, Underway DEF SInv
    <3>3. excuses[x] = {} /\ (files[x] # Absent => files'[x] # Absent)
      BY <1>2, <1>5, <3>2 DEF E
    <3>4. /\ Spares(x, saved[x].content, run[q].text)
          /\ run[q].at = "fill" => files[x] # Absent
      BY <2>0, <3>1, <3>3 DEF Careful, Piece
    <3> QED BY <3>1, <3>3, <3>4
  <2> QED BY <2>2, <2>3
<1> QED BY <1>7, <1>8, <1>9 DEF Survival

(* A run stops writing: it filled its file, or only a part of it.          *)
LEMMA WriteEnds ==
  ASSUME SInv, NEW r \in Runs, run[r].at = "fill",
         NEW state, state.text # Absent, state.at \notin {"open", "fill"},
         run' = [run EXCEPT ![r] = state],
         NEW c, files' = [files EXCEPT ![Piece(r)] = c], c = Absent => files[Piece(r)] = Absent,
         NEW E, excuses' = [excuses EXCEPT ![Piece(r)] = E], excuses[Piece(r)] \subseteq E,
         E = {} => c = run[r].text /\ Spares(Piece(r), saved[Piece(r)].content, run[r].text),
         UNCHANGED saved
  PROVE  Survival'
<1> DEFINE p == Piece(r)
<1>1. p \in Pieces
  BY Underway DEF SInv
<1>2. /\ \A x \in Pieces : files'[x] = IF x = p THEN c ELSE files[x]
      /\ \A x \in Pieces : excuses'[x] = IF x = p THEN E ELSE excuses[x]
      /\ \A q \in Runs : run'[q] = IF q = r THEN state ELSE run[q]
  BY DEF SInv, IInv, TypeOK
<1>3. SavedSettingsSurvive'
  <2>1. CASE p = "settings"
    BY <1>1, <1>2, <2>1 DEF SavedSettingsSurvive, Spares
  <2>2. CASE p # "settings"
    <3>1. Writing("settings")' = Writing("settings")
      BY <1>2, <2>2 DEF Writing, At, Piece
    <3>2. files'["settings"] = files["settings"] /\ excuses'["settings"] = excuses["settings"]
      BY <1>2, <2>2 DEF Pieces
    <3> QED BY <3>1, <3>2 DEF SInv, Survival, SavedSettingsSurvive
  <2> QED BY <2>1, <2>2
<1>4. SavedFilesSurvive'
  <2> SUFFICES ASSUME NEW x \in {"skill", "hook"}, excuses'[x] = {}, saved[x].content = Edited
               PROVE  files'[x] = Edited
    BY DEF SavedFilesSurvive
  <2>1. CASE x = p
    <3>1. E = {}
      BY <1>1, <1>2, <2>1
    <3> QED BY <2>1, <3>1 DEF Spares
  <2>2. CASE x # p
    <3>1. x \in Pieces /\ files'[x] = files[x] /\ excuses'[x] = excuses[x]
      BY <1>2, <2>2 DEF Pieces
    <3> QED BY <3>1 DEF SInv, Survival, SavedFilesSurvive
  <2> QED BY <2>1, <2>2
<1>5. ASSUME NEW q \in Runs PROVE Careful(run[q])'
  <2>1. CASE q = r
    <3>1. run'[q] = state
      BY <1>2, <2>1
    <3> QED BY <3>1 DEF Careful
  <2>2. CASE q # r
    <3> DEFINE x == Piece(q)
    <3>1. run'[q] = run[q] /\ Careful(run[q]) /\ run[q].text # Absent
      BY <1>2, <2>2 DEF SInv, Survival, Careful
    <3> SUFFICES ASSUME run[q].at \in {"open", "fill"}, saved[x].edit <= run[q].known,
                        excuses'[x] = {}, run[q].at = "open" => run[q].owed = {}
                 PROVE  /\ Spares(x, saved[x].content, run[q].text)
                        /\ run[q].at = "fill" => files'[x] # Absent
      BY <3>1 DEF Careful, Spares, Piece
    <3>2. x \in Pieces
      BY Underway DEF SInv
    <3>3. excuses[x] = {} /\ (files[x] # Absent => files'[x] # Absent)
      BY <1>2, <3>2
    <3>4. /\ Spares(x, saved[x].content, run[q].text)
          /\ run[q].at = "fill" => files[x] # Absent
      BY <3>1, <3>3 DEF Careful, Piece
    <3> QED BY <3>3, <3>4
  <2> QED BY <2>1, <2>2
<1> QED BY <1>3, <1>4, <1>5 DEF Survival

LEMMA FillSpares == ASSUME SInv, NEW r \in Runs, Fill(r) PROVE Survival'
<1> DEFINE p == Piece(r)
           chmod == [run[r] EXCEPT !.at = "chmod"]
           state == IF p = "hook" THEN chmod ELSE Continued(run[r], TRUE)
           E == excuses[p] \cup Stale(r) \cup
                  (IF files[p] \in {Absent, Blank, run[r].text} THEN {} ELSE {"overlap"})
<1>1. run[r].at = "fill" /\ UNCHANGED saved
  BY DEF Fill, At
<1>2. run[r] \in RunStates /\ run[r].text # Absent
  BY DEF SInv, IInv, TypeOK, Survival, Careful
<1>3. state.text # Absent /\ state.at \notin {"open", "fill"}
  BY <1>2 DEF Continued, Ended, RunStates
<1>4. PICK c \in Landing(files[p], run[r].text) : files' = [files EXCEPT ![p] = c]
  BY DEF Fill
<1>5. run' = [run EXCEPT ![r] = state] /\ excuses' = [excuses EXCEPT ![p] = E]
  BY DEF Fill, SInv, IInv, TypeOK
<1>6. c = Absent => files[p] = Absent
  BY <1>2, <1>4 DEF Landing, Absent, Invalid
<1>7. ASSUME E = {} PROVE c = run[r].text /\ Spares(p, saved[p].content, run[r].text)
  <2>1. excuses[p] = {} /\ Stale(r) = {} /\ files[p] \in {Absent, Blank, run[r].text}
    BY <1>7
  <2>2. Spares(p, saved[p].content, run[r].text) /\ files[p] # Absent
    BY <1>1, <2>1, CarefulAtFill
  <2> QED BY <1>4, <2>1, <2>2 DEF Landing
<1>8. excuses[p] \subseteq E
  OBVIOUS
<1> HIDE DEF state, E
<1> QED BY <1>1, <1>3, <1>4, <1>5, <1>6, <1>7, <1>8, WriteEnds

LEMMA WriteFailsSpares == ASSUME SInv, NEW r \in Runs, WriteFails(r) PROVE Survival'
<1> DEFINE p == Piece(r)
           state == Ended(run[r], 1)
           E == excuses[p] \cup {"cut"}
<1>1. run[r].at = "fill" /\ UNCHANGED saved
  BY DEF WriteFails, At
<1>2. run[r] \in RunStates /\ run[r].text # Absent
  BY DEF SInv, IInv, TypeOK, Survival, Careful
<1>3. state.text # Absent /\ state.at \notin {"open", "fill"}
  BY <1>2 DEF Ended, RunStates
<1>4. PICK c \in Part(files[p], run[r].text) : files' = [files EXCEPT ![p] = c]
  BY DEF WriteFails
<1>5. run' = [run EXCEPT ![r] = state] /\ excuses' = [excuses EXCEPT ![p] = E]
  BY DEF WriteFails
<1>6. c = Absent => files[p] = Absent
  BY <1>4 DEF Part, Absent, Invalid
<1>7. E # {} /\ excuses[p] \subseteq E
  OBVIOUS
<1> HIDE DEF state, E
<1> QED BY <1>1, <1>3, <1>4, <1>5, <1>6, <1>7, WriteEnds

LEMMA SaveSpares == ASSUME SInv, NEW p \in Pieces, Save(p) PROVE Survival'
<1>1. PICK c \in Saves[p] :
        /\ files' = [files EXCEPT ![p] = c]
        /\ saved' = [saved EXCEPT ![p] = [content |-> c, edit |-> edits + 1]]
  BY DEF Save
<1>2. /\ \A x \in Pieces : files'[x] = IF x = p THEN c ELSE files[x]
      /\ \A x \in Pieces :
           saved'[x] = IF x = p THEN [content |-> c, edit |-> edits + 1] ELSE saved[x]
      /\ \A x \in Pieces : x # p => excuses'[x] = excuses[x]
      /\ run' = run
  BY <1>1 DEF Save, SInv, IInv, TypeOK
<1>3. Survives(c, c)
  BY DEF Survives
<1>4. SavedSettingsSurvive'
  <2>1. CASE p = "settings"
    BY <1>2, <1>3, <2>1 DEF SavedSettingsSurvive
  <2>2. CASE p # "settings"
    <3>1. Writing("settings")' = Writing("settings")
      BY <1>2 DEF Writing, At, Piece
    <3>2. /\ files'["settings"] = files["settings"] /\ excuses'["settings"] = excuses["settings"]
          /\ saved'["settings"] = saved["settings"]
      BY <1>2, <2>2 DEF Pieces
    <3> QED BY <3>1, <3>2 DEF SInv, Survival, SavedSettingsSurvive
  <2> QED BY <2>1, <2>2
<1>5. SavedFilesSurvive'
  <2> SUFFICES ASSUME NEW x \in {"skill", "hook"}, excuses'[x] = {}, saved'[x].content = Edited
               PROVE  files'[x] = Edited
    BY DEF SavedFilesSurvive
  <2>1. x \in Pieces
    BY DEF Pieces
  <2>2. CASE x = p
    BY <1>2, <2>1, <2>2
  <2>3. CASE x # p
    BY <1>2, <2>1, <2>3 DEF SInv, Survival, SavedFilesSurvive
  <2> QED BY <2>2, <2>3
<1>6. ASSUME NEW q \in Runs PROVE Careful(run[q])'
  <2> DEFINE x == Piece(q)
  <2>1. Careful(run[q]) /\ run[q].text # Absent
    BY DEF SInv, Survival, Careful
  <2> SUFFICES ASSUME run[q].at \in {"open", "fill"}, saved'[x].edit <= run[q].known,
                      excuses'[x] = {}, run[q].at = "open" => run[q].owed = {}
               PROVE  /\ Spares(x, saved'[x].content, run[q].text)
                      /\ run[q].at = "fill" => files'[x] # Absent
    BY <1>2, <2>1 DEF Careful, Spares, Piece
  <2>2. x \in Pieces
    BY Underway DEF SInv
  <2>3. run[q].known \in Nat /\ run[q].known <= edits /\ edits \in Nat
    BY Underway DEF SInv, Sound, RunStates
  <2>4. x # p
    BY <1>2, <2>2, <2>3
  <2>5. excuses[x] = {} /\ files'[x] = files[x] /\ saved'[x] = saved[x]
    BY <1>2, <2>2, <2>4
  <2> QED BY <2>1, <2>5 DEF Careful, Piece
<1> QED BY <1>4, <1>5, <1>6 DEF Survival

LEMMA RestSpares ==
  ASSUME SInv, EditSource \/ Build \/ Stage \/ Commit \/ UNCHANGED vars
  PROVE  Survival'
<1>1. UNCHANGED <<files, run, saved, excuses>>
  BY DEF EditSource, Build, Stage, Commit, vars
<1> QED BY <1>1 DEF SInv, Survival, SavedSettingsSurvive, SavedFilesSurvive, Careful, Spares,
                    Writing, At, Piece

LEMMA InitSpares == Init => SInv
<1> SUFFICES ASSUME Init PROVE Survival
  BY InitIsSound DEF SInv
<1>1. /\ \A r \in Runs : run[r] = Idle
      /\ \A p \in Pieces : files[p] = Absent /\ saved[p].content = Absent
  BY DEF Init
<1>2. Idle.at = "idle" /\ Idle.text # Absent
  BY DEF Idle, Blank, Absent
<1>3. Survives(Absent, Absent) /\ Absent # Edited
  BY DEF Survives, Absent, Edited
<1>4. SavedSettingsSurvive /\ SavedFilesSurvive
  BY <1>1, <1>3 DEF SavedSettingsSurvive, SavedFilesSurvive, Pieces
<1>5. \A r \in Runs : Careful(run[r])
  BY <1>1, <1>2 DEF Careful
<1> QED BY <1>4, <1>5 DEF Survival

LEMMA StepSpares == SInv /\ [Next]_vars => SInv'
<1> SUFFICES ASSUME SInv, [Next]_vars PROVE SInv'
  OBVIOUS
<1>1. IInv'
  BY StepIsSound DEF SInv
<1>2. ASSUME NEW r \in Runs,
             Begin(r) \/ Probe(r) \/ Read(r) \/ Open(r) \/ Fill(r) \/ Chmod(r)
               \/ WriteFails(r) \/ Killed(r)
      PROVE  Survival'
  BY <1>2, BeginSpares, ProbeSpares, ReadSpares, OpenSpares, FillSpares, ChmodSpares,
     WriteFailsSpares, KilledSpares
<1>3. ASSUME NEW p \in Pieces, Save(p) PROVE Survival'
  BY <1>3, SaveSpares
<1>4. EditSource \/ Build \/ Stage \/ Commit \/ UNCHANGED vars => Survival'
  BY RestSpares
<1>5. Survival'
  BY <1>2, <1>3, <1>4 DEF Next
<1> QED BY <1>1, <1>5 DEF SInv

LEMMA AlwaysSpares == Spec => []SInv
BY InitSpares, StepSpares, PTL DEF Spec

(* Every key and every group of the settings a person saved is still       *)
(* there, whatever runs of the installers overlapped, were killed or       *)
(* failed: unless one looked before the save or while another wrote, was   *)
(* cut short, or was told to force a shared group away.                    *)
THEOREM SettingsSurvive == Spec => []SavedSettingsSurvive
<1>1. SInv => SavedSettingsSurvive
  BY DEF SInv, Survival
<1> QED BY <1>1, AlwaysSpares, PTL

(* A skill or a hook of the person's own is written over only by --force,  *)
(* or by a run that looked before it was saved.                            *)
THEOREM OwnFilesSurvive == Spec => []SavedFilesSurvive
<1>1. SInv => SavedFilesSurvive
  BY DEF SInv, Survival
<1> QED BY <1>1, AlwaysSpares, PTL

-----------------------------------------------------------------------------
(* The gate.                                                               *)

(* What stands behind `guarded': the script is there and git runs it.      *)
(* Nothing but the script is ever written to the hook, so a second install *)
(* still under way does not undo it.                                       *)
Gate ==
  /\ guarded => files["hook"] = Template /\ executable
  /\ \A r \in Runs : /\ run[r].at \in {"open", "fill"} /\ run[r].pieces[1] = "hook"
                     => run[r].text = Template
  /\ GuardedCommitIsCurrent

GInv == IInv /\ Gate

LEMMA GateRunMoves ==
  ASSUME GInv, NEW r \in Runs, NEW state, run' = [run EXCEPT ![r] = state],
         state.at \in {"open", "fill"} /\ state.pieces[1] = "hook" => state.text = Template,
         guarded' => files'["hook"] = Template /\ executable', UNCHANGED vouched
  PROVE  Gate'
<1>1. \A q \in Runs : run'[q] = IF q = r THEN state ELSE run[q]
  BY DEF GInv, IInv, TypeOK
<1> QED BY <1>1 DEF GInv, Gate, GuardedCommitIsCurrent

LEMMA DecidedForGate ==
  ASSUME GInv, NEW r \in Runs, run[r].at \notin {"idle", "ended"}, NEW c
  PROVE  LET state == Decided(run[r], Piece(r), c)
         IN  state.at \in {"open", "fill"} /\ state.pieces[1] = "hook" => state.text = Template
<1> DEFINE owed == (IF run[r].force /\ Drops(Piece(r), c) THEN {"forced"} ELSE {})
                     \cup (IF Writing(Piece(r)) # {} THEN {"overlap"} ELSE {})
           opening == [run[r] EXCEPT !.at = "open", !.text = Written(Piece(r), c),
                                     !.known = edits, !.owed = owed]
<1>1. run[r] \in RunStates
  BY DEF GInv, IInv, TypeOK
<1>2. opening.pieces[1] = "hook" => opening.text = Template
  BY <1>1 DEF RunStates, Piece, Written
<1>3. \A progress : Continued(run[r], progress).at \in {"probe", "ended"}
  BY <1>1 DEF Continued, Ended, RunStates
<1>4. Ended(run[r], 1).at = "ended"
  BY <1>1 DEF Ended, RunStates
<1>5. \/ Decided(run[r], Piece(r), c) = Ended(run[r], 1)
      \/ \E progress : Decided(run[r], Piece(r), c) = Continued(run[r], progress)
      \/ Decided(run[r], Piece(r), c) = opening
  BY DEF Decided
<1> HIDE DEF opening
<1> QED BY <1>2, <1>3, <1>4, <1>5

LEMMA RunKeepsGate ==
  ASSUME GInv, NEW r \in Runs,
         Begin(r) \/ Probe(r) \/ Read(r) \/ Open(r) \/ Fill(r) \/ Chmod(r) \/ WriteFails(r)
           \/ Killed(r)
  PROVE  Gate'
<1>1. /\ files \in [Pieces -> Contents] /\ run[r] \in RunStates /\ executable \in BOOLEAN
      /\ "hook" \in Pieces /\ "settings" \in Pieces /\ "skill" \in Pieces
  BY DEF GInv, IInv, TypeOK, Pieces
<1>2. guarded => files["hook"] = Template /\ executable
  BY DEF GInv, Gate
<1>3. ASSUME NEW progress
      PROVE  /\ Continued(run[r], progress).at \in {"probe", "ended"}
             /\ Ended(run[r], 1).at = "ended"
  BY <1>1 DEF Continued, Ended, RunStates
<1>4. CASE Begin(r)
  <2>1. PICK call \in Calls :
          run' = [run EXCEPT ![r] = [Idle EXCEPT !.at = "probe", !.pieces = call.pieces,
                                                 !.force = call.force]]
    BY <1>4 DEF Begin
  <2> DEFINE state == [Idle EXCEPT !.at = "probe", !.pieces = call.pieces, !.force = call.force]
  <2>2. state.at = "probe"
    BY DEF Idle
  <2> HIDE DEF state
  <2> QED BY <1>2, <1>4, <2>1, <2>2, GateRunMoves DEF Begin, state
<1>5. CASE Probe(r)
  <2> DEFINE reading == [run[r] EXCEPT !.at = "read"]
             state == IF files[Piece(r)] = Absent \/ Piece(r) = "hook"
                        THEN Decided(run[r], Piece(r), files[Piece(r)]) ELSE reading
  <2>1. reading.at = "read"
    BY <1>1 DEF RunStates
  <2>2. state.at \in {"open", "fill"} /\ state.pieces[1] = "hook" => state.text = Template
    BY <1>5, <2>1, DecidedForGate DEF Probe, At
  <2>3. run' = [run EXCEPT ![r] = state]
    BY <1>5 DEF Probe, GInv, IInv, TypeOK
  <2> HIDE DEF state
  <2> QED BY <1>2, <1>5, <2>2, <2>3, GateRunMoves DEF Probe
<1>6. CASE Read(r)
  <2> DEFINE state == IF files[Piece(r)] = Absent THEN Ended(run[r], 1)
                      ELSE Decided(run[r], Piece(r), files[Piece(r)])
  <2>1. state.at \in {"open", "fill"} /\ state.pieces[1] = "hook" => state.text = Template
    BY <1>3, <1>6, DecidedForGate DEF Read, At
  <2>2. run' = [run EXCEPT ![r] = state]
    BY <1>6 DEF Read, GInv, IInv, TypeOK
  <2> HIDE DEF state
  <2> QED BY <1>2, <1>6, <2>1, <2>2, GateRunMoves DEF Read
<1>7. CASE Open(r)
  <2> DEFINE state == [run[r] EXCEPT !.at = "fill"]
  <2>1. state.at \in {"open", "fill"} /\ state.pieces[1] = "hook" => state.text = Template
    BY <1>1, <1>7 DEF Open, At, RunStates, GInv, Gate
  <2>2. guarded' => files'["hook"] = Template /\ executable'
    BY <1>1, <1>2, <1>7 DEF Open
  <2>3. run' = [run EXCEPT ![r] = state] /\ UNCHANGED vouched
    BY <1>7 DEF Open
  <2> HIDE DEF state
  <2> QED BY <2>1, <2>2, <2>3, GateRunMoves
<1>8. CASE Fill(r)
  <2> DEFINE state == IF Piece(r) = "hook" THEN [run[r] EXCEPT !.at = "chmod"]
                      ELSE Continued(run[r], TRUE)
  <2>1. state.at \notin {"open", "fill"}
    BY <1>1, <1>3 DEF RunStates
  <2>2. PICK c \in Landing(files[Piece(r)], run[r].text) : files' = [files EXCEPT ![Piece(r)] = c]
    BY <1>8 DEF Fill
  <2>3. guarded /\ Piece(r) = "hook" => c = Template
    <3>1. Piece(r) = "hook" => run[r].text = Template
      BY <1>8 DEF Fill, At, Piece, GInv, Gate
    <3> QED BY <1>2, <2>2, <3>1 DEF Landing, Template, Absent
  <2>4. guarded' => files'["hook"] = Template /\ executable'
    BY <1>1, <1>2, <1>8, <2>2, <2>3 DEF Fill
  <2>5. run' = [run EXCEPT ![r] = state] /\ UNCHANGED vouched
    BY <1>8 DEF Fill, GInv, IInv, TypeOK
  <2> HIDE DEF state
  <2> QED BY <2>1, <2>4, <2>5, GateRunMoves
<1>9. CASE Chmod(r)
  <2>1. guarded' => files'["hook"] = Template /\ executable'
    BY <1>2, <1>9 DEF Chmod
  <2>2. \E state : run' = [run EXCEPT ![r] = state] /\ state.at \notin {"open", "fill"}
    BY <1>3, <1>9 DEF Chmod
  <2> QED BY <1>9, <2>1, <2>2, GateRunMoves DEF Chmod
<1>10. CASE WriteFails(r)
  <2>1. PICK c \in Part(files[Piece(r)], run[r].text) : files' = [files EXCEPT ![Piece(r)] = c]
    BY <1>10 DEF WriteFails
  <2>2. guarded /\ Piece(r) = "hook" => c = Template
    <3>1. Piece(r) = "hook" => run[r].text = Template
      BY <1>10 DEF WriteFails, At, Piece, GInv, Gate
    <3> QED BY <1>2, <2>1, <3>1 DEF Part
  <2>3. guarded' => files'["hook"] = Template /\ executable'
    BY <1>1, <1>2, <1>10, <2>1, <2>2 DEF WriteFails
  <2> QED BY <1>3, <1>10, <2>3, GateRunMoves DEF WriteFails
<1>11. CASE Killed(r)
  BY <1>2, <1>3, <1>11, GateRunMoves DEF Killed
<1> QED BY <1>4, <1>5, <1>6, <1>7, <1>8, <1>9, <1>10, <1>11

LEMMA CommitKeepsGate == ASSUME GInv, Commit PROVE Gate'
<1>1. PICK environment \in {"ready", "no_config", "no_tool", "too_old"}, skip \in BOOLEAN :
        /\ IsGate(files["hook"]) /\ executable => ~Blocks(environment, skip)
        /\ vouched' = IF guarded /\ index = tree /\ environment = "ready" /\ ~skip
                        THEN {index} ELSE {}
  BY DEF Commit
<1>2. GuardedCommitIsCurrent'
  <2> SUFFICES ASSUME guarded, index = tree, environment = "ready", ~skip
               PROVE  index.document = index.source
    BY <1>1 DEF GuardedCommitIsCurrent
  <2>1. IsGate(files["hook"]) /\ executable
    BY DEF GInv, Gate, IsGate
  <2>2. ~Blocks("ready", skip)
    BY <1>1, <2>1
  <2> QED BY <2>2 DEF Blocks
<1>3. UNCHANGED <<files, executable, guarded, run>>
  BY DEF Commit
<1> QED BY <1>2, <1>3 DEF GInv, Gate

LEMMA PersonKeepsGate ==
  ASSUME GInv, (\E p \in Pieces : Save(p)) \/ EditSource \/ Build \/ Stage \/ UNCHANGED vars
  PROVE  Gate'
<1>1. CASE \E p \in Pieces : Save(p)
  <2>1. PICK p \in Pieces : Save(p)
    BY <1>1
  <2>2. guarded' => files'["hook"] = Template /\ executable'
    BY <2>1 DEF Save, GInv, Gate, IInv, TypeOK, Pieces
  <2> QED BY <2>1, <2>2 DEF Save, GInv, Gate, GuardedCommitIsCurrent
<1>2. CASE EditSource \/ Build \/ Stage \/ UNCHANGED vars
  <2>1. UNCHANGED <<files, executable, guarded, run, vouched>>
    BY <1>2 DEF EditSource, Build, Stage, vars
  <2> QED BY <2>1 DEF GInv, Gate, GuardedCommitIsCurrent
<1> QED BY <1>1, <1>2

LEMMA InitOpensGate == Init => GInv
<1> SUFFICES ASSUME Init PROVE Gate
  BY InitIsSound DEF GInv
<1>1. \A r \in Runs : run[r].at = "idle"
  BY DEF Init, Idle
<1> QED BY <1>1 DEF Init, Gate, GuardedCommitIsCurrent

LEMMA StepKeepsGate == GInv /\ [Next]_vars => GInv'
<1> SUFFICES ASSUME GInv, [Next]_vars PROVE GInv'
  OBVIOUS
<1>1. IInv'
  BY StepIsSound DEF GInv
<1>2. Gate'
  BY RunKeepsGate, CommitKeepsGate, PersonKeepsGate DEF Next
<1> QED BY <1>1, <1>2 DEF GInv

LEMMA AlwaysGate == Spec => []GInv
BY InitOpensGate, StepKeepsGate, PTL DEF Spec

(* Behind an installed gate a commit of the whole tree carries a current   *)
(* document, however many installs overlapped and whichever of them was    *)
(* killed after another had succeeded.                                     *)
THEOREM GateHolds == Spec => []GuardedCommitIsCurrent
<1>1. GInv => GuardedCommitIsCurrent
  BY DEF GInv, Gate
<1> QED BY <1>1, AlwaysGate, PTL

=============================================================================
