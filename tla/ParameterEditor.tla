-------------------------- MODULE ParameterEditor --------------------------
(***************************************************************************)
(* The editor of an analysis form and its files: the flag that says there  *)
(* is something to save, the autosave file written some time after a       *)
(* change, its removal by a save or a regular exit, and the recovery from  *)
(* it when the program has died (editorwithsavablestate.cpp, and the       *)
(* dialogs of analysisform.cpp).                                           *)
(***************************************************************************)
EXTENDS UndoRedo

CONSTANTS
  Names,      \* of parameter set files
  NoName,     \* currentFileName_ is empty
  NoContent,  \* there is no such file
  Broken,     \* a file that does not hold what was written to it
  Faults      \* what may go wrong, see below

(* "kill": the program dies; "disk": a write fails, which nobody notices.  *)
ASSUME ConstantsAssumption ==
  /\ NoName \notin Names
  /\ NoContent \notin Content
  /\ Broken \notin Content \union {NoContent}
  /\ Faults \subseteq {"kill", "disk"}

VARIABLES
  app,        \* "up": there is a form
  name,       \* currentFileName_
  modified,   \* isModified_
  pending,    \* autosaveMinIntervalTimer_ is active
  files,      \* the files
  autosaves,  \* the autosave file of each
  newer,      \* whether that was written in a later second than the file
  saved,      \* the files saved since the timer was started
  fresh,      \* bound: the contents that were not used yet begin here
  astray      \* history: see Astray

diskVars == <<files, autosaves, newer>>
formVars == <<app, name, modified, pending, saved>>
vars == <<undoVars, diskVars, formVars, fresh, astray>>

OnDisk == Content \union {NoContent, Broken}

(* At first there may be files, all of one content. *)
Init ==
  /\ InitUndo
  /\ app = "down"
  /\ name = NoName
  /\ modified = FALSE
  /\ pending = FALSE
  /\ saved = {}
  /\ files \in [Names -> {NoContent, 1}]
  /\ autosaves = [n \in Names |-> NoContent]
  /\ newer = [n \in Names |-> FALSE]
  /\ fresh = 2
  /\ astray = FALSE

Up == app = "up"

(* What reopening a file can bring back. *)
Offered(n) == autosaves[n] # NoContent /\ newer[n]
Recoverable(n) == {files[n]} \union (IF Offered(n) THEN {autosaves[n]} ELSE {})
-----------------------------------------------------------------------------
(* Changes of the content. *)

(* Faulty variant: the first change starts the timer. *)
FirstModificationMade ==
  /\ modified' = TRUE
  /\ pending' = (pending \/ ~modified)
  /\ UNCHANGED saved

(* modificationMade: the timer is started.  One that runs already is       *)
(* started anew if the last autosave was recent, else it runs on.          *)
ModificationMade ==
  /\ modified' = TRUE
  /\ pending' = TRUE
  /\ saved' \in {saved, {}}

NewContent ==
  /\ Up
  /\ fresh <= MaxContent
  /\ fresh' = fresh + 1

Edit ==
  /\ NewContent
  /\ RecordedChange(fresh)
  /\ ModificationMade
  /\ UNCHANGED <<diskVars, app, name, astray>>

(* Faulty variant: the flag is blocked with the undo recording. *)
OnMergeBlocked ==
  /\ NewContent
  /\ UnrecordedChange(fresh)
  /\ UNCHANGED <<diskVars, formVars, astray>>

OnMergeParameters ==
  /\ NewContent
  /\ UnrecordedChange(fresh)
  /\ ModificationMade
  /\ UNCHANGED <<diskVars, app, name, astray>>

(* Faulty variant: an undo is not taken for a change. *)
UndoSilently ==
  /\ Up
  /\ Undo
  /\ UNCHANGED <<diskVars, formVars, fresh, astray>>

UndoAction ==
  /\ Up
  /\ Undo
  /\ ModificationMade
  /\ UNCHANGED <<diskVars, app, name, fresh, astray>>

RedoAction ==
  /\ Up
  /\ Redo
  /\ ModificationMade
  /\ UNCHANGED <<diskVars, app, name, fresh, astray>>
-----------------------------------------------------------------------------
(* Files. *)

RemoveAutosave(n) ==
  /\ autosaves' = [m \in Names |-> IF m = n THEN NoContent ELSE autosaves[m]]
  /\ newer' = [m \in Names |-> m # n /\ newer[m]]

(* saveToFile() writes in place and does not look at the outcome. *)
Written == {data} \union (IF "disk" \in Faults THEN {Broken} ELSE {})

(* saveAs(), or save() if the name is the current one; the timer runs on. *)
SaveAs(n) ==
  \E written \in Written :
    /\ Up
    /\ name' = n
    /\ files' = [files EXCEPT ![n] = written]
    /\ RemoveAutosave(n)
    /\ modified' = FALSE
    /\ saved' = IF pending THEN saved \union {n} ELSE saved
    /\ astray' = (written = Broken)
    /\ UNCHANGED <<undoVars, app, pending, fresh>>

(* The times of the two files are compared in whole seconds.  The timer    *)
(* runs for five: only one that was already running at the save can run    *)
(* out in the same second.                                                 *)
WriteAutosave(n, written) ==
  /\ autosaves' = [autosaves EXCEPT ![n] = written]
  /\ \/ newer' = [newer EXCEPT ![n] = TRUE]
     \/ n \in saved /\ newer' = [newer EXCEPT ![n] = FALSE]

(* Without a name the timer runs out in vain. *)
Autosave ==
  \E written \in Written :
    /\ Up
    /\ pending
    /\ pending' = FALSE
    /\ saved' = {}
    /\ IF name = NoName
       THEN UNCHANGED <<autosaves, newer, astray>>
       ELSE /\ WriteAutosave(name, written)
            /\ astray' = (astray \/ written = Broken)
    /\ UNCHANGED <<undoVars, files, app, name, modified, fresh>>

(* The name is taken over before the file is read. *)
LoadFails(n) ==
  /\ name' = n
  /\ astray' = TRUE
  /\ UNCHANGED <<undoVars, diskVars, modified>>

(* load(): undo recording and autosave are blocked meanwhile. *)
LoadFile(n) ==
  /\ files[n] \in Content
  /\ name' = n
  /\ UnrecordedChange(files[n])
  /\ modified' = FALSE
  /\ astray' = FALSE
  /\ UNCHANGED diskVars

(* The autosave file is loaded under the name of the other, and removed.   *)
LoadAutosave(n) ==
  /\ autosaves[n] \in Content
  /\ name' = n
  /\ UnrecordedChange(autosaves[n])
  /\ RemoveAutosave(n)
  /\ modified' = FALSE
  /\ astray' = TRUE
  /\ UNCHANGED files

(* The user is asked which of the two to load, if the autosave file is     *)
(* newer, and before that whether to save or to discard what there is.     *)
LoadParameters(n) ==
  /\ Up
  /\ files[n] # NoContent
  /\ \/ LoadFile(n)
     \/ files[n] = Broken /\ LoadFails(n)
     \/ Offered(n) /\ LoadAutosave(n)
     \/ Offered(n) /\ autosaves[n] = Broken /\ LoadFails(n)
  /\ UNCHANGED <<app, pending, saved, fresh>>
-----------------------------------------------------------------------------
(* The form. *)

NewForm ==
  /\ app = "down"
  /\ app' = "up"
  /\ UNCHANGED <<undoVars, diskVars, name, modified, pending, saved, fresh, astray>>

Gone ==
  /\ app' = "down"
  /\ name' = NoName
  /\ modified' = FALSE
  /\ pending' = FALSE
  /\ saved' = {}
  /\ astray' = FALSE
  /\ data' = 0 /\ base' = 0
  /\ undoStates' = <<>> /\ redoStates' = <<>>
  /\ redoEnabled' = FALSE /\ undone' = <<>>

(* closeEvent(), when the user has saved or will not.                      *)
Close ==
  /\ Up
  /\ Gone
  /\ RemoveAutosave(name)
  /\ UNCHANGED <<files, fresh>>

(* The program may die in the middle of a write. *)
Die ==
  /\ "kill" \in Faults
  /\ Up
  /\ Gone
  /\ \/ UNCHANGED diskVars
     \/ \E n \in Names : files' = [files EXCEPT ![n] = Broken] /\ UNCHANGED <<autosaves, newer>>
     \/ /\ pending /\ name # NoName
        /\ WriteAutosave(name, Broken)
        /\ UNCHANGED files
  /\ UNCHANGED fresh
-----------------------------------------------------------------------------
Changes == Edit \/ OnMergeParameters \/ UndoAction \/ RedoAction

Files == \E n \in Names : SaveAs(n) \/ LoadParameters(n)

Next == Changes \/ Files \/ Autosave \/ NewForm \/ Close \/ Die

Spec == Init /\ [][Next]_vars

(* The timer runs out: half a minute after the last autosave no change      *)
(* starts it anew.                                                         *)
FairSpec == Spec /\ WF_vars(Autosave)
-----------------------------------------------------------------------------
TypeOK ==
  /\ UndoTypeOK
  /\ app \in {"up", "down"}
  /\ name \in Names \union {NoName}
  /\ modified \in BOOLEAN /\ pending \in BOOLEAN /\ astray \in BOOLEAN
  /\ files \in [Names -> OnDisk]
  /\ autosaves \in [Names -> OnDisk]
  /\ newer \in [Names -> BOOLEAN]
  /\ saved \subseteq Names
  /\ fresh \in 2 .. MaxContent + 1

Named == Up /\ name # NoName

(* A form that has nothing to save shows what its file holds: no edit,     *)
(* merge, undo or redo escapes the flag, whatever was saved, loaded or     *)
(* lost in between (editorwithsavablestate.cpp 46-57, 97-123).  Astray: it *)
(* was recovered from an autosave file, the load of its file failed, or a  *)
(* write did.                                                              *)
FlagIsTrue == Named /\ ~modified /\ ~astray => files[name] = data

(* The autosave file holds the content, but is not offered: it was written *)
(* in the second of a save (analysisform.cpp:790).                         *)
Concealed == autosaves[name] = data /\ ~newer[name]

(* When no timer runs, the program may die and nothing is lost: the        *)
(* content can be brought back from the file or the autosave file that     *)
(* reopening it offers (analysisform.cpp 136-156, 783-803), or else is     *)
(* concealed in that.                                                      *)
RecoverableWhenQuiet ==
  Named /\ ~pending /\ ~astray => data \in Recoverable(name) \/ Concealed

(* And time and again that is so, however long the user goes on.           *)
SoonRecoverable ==
  []<>(~Named \/ astray \/ data \in Recoverable(name) \/ Concealed)

(* Redo gives back what the undo before it has taken away, unless          *)
(* something unrecorded, as a load or a merge, lies before it              *)
(* (iqundoredostack.cpp 160-215, iqhierarchicaldatamodel.cpp 161-186).     *)
RedoReturns ==
  [][undone # <<>> /\ Up /\ app' = "up" /\ redoStates # <<>> /\ redoStates' = Tail(redoStates)
       => data' = undone[1]]_vars
=============================================================================
