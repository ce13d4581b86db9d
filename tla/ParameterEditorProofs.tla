----------------------- MODULE ParameterEditorProofs -----------------------
(***************************************************************************)
(* What holds of ParameterEditor for every number of contents and names,   *)
(* and whatever goes wrong.                                                *)
(***************************************************************************)
EXTENDS ParameterEditor, TLAPS

(* Without a form there is no file name; and what an undo has just taken   *)
(* back is on top of the redo states.                                      *)
FormInv ==
  /\ app = "down" => name = NoName
  /\ undone # <<>> => redoStates # <<>> /\ redoStates[1] = undone[1]

Inv == TypeOK /\ FormInv /\ FlagIsTrue /\ RecoverableWhenQuiet

-----------------------------------------------------------------------------
(* The stacks. *)

LEMMA ContentType ==
  /\ MaxContent \in Nat /\ 0 \in Content /\ 1 \in Content
  /\ fresh \in 2 .. MaxContent + 1 /\ fresh <= MaxContent => fresh \in Content
  /\ NoContent \notin Content /\ Broken \notin Content
BY MaxContentAssumption, ConstantsAssumption DEF Content

LEMMA ShortStacks ==
  <<>> \in Seq(Content) /\ \A x \in Content : <<x>> \in Seq(Content)
OBVIOUS

LEMMA PushTop ==
  ASSUME NEW x \in Content, NEW s \in Seq(Content)
  PROVE  /\ <<x>> \o s \in Seq(Content) /\ <<x>> \o s # <<>>
         /\ (<<x>> \o s)[1] = x /\ Len(<<x>> \o s) = Len(s) + 1
OBVIOUS

LEMMA PopTop ==
  ASSUME NEW s \in Seq(Content), s # <<>>
  PROVE  /\ Head(s) \in Content /\ Tail(s) \in Seq(Content)
         /\ Head(s) = s[1] /\ Len(Tail(s)) = Len(s) - 1 /\ Len(s) \in Nat
OBVIOUS

(* An undo and a redo keep the types and the top of the redo states.       *)
LEMMA UndoStep ==
  ASSUME UndoTypeOK, Undo
  PROVE  UndoTypeOK' /\ (undone' # <<>> => redoStates' # <<>> /\ redoStates'[1] = undone'[1])
<1>1. /\ data \in Content /\ base \in Content
      /\ undoStates \in Seq(Content) /\ redoStates \in Seq(Content)
      /\ undoStates # <<>>
  BY DEF UndoTypeOK, Undo
<1>2. Head(undoStates) \in Content /\ Tail(undoStates) \in Seq(Content)
  BY <1>1, PopTop
<1>3. /\ redoStates' \in Seq(Content) /\ redoStates' # <<>> /\ redoStates'[1] = base
  BY <1>1, PushTop DEF Undo
<1>4. undone' = <<>> \/ (undone' = <<data>> /\ data = base)
  BY DEF Undo
<1>5. undone' \in Seq(Content)
  BY <1>1, <1>4, ShortStacks
<1>6. undone' # <<>> => undone'[1] = base
  BY <1>4
<1> QED BY <1>1, <1>2, <1>3, <1>5, <1>6 DEF UndoTypeOK, Undo, ApplyUndoState

LEMMA RedoStep ==
  ASSUME UndoTypeOK, Redo
  PROVE  UndoTypeOK' /\ undone' = <<>>
<1>1. /\ base \in Content
      /\ undoStates \in Seq(Content) /\ redoStates \in Seq(Content)
      /\ redoStates # <<>>
  BY DEF UndoTypeOK, Redo
<1>2. Head(redoStates) \in Content /\ Tail(redoStates) \in Seq(Content)
  BY <1>1, PopTop
<1>3. undoStates' \in Seq(Content)
  BY <1>1, PushTop DEF Redo
<1> QED BY <1>1, <1>2, <1>3 DEF UndoTypeOK, Redo, ApplyUndoState

LEMMA RecordedStep ==
  ASSUME UndoTypeOK, NEW c \in Content, RecordedChange(c)
  PROVE  UndoTypeOK' /\ undone' = <<>>
<1>1. undoStates' \in Seq(Content)
  BY PushTop DEF UndoTypeOK, RecordedChange
<1>2. data' \in Content /\ base' \in Content /\ undone' = <<>> /\ undone' \in Seq(Content)
  BY ShortStacks DEF RecordedChange
<1>3. redoStates' \in Seq(Content) /\ redoEnabled' \in BOOLEAN
  BY DEF UndoTypeOK, RecordedChange
<1> QED BY <1>1, <1>2, <1>3 DEF UndoTypeOK

LEMMA UnrecordedStep ==
  ASSUME UndoTypeOK, NEW c \in Content, UnrecordedChange(c)
  PROVE  UndoTypeOK' /\ undone' = <<>>
BY DEF UndoTypeOK, UnrecordedChange

-----------------------------------------------------------------------------
(* The invariant: one lemma for each kind of action. *)

LEMMA InvInit == Init => Inv
<1> SUFFICES ASSUME Init PROVE Inv
  OBVIOUS
<1>1. UndoTypeOK
  BY ContentType, ShortStacks DEF Init, InitUndo, UndoTypeOK
<1>2. TypeOK
  <2>1. NoContent \in OnDisk /\ 1 \in OnDisk
    BY ContentType DEF OnDisk
  <2>2. files \in [Names -> OnDisk] /\ autosaves \in [Names -> OnDisk]
    BY <2>1 DEF Init
  <2>3. fresh \in 2 .. MaxContent + 1
    BY MaxContentAssumption DEF Init
  <2> QED BY <1>1, <2>2, <2>3 DEF Init, TypeOK
<1>3. ~Named
  BY DEF Init, Named, Up
<1> QED BY <1>2, <1>3 DEF Init, InitUndo, Inv, FormInv, FlagIsTrue, RecoverableWhenQuiet

LEMMA ChangesInv == Inv /\ Changes => Inv'
<1> SUFFICES ASSUME Inv, Changes PROVE Inv'
  OBVIOUS
<1>1. UndoTypeOK /\ fresh \in 2 .. MaxContent + 1
  BY DEF Inv, TypeOK
<1>2. /\ UNCHANGED <<diskVars, app, name, astray>> /\ modified' = TRUE /\ pending' = TRUE
      /\ saved' \in {saved, {}} /\ app = "up"
  BY DEF Changes, Edit, OnMergeParameters, UndoAction, RedoAction, NewContent,
         ModificationMade, Up
<1>3. /\ UndoTypeOK' /\ fresh' \in 2 .. MaxContent + 1
      /\ undone' # <<>> => redoStates' # <<>> /\ redoStates'[1] = undone'[1]
  <2>1. CASE Edit
    <3>1. fresh \in Content /\ fresh' \in 2 .. MaxContent + 1
      BY <1>1, <2>1, ContentType DEF Edit, NewContent
    <3> QED BY <1>1, <2>1, <3>1, RecordedStep DEF Edit
  <2>2. CASE OnMergeParameters
    <3>1. fresh \in Content /\ fresh' \in 2 .. MaxContent + 1
      BY <1>1, <2>2, ContentType DEF OnMergeParameters, NewContent
    <3> QED BY <1>1, <2>2, <3>1, UnrecordedStep DEF OnMergeParameters
  <2>3. CASE UndoAction
    BY <1>1, <2>3, UndoStep DEF UndoAction
  <2>4. CASE RedoAction
    BY <1>1, <2>4, RedoStep DEF RedoAction
  <2> QED BY <2>1, <2>2, <2>3, <2>4 DEF Changes
<1>4. TypeOK'
  <2>1. saved' \subseteq Names
    BY <1>2 DEF Inv, TypeOK
  <2> QED BY <1>2, <1>3, <2>1 DEF Inv, TypeOK, diskVars
<1> QED BY <1>2, <1>3, <1>4 DEF Inv, FormInv, FlagIsTrue, RecoverableWhenQuiet

LEMMA RemoveType ==
  ASSUME TypeOK, NEW n, RemoveAutosave(n)
  PROVE  autosaves' \in [Names -> OnDisk] /\ newer' \in [Names -> BOOLEAN]
BY DEF TypeOK, RemoveAutosave, OnDisk

LEMMA SaveInv ==
  ASSUME Inv, NEW n \in Names, SaveAs(n)
  PROVE  Inv'
<1>1. PICK written \in Written :
        /\ files' = [files EXCEPT ![n] = written]
        /\ saved' = IF pending THEN saved \union {n} ELSE saved
        /\ astray' = (written = Broken)
  BY DEF SaveAs
<1>2. /\ TypeOK /\ name' = n /\ modified' = FALSE /\ RemoveAutosave(n)
      /\ Up /\ UNCHANGED <<undoVars, app, pending, fresh>>
  BY DEF SaveAs, Inv
<1>3. data \in Content /\ n # NoName /\ n \in Names
  BY <1>2, ConstantsAssumption DEF TypeOK, UndoTypeOK
<1>4. written = Broken \/ written = data
  BY <1>1 DEF Written
<1>5. TypeOK'
  BY <1>1, <1>2, <1>3, <1>4, RemoveType DEF TypeOK, UndoTypeOK, undoVars, OnDisk
<1>6. /\ files'[n] = written
      /\ ~astray' => written = data /\ files'[n] = data'
  BY <1>1, <1>2, <1>4 DEF TypeOK, undoVars
<1>7. FlagIsTrue' /\ RecoverableWhenQuiet'
  BY <1>2, <1>6 DEF FlagIsTrue, RecoverableWhenQuiet, Recoverable
<1>8. FormInv'
  BY <1>2 DEF Inv, FormInv, undoVars, Up
<1> QED BY <1>5, <1>7, <1>8 DEF Inv

LEMMA WriteType ==
  ASSUME TypeOK, NEW n \in Names, NEW written \in OnDisk, WriteAutosave(n, written)
  PROVE  /\ autosaves' \in [Names -> OnDisk] /\ newer' \in [Names -> BOOLEAN]
         /\ autosaves'[n] = written
BY DEF TypeOK, WriteAutosave

LEMMA AutosaveInv == Inv /\ Autosave => Inv'
<1> SUFFICES ASSUME Inv, Autosave PROVE Inv'
  OBVIOUS
<1>1. PICK written \in Written :
        IF name = NoName
        THEN UNCHANGED <<autosaves, newer, astray>>
        ELSE /\ WriteAutosave(name, written)
             /\ astray' = (astray \/ written = Broken)
  BY DEF Autosave
<1>2. /\ TypeOK /\ UNCHANGED <<undoVars, files, app, name, modified, fresh>>
      /\ pending' = FALSE /\ saved' = {}
  BY DEF Autosave, Inv
<1>3. data \in Content /\ written \in OnDisk
  BY <1>1, <1>2 DEF TypeOK, UndoTypeOK, Written, OnDisk
<1>4. ASSUME name # NoName
      PROVE  /\ name \in Names /\ autosaves' \in [Names -> OnDisk]
             /\ newer' \in [Names -> BOOLEAN] /\ autosaves'[name] = written
  <2>1. name \in Names
    BY <1>2, <1>4 DEF TypeOK
  <2> QED BY <1>1, <1>2, <1>3, <1>4, <2>1, WriteType
<1>5. TypeOK'
  BY <1>1, <1>2, <1>3, <1>4 DEF TypeOK, UndoTypeOK, undoVars
<1>6. FormInv' /\ FlagIsTrue'
  BY <1>1, <1>2 DEF Inv, FormInv, FlagIsTrue, Named, Up, undoVars
<1>7. RecoverableWhenQuiet'
  <2> SUFFICES ASSUME Named', ~astray'
               PROVE  (data \in Recoverable(name) \/ Concealed)'
    BY DEF RecoverableWhenQuiet
  <2>1. name # NoName /\ name' = name /\ data' = data
    BY <1>2 DEF Named, undoVars
  <2>2. written = data /\ autosaves'[name] = data
    BY <1>1, <1>4, <2>1 DEF Written
  <2>3. data # NoContent
    BY <1>3, ContentType
  <2>4. CASE newer'[name]
    BY <2>1, <2>2, <2>3, <2>4 DEF Recoverable, Offered
  <2>5. CASE ~newer'[name]
    BY <2>1, <2>2, <2>5 DEF Concealed
  <2> QED BY <2>4, <2>5
<1> QED BY <1>5, <1>6, <1>7 DEF Inv

LEMMA LoadInv ==
  ASSUME Inv, NEW n \in Names, LoadParameters(n)
  PROVE  Inv'
<1>1. TypeOK /\ UndoTypeOK /\ Up /\ UNCHANGED <<app, pending, saved, fresh>>
  BY DEF LoadParameters, Inv, TypeOK
<1>2. n # NoName
  BY ConstantsAssumption
<1>3. CASE LoadFile(n)
  <2>1. /\ files[n] \in Content /\ name' = n /\ UnrecordedChange(files[n])
        /\ modified' = FALSE /\ astray' = FALSE /\ UNCHANGED diskVars
    BY <1>3 DEF LoadFile
  <2>2. UndoTypeOK' /\ undone' = <<>> /\ data' = files[n]
    BY <1>1, <2>1, UnrecordedStep DEF UnrecordedChange
  <2>3. TypeOK'
    BY <1>1, <2>1, <2>2 DEF TypeOK, diskVars
  <2>4. FlagIsTrue' /\ RecoverableWhenQuiet'
    BY <2>1, <2>2 DEF FlagIsTrue, RecoverableWhenQuiet, Recoverable, diskVars
  <2> QED BY <1>1, <2>2, <2>3, <2>4 DEF Inv, FormInv, Up
<1>4. CASE LoadAutosave(n)
  <2>1. /\ autosaves[n] \in Content /\ name' = n /\ UnrecordedChange(autosaves[n])
        /\ modified' = FALSE /\ astray' = TRUE /\ UNCHANGED files /\ RemoveAutosave(n)
    BY <1>4 DEF LoadAutosave
  <2>2. UndoTypeOK' /\ undone' = <<>>
    BY <1>1, <2>1, UnrecordedStep
  <2>3. TypeOK'
    BY <1>1, <2>1, <2>2, RemoveType DEF TypeOK
  <2> QED BY <1>1, <2>1, <2>2, <2>3 DEF Inv, FormInv, FlagIsTrue, RecoverableWhenQuiet, Up
<1>5. CASE LoadFails(n)
  <2>1. name' = n /\ astray' = TRUE /\ UNCHANGED <<undoVars, diskVars, modified>>
    BY <1>5 DEF LoadFails
  <2>2. TypeOK'
    BY <1>1, <2>1 DEF TypeOK, UndoTypeOK, undoVars, diskVars
  <2> QED BY <1>1, <2>1, <2>2 DEF Inv, FormInv, FlagIsTrue, RecoverableWhenQuiet, Up, undoVars
<1> QED BY <1>3, <1>4, <1>5 DEF LoadParameters

LEMMA NewFormInv == Inv /\ NewForm => Inv'
<1> SUFFICES ASSUME Inv, NewForm PROVE Inv'
  OBVIOUS
<1>1. /\ app = "down" /\ app' = "up"
      /\ UNCHANGED <<undoVars, diskVars, name, modified, pending, saved, fresh, astray>>
  BY DEF NewForm
<1>2. TypeOK'
  BY <1>1 DEF Inv, TypeOK, UndoTypeOK, undoVars, diskVars
<1>3. ~Named'
  BY <1>1 DEF Inv, FormInv, Named
<1> QED BY <1>1, <1>2, <1>3 DEF Inv, FormInv, FlagIsTrue, RecoverableWhenQuiet, undoVars

(* The form goes, regularly or not. *)
LEMMA GoneInv == Inv /\ (Close \/ Die) => Inv'
<1> SUFFICES ASSUME Inv, Close \/ Die PROVE Inv'
  OBVIOUS
<1>1. Gone /\ TypeOK /\ fresh' = fresh
  BY DEF Close, Die, Inv
<1>2. /\ UndoTypeOK' /\ undone' = <<>> /\ app' = "down" /\ name' = NoName
      /\ modified' = FALSE /\ pending' = FALSE /\ saved' = {} /\ astray' = FALSE
  BY <1>1, ContentType, ShortStacks DEF Gone, UndoTypeOK
<1>3. /\ files' \in [Names -> OnDisk] /\ autosaves' \in [Names -> OnDisk]
      /\ newer' \in [Names -> BOOLEAN]
  <2>1. CASE Close
    BY <1>1, <2>1, RemoveType DEF Close, TypeOK
  <2>2. CASE Die
    <3>1. CASE UNCHANGED diskVars
      BY <1>1, <3>1 DEF TypeOK, diskVars
    <3>2. CASE \E n \in Names : /\ files' = [files EXCEPT ![n] = Broken]
                               /\ UNCHANGED <<autosaves, newer>>
      BY <1>1, <3>2 DEF TypeOK, OnDisk
    <3>3. CASE name # NoName /\ WriteAutosave(name, Broken) /\ UNCHANGED files
      <4>1. name \in Names /\ Broken \in OnDisk
        BY <1>1, <3>3 DEF TypeOK, OnDisk
      <4> QED BY <1>1, <3>3, <4>1, WriteType DEF TypeOK
    <3> QED BY <2>2, <3>1, <3>2, <3>3 DEF Die
  <2> QED BY <2>1, <2>2
<1>4. TypeOK'
  BY <1>1, <1>2, <1>3 DEF TypeOK
<1> QED BY <1>2, <1>4 DEF Inv, FormInv, FlagIsTrue, RecoverableWhenQuiet, Named, Up

LEMMA InvNext == Inv /\ [Next]_vars => Inv'
<1> SUFFICES ASSUME Inv, [Next]_vars PROVE Inv'
  OBVIOUS
<1>1. CASE UNCHANGED vars
  <2>1. TypeOK'
    BY <1>1 DEF Inv, TypeOK, UndoTypeOK, vars, undoVars, diskVars, formVars
  <2> QED BY <1>1, <2>1 DEF Inv, FormInv, FlagIsTrue, RecoverableWhenQuiet, Named, Up,
             Recoverable, Offered, Concealed, vars, undoVars, diskVars, formVars
<1>2. CASE Next
  BY <1>2, ChangesInv, SaveInv, LoadInv, AutosaveInv, NewFormInv, GoneInv DEF Next, Files
<1> QED BY <1>1, <1>2

LEMMA Invariant == Spec => []Inv
BY InvInit, InvNext, PTL DEF Spec

-----------------------------------------------------------------------------
(* The editor never leaves its states. *)
THEOREM TypeCorrect == Spec => []TypeOK
<1>1. Inv => TypeOK
  BY DEF Inv
<1> QED BY Invariant, <1>1, PTL

(* A form that shows no modification shows what its file holds, however    *)
(* often it was edited, merged into, undone, saved or loaded before.       *)
THEOREM NothingUnsaved == Spec => []FlagIsTrue
<1>1. Inv => FlagIsTrue
  BY DEF Inv
<1> QED BY Invariant, <1>1, PTL

(* When the autosave timer is not running, the death of the program loses  *)
(* nothing of a form with a name.                                          *)
THEOREM NothingLost == Spec => []RecoverableWhenQuiet
<1>1. Inv => RecoverableWhenQuiet
  BY DEF Inv
<1> QED BY Invariant, <1>1, PTL

(* The step after an undo that takes a state off the redo stack shows      *)
(* again what that undo has taken away.                                    *)
THEOREM RedoUndoesUndo == Spec => RedoReturns
<1>1. ASSUME Inv, [Next]_vars, undone # <<>>, Up, app' = "up", redoStates # <<>>,
             redoStates' = Tail(redoStates)
      PROVE  data' = undone[1]
  <2>1. /\ redoStates \in Seq(Content) /\ base \in Content /\ redoStates[1] = undone[1]
    BY <1>1 DEF Inv, TypeOK, UndoTypeOK, FormInv
  <2>2. /\ redoStates' # redoStates /\ redoStates' # <<base>> \o redoStates
        /\ Head(redoStates) = redoStates[1]
    <3>1. Len(redoStates') = Len(redoStates) - 1 /\ Len(redoStates) \in Nat
      BY <1>1, <2>1, PopTop
    <3>2. Len(<<base>> \o redoStates) = Len(redoStates) + 1
      BY <2>1, PushTop
    <3>3. redoStates' # redoStates
      BY <3>1
    <3>4. redoStates' # <<base>> \o redoStates
      BY <3>1, <3>2
    <3> QED BY <1>1, <2>1, <3>3, <3>4, PopTop
  <2>3. ~Undo /\ \A c : ~RecordedChange(c) /\ ~UnrecordedChange(c)
    BY <2>2 DEF Undo, RecordedChange, UnrecordedChange
  <2>4. ~UNCHANGED undoVars /\ ~Gone
    BY <1>1, <2>2 DEF undoVars, Gone
  <2>5. Redo
    <3>1. ~UNCHANGED vars
      BY <2>4 DEF vars
    <3>2. ~(Edit \/ OnMergeParameters \/ UndoAction)
      BY <2>3 DEF Edit, OnMergeParameters, UndoAction
    <3>3. ~\E n \in Names : SaveAs(n) \/ LoadParameters(n)
      BY <2>3, <2>4 DEF SaveAs, LoadParameters, LoadFile, LoadAutosave, LoadFails
    <3>4. ~(Autosave \/ NewForm \/ Close \/ Die)
      BY <2>4 DEF Autosave, NewForm, Close, Die
    <3> QED BY <1>1, <3>1, <3>2, <3>3, <3>4 DEF Next, Changes, Files, RedoAction
  <2> QED BY <2>1, <2>2, <2>5 DEF Redo, ApplyUndoState
<1>2. Inv /\ [Next]_vars => [undone # <<>> /\ Up /\ app' = "up" /\ redoStates # <<>>
        /\ redoStates' = Tail(redoStates) => data' = undone[1]]_vars
  BY <1>1
<1> QED BY Invariant, <1>2, PTL DEF Spec, RedoReturns
=============================================================================
