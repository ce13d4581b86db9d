------------------------------ MODULE UndoRedo ------------------------------
(***************************************************************************)
(* The undo and redo stacks of the parameter set model.  What an undo      *)
(* state holds is not the data but dataBeforeLastChange_, a copy taken at  *)
(* the last recorded change: load, merge and structural changes are not    *)
(* recorded and leave it behind.                                           *)
(***************************************************************************)
EXTENDS Naturals, Sequences

CONSTANT MaxContent   \* bound: contents of the parameter set, 0 the defaults

ASSUME MaxContentAssumption == MaxContent \in Nat \ {0}

Content == 0 .. MaxContent

VARIABLES
  data,         \* the parameter set
  base,         \* dataBeforeLastChange_
  undoStates, redoStates,   \* the top is the head
  redoEnabled,  \* the action of the menu
  undone        \* history: what an undo has just taken back, as a sequence

undoVars == <<data, base, undoStates, redoStates, redoEnabled, undone>>

InitUndo ==
  /\ data = 0
  /\ base = 0
  /\ undoStates = <<>>
  /\ redoStates = <<>>
  /\ redoEnabled = FALSE
  /\ undone = <<>>

(* Faulty variant: the copy was moved into the undo state and is not taken *)
(* anew.                                                                   *)
RecordedWithoutCopy(content) ==
  /\ data' = content
  /\ base' = MaxContent + 1
  /\ undoStates' = <<base>> \o undoStates
  /\ redoEnabled' = FALSE
  /\ undone' = <<>>
  /\ UNCHANGED redoStates

(* handleDataChangeForUndo(), and the end of a bulk update: the redo       *)
(* action is disabled, the redo states stay.                               *)
RecordedChange(content) ==
  /\ data' = content
  /\ base' = content
  /\ undoStates' = <<base>> \o undoStates
  /\ redoEnabled' = FALSE
  /\ undone' = <<>>
  /\ UNCHANGED redoStates

(* Under an UndoRecordingBlocker, or a change of the structure.            *)
UnrecordedChange(content) ==
  /\ data' = content
  /\ undone' = <<>>
  /\ UNCHANGED <<base, undoStates, redoStates, redoEnabled>>

ApplyUndoState(content) ==
  /\ data' = content
  /\ base' = content

(* Faulty variant: the state is created after the other was applied. *)
UndoAndThenCreate ==
  /\ undoStates # <<>>
  /\ ApplyUndoState(Head(undoStates))
  /\ undoStates' = Tail(undoStates)
  /\ redoStates' = <<Head(undoStates)>> \o redoStates
  /\ redoEnabled' = TRUE
  /\ undone' = IF data = base THEN <<data>> ELSE <<>>

Undo ==
  /\ undoStates # <<>>
  /\ ApplyUndoState(Head(undoStates))
  /\ undoStates' = Tail(undoStates)
  /\ redoStates' = <<base>> \o redoStates
  /\ redoEnabled' = TRUE
  /\ undone' = IF data = base THEN <<data>> ELSE <<>>

Redo ==
  /\ redoEnabled
  /\ redoStates # <<>>
  /\ ApplyUndoState(Head(redoStates))
  /\ redoStates' = Tail(redoStates)
  /\ undoStates' = <<base>> \o undoStates
  /\ redoEnabled' = (Tail(redoStates) # <<>>)
  /\ undone' = <<>>

UndoTypeOK ==
  /\ data \in Content
  /\ base \in Content
  /\ undoStates \in Seq(Content)
  /\ redoStates \in Seq(Content)
  /\ redoEnabled \in BOOLEAN
  /\ undone \in Seq(Content)
=============================================================================
