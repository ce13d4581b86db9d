--------------------------- MODULE Visualization ---------------------------
(***************************************************************************)
(* The parameter editor of an analysis form and its visualizer: every      *)
(* change of the input discards the visualizer and makes a new one, which  *)
(* waits for a pause and then starts a thread.  That reads the parameters, *)
(* computes the supplemented input data (sid) and recreates the symbols of *)
(* the CAD model; everything it has to tell reaches the GUI thread as an   *)
(* event of its queue.                                                     *)
(***************************************************************************)
EXTENDS Naturals, Sequences

CONSTANTS
  MaxChanges, \* bound: changes of the parameters, and of the file
  Symbols,    \* names of the CAD model
  NoInput     \* a null pointer, or a symbol that does not exist

(* The versions of parameters and directory that something was made from;  *)
(* torn: the parameters were read while they changed.                      *)
Input == [params : 0 .. MaxChanges, dir : 0 .. MaxChanges, torn : BOOLEAN]

ASSUME ConstantsAssumption ==
  MaxChanges \in Nat /\ NoInput \notin Input

VARIABLES
  shown,    \* the input the editor shows
  viz,      \* viz_, the visualizer, and its thread
  inbox,    \* the GUI thread's event queue
  sid,      \* AnalysisForm::sid_
  overlay,  \* the message that the visualization failed is shown
  model,    \* the CAD model: what each symbol was made from
  gui       \* what the GUI thread does

vizVars == <<shown, viz, inbox, sid, overlay, model, gui>>

(* A thread is "started" by the timer and "finished" when status_ says so, *)
(* with the signal of its end still to be emitted.                         *)
Running == {"started", "reading", "computing", "creating"}
VizState == {"none", "armed", "finished", "done"} \union Running

Visualizer ==
  [state    : VizState,
   dir      : 0 .. MaxChanges,          \* workDir_
   input    : Input \union {NoInput},   \* read by the thread
   snapshot : SUBSET Symbols,           \* symbolsSnapshot_, when taken
   created  : SUBSET Symbols,
   ok       : BOOLEAN,                  \* the computation succeeded
   moved    : BOOLEAN]                  \* since it was made, the directory was
                                        \* changed in the workspace dialog

NewVisualizer(state, dir) ==
  [state |-> state, dir |-> dir, input |-> NoInput, snapshot |-> {},
   created |-> {}, ok |-> FALSE, moved |-> FALSE]

VizEvent ==
  [kind : {"sid"}, input : Input]
    \union [kind : {"add"}, symbol : Symbols, input : Input]
    \union [kind : {"remove"}, symbols : SUBSET Symbols]
    \union [kind : {"end"}, ok : BOOLEAN]

(* A new form shows its defaults: no change has made a visualizer yet. *)
VizInit ==
  /\ shown = [params |-> 0, dir |-> 0, torn |-> FALSE]
  /\ viz = NewVisualizer("none", 0)
  /\ inbox = <<>>
  /\ sid = NoInput
  /\ overlay = FALSE
  /\ model = [s \in Symbols |-> NoInput]
  /\ gui = "idle"

Post(event) == inbox' = Append(inbox, event)
Present == {s \in Symbols : model[s] # NoInput}
VizPending == \E i \in 1 .. Len(inbox) : inbox[i].kind \in {"sid", "add", "remove", "end"}

(* The parameters shown, in the directory the visualizer was made for. *)
Current == [params |-> shown.params, dir |-> viz.dir, torn |-> FALSE]
-----------------------------------------------------------------------------
(* The GUI thread: the timer and the user. *)

(* The events of the visualizer before were posted before this one's timer *)
(* was started, and are handled before it fires.                           *)
TimerFires ==
  /\ gui = "idle"
  /\ viz.state = "armed"
  /\ ~VizPending
  /\ viz' = [viz EXCEPT !.state = "started"]
  /\ UNCHANGED <<shown, inbox, sid, overlay, model, gui>>

(* Faulty variant: a computation that is under way is not disturbed. *)
RebuildUnlessRunning(dir) ==
  /\ viz' = IF viz.state \in Running THEN viz ELSE NewVisualizer("armed", dir)
  /\ UNCHANGED <<inbox, gui>>

(* Faulty variant: a thread is waited for that was not started yet. *)
RebuildAfterJoin(dir) ==
  \/ /\ viz.state \in Running \union {"armed"}
     /\ gui' = "stopping"
     /\ UNCHANGED <<viz, inbox>>
  \/ /\ viz.state \notin Running \union {"armed"}
     /\ viz' = NewVisualizer("armed", dir)
     /\ UNCHANGED <<inbox, gui>>

(* A thread at work is interrupted and joined: the GUI thread waits.  One  *)
(* that has finished is joined by the destructor, when the signal of its   *)
(* end finds its receiver, the visualizer, still there or gone.            *)
RebuildVisualization(dir) ==
  \/ /\ viz.state \in Running
     /\ gui' = "stopping"
     /\ UNCHANGED <<viz, inbox>>
  \/ /\ viz.state \notin Running
     /\ viz' = NewVisualizer("armed", dir)
     /\ \/ UNCHANGED inbox
        \/ viz.state = "finished" /\ Post([kind |-> "end", ok |-> viz.ok])
     /\ UNCHANGED gui

StopReturns ==
  /\ gui = "stopping"
  /\ viz.state = "done"
  /\ viz' = NewVisualizer("armed", shown.dir)
  /\ gui' = "idle"
  /\ UNCHANGED <<shown, inbox, sid, overlay, model>>

MayChange == shown.params + shown.dir < MaxChanges

OnParameterSetChanged ==
  /\ gui = "idle"
  /\ MayChange
  /\ shown' = [shown EXCEPT !.params = @ + 1]
  /\ RebuildVisualization(shown.dir)
  /\ UNCHANGED <<sid, overlay, model>>

(* Loading, or saving under another name: the sid of the old directory is  *)
(* dropped.                                                                *)
OnFileNameChanged ==
  /\ gui = "idle"
  /\ MayChange
  /\ shown' = [shown EXCEPT !.dir = @ + 1]
  /\ sid' = NoInput
  /\ RebuildVisualization(shown.dir + 1)
  /\ UNCHANGED <<overlay, model>>

(* The dialog "Setup Workspace" replaces the execution environment, and    *)
(* does nothing else: sid and visualizer stay those of the directory       *)
(* before.                                                                 *)
OnWorkspaceChanged ==
  /\ gui = "idle"
  /\ MayChange
  /\ shown' = [shown EXCEPT !.dir = @ + 1]
  /\ viz' = [viz EXCEPT !.moved = TRUE]
  /\ UNCHANGED <<inbox, sid, overlay, model, gui>>
-----------------------------------------------------------------------------
(* The GUI thread: events. *)

Handle(kind) ==
  /\ gui = "idle"
  /\ inbox # <<>>
  /\ Head(inbox).kind = kind
  /\ inbox' = Tail(inbox)
  /\ UNCHANGED <<shown, viz, gui>>

OnUpdateSupplementedInputData ==
  /\ Handle("sid")
  /\ sid' = Head(inbox).input
  /\ UNCHANGED <<overlay, model>>

AddSymbol ==
  /\ Handle("add")
  /\ model' = [model EXCEPT ![Head(inbox).symbol] = Head(inbox).input]
  /\ UNCHANGED <<sid, overlay>>

RemoveSymbols ==
  /\ Handle("remove")
  /\ model' = [s \in Symbols |-> IF s \in Head(inbox).symbols THEN NoInput ELSE model[s]]
  /\ UNCHANGED <<sid, overlay>>

ShowOutcome ==
  /\ Handle("end")
  /\ overlay' = ~Head(inbox).ok
  /\ UNCHANGED <<sid, model>>
-----------------------------------------------------------------------------
(* The thread of the visualizer. *)

(* The rebuilder notes what symbols there are; then the parameters are     *)
(* read where the editor has them.                                         *)
BeginRead ==
  /\ viz.state = "started"
  /\ viz' = [viz EXCEPT !.state = "reading", !.snapshot = Present,
                        !.input = Current]
  /\ UNCHANGED <<shown, inbox, sid, overlay, model, gui>>

EndRead ==
  /\ viz.state = "reading"
  /\ viz' = [viz EXCEPT !.state = "computing",
                        !.input.torn = viz.input.params # shown.params]
  /\ UNCHANGED <<shown, inbox, sid, overlay, model, gui>>

(* The receiver of this signal is the editor, which outlives the           *)
(* visualizer.  There is always something to signal: the visualizer of an  *)
(* analysis returns no null pointer.                                       *)
ComputeSupplementedInput ==
  /\ viz.state = "computing"
  /\ viz' = [viz EXCEPT !.state = "creating"]
  /\ Post([kind |-> "sid", input |-> viz.input])
  /\ UNCHANGED <<shown, sid, overlay, model, gui>>

CreateSymbol ==
  \E s \in Symbols \ viz.created :
    /\ viz.state = "creating"
    /\ viz' = [viz EXCEPT !.created = @ \union {s}]
    /\ Post([kind |-> "add", symbol |-> s, input |-> viz.input])
    /\ UNCHANGED <<shown, sid, overlay, model, gui>>

(* Faulty variant: what was there before is left to a rebuild that         *)
(* succeeds.                                                               *)
EndRebuildKeeping ==
  \E ok \in BOOLEAN :
    /\ viz.state = "creating" \/ (viz.state = "computing" /\ ~ok)
    /\ viz' = [viz EXCEPT !.state = "finished", !.ok = ok]
    /\ Post([kind |-> "remove",
             symbols |-> IF ok THEN Present \intersect (viz.snapshot \ viz.created) ELSE {}])
    /\ UNCHANGED <<shown, sid, overlay, model, gui>>

(* The end of the computation, an exception (an interruption is one) or    *)
(* all done: the rebuilder is destroyed, which removes the symbols not     *)
(* recreated.                                                              *)
EndRebuild ==
  \E ok \in BOOLEAN :
    /\ viz.state = "creating" \/ (viz.state = "computing" /\ ~ok)
    /\ viz' = [viz EXCEPT !.state = "finished", !.ok = ok]
    /\ Post([kind |-> "remove",
             symbols |-> Present \intersect (viz.snapshot \ viz.created)])
    /\ UNCHANGED <<shown, sid, overlay, model, gui>>

EmitEnd ==
  /\ viz.state = "finished"
  /\ viz' = [viz EXCEPT !.state = "done"]
  /\ Post([kind |-> "end", ok |-> viz.ok])
  /\ UNCHANGED <<shown, sid, overlay, model, gui>>
-----------------------------------------------------------------------------
VizThread ==
  BeginRead \/ EndRead \/ ComputeSupplementedInput \/ CreateSymbol \/ EndRebuild \/ EmitEnd

VizEvents == OnUpdateSupplementedInputData \/ AddSymbol \/ RemoveSymbols \/ ShowOutcome

Editing == OnParameterSetChanged \/ OnFileNameChanged \/ OnWorkspaceChanged

VizTypeOK ==
  /\ shown \in Input
  /\ viz \in Visualizer
  /\ sid \in Input \union {NoInput}
  /\ overlay \in BOOLEAN
  /\ model \in [Symbols -> Input \union {NoInput}]
=============================================================================
