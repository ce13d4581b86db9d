------------------------------ MODULE LocalRun ------------------------------
(***************************************************************************)
(* A local run of the workbench: an analysis in a thread of the            *)
(* application, owned by the analysis form beside the visualizer of its    *)
(* parameter editor.  The form hands it the supplemented input data the    *)
(* visualizer has computed last, or else a pointer to the parameters; the  *)
(* thread tells the end by an event, and the form then deletes the run.    *)
(***************************************************************************)
EXTENDS Visualization

VARIABLE run   \* currentWorkbenchAction_, and its thread

vars == <<vizVars, run>>

Outcome == {"finished", "failed", "cancelled"}

(* A run without sid is given the directory, and first reads the parameters *)
(* in its thread; "ended": the thread is over, its event not handled.       *)
Run == [state     : {"none", "starting", "reading", "working", "ended"},
        interrupt : BOOLEAN,
        input     : Input \union {NoInput}]

NoRun == [state |-> "none", interrupt |-> FALSE, input |-> NoInput]

RunThreadAlive == run.state \in {"starting", "reading", "working"}

Init == VizInit /\ run = NoRun
-----------------------------------------------------------------------------
(* The form, in the GUI thread. *)

OnRunAnalysis ==
  /\ gui = "idle"
  /\ run.state = "none"
  /\ run' = IF sid # NoInput
            THEN [state |-> "working", interrupt |-> FALSE, input |-> sid]
            ELSE [state |-> "starting", interrupt |-> FALSE, input |-> shown]
  /\ UNCHANGED vizVars

(* Faulty variant: the form is told at once, as a remote run does. *)
OnCancelAtOnce ==
  /\ gui = "idle"
  /\ run.state # "none"
  /\ run' = [run EXCEPT !.interrupt = TRUE]
  /\ Post([kind |-> "run", outcome |-> "cancelled"])
  /\ UNCHANGED <<shown, viz, sid, overlay, model, gui>>

OnCancel ==
  /\ gui = "idle"
  /\ run.state # "none"
  /\ run' = [run EXCEPT !.interrupt = TRUE]
  /\ UNCHANGED vizVars

(* Faulty variant: deleted, but not forgotten. *)
OnRunEndedKeeping ==
  /\ gui = "idle"
  /\ inbox # <<>>
  /\ Head(inbox).kind = "run"
  /\ inbox' = Tail(inbox)
  /\ run' = [run EXCEPT !.state = "deleted"]
  /\ UNCHANGED <<shown, viz, sid, overlay, model, gui>>

(* onResultReady() takes the results from the action without asking        *)
(* whether there is one; the others only reset it.                         *)
OnRunEnded ==
  /\ gui = "idle"
  /\ inbox # <<>>
  /\ Head(inbox).kind = "run"
  /\ inbox' = Tail(inbox)
  /\ IF Head(inbox).outcome = "finished" /\ run.state = "none"
     THEN gui' = "crashed" /\ UNCHANGED run
     ELSE run' = NoRun /\ UNCHANGED gui
  /\ UNCHANGED <<shown, viz, sid, overlay, model>>

(* Closing the form only posts its deletion: until that is handled, what   *)
(* was in the queue before is.                                             *)
Deleted == \E i \in 1 .. Len(inbox) : inbox[i].kind = "delete"

Close ==
  /\ gui = "idle"
  /\ Post([kind |-> "delete"])
  /\ UNCHANGED <<shown, viz, sid, overlay, model, gui, run>>

(* ~AnalysisForm: the run is interrupted and joined ...                    *)
DeleteForm ==
  /\ gui = "idle"
  /\ inbox # <<>>
  /\ Head(inbox).kind = "delete"
  /\ inbox' = Tail(inbox)
  /\ gui' = "closing"
  /\ run' = [run EXCEPT !.interrupt = (run.state # "none")]
  /\ UNCHANGED <<shown, viz, sid, overlay, model>>

(* ... then the members go, progressDisplayer_ among them ...              *)
RunJoined ==
  /\ gui = "closing"
  /\ ~RunThreadAlive
  /\ gui' = "destroying"
  /\ run' = NoRun
  /\ UNCHANGED <<shown, viz, inbox, sid, overlay, model>>

(* ... and the children in the order of their making, the display with the *)
(* CAD model before the visualizer, whose derived part ...                 *)
ChildrenGone ==
  /\ gui = "destroying"
  /\ gui' = "joining"
  /\ UNCHANGED <<shown, viz, inbox, sid, overlay, model, run>>

(* ... is gone when the base class joins the thread.                       *)
Closed ==
  /\ gui = "joining"
  /\ viz.state \notin Running \union {"finished"}
  /\ gui' = "closed"
  /\ viz' = NewVisualizer("none", 0)
  /\ UNCHANGED <<shown, inbox, sid, overlay, model, run>>

(* Most of what is in the queue still was for the form or its children,    *)
(* and went with them.  The changes of the CAD model are for the           *)
(* application, with a plain pointer to the model, which is dangling now.  *)
LateEvent ==
  /\ gui = "closed"
  /\ inbox # <<>>
  /\ inbox' = Tail(inbox)
  /\ \/ UNCHANGED gui
     \/ Head(inbox).kind \in {"add", "remove"} /\ gui' = "crashed"
  /\ UNCHANGED <<shown, viz, sid, overlay, model, run>>

(* The thread of the visualizer is interrupted last, and works on with     *)
(* what is gone: it reports its progress to the displayer of the form,     *)
(* asks the CAD model for its symbols, and calls functions of the derived  *)
(* part.                                                                   *)
ThreadFaults ==
  /\ \/ gui \in {"destroying", "joining"} /\ viz.state = "computing"
     \/ gui = "joining" /\ viz.state \in {"started", "creating"}
  /\ gui' = "crashed"
  /\ UNCHANGED <<shown, viz, inbox, sid, overlay, model, run>>
-----------------------------------------------------------------------------
(* The thread of the run. *)

RunBeginsRead ==
  /\ run.state = "starting"
  /\ run' = [run EXCEPT !.state = "reading", !.input.params = shown.params]
  /\ UNCHANGED vizVars

RunEndsRead ==
  /\ run.state = "reading"
  /\ run' = [run EXCEPT !.state = "working",
                        !.input.torn = run.input.params # shown.params]
  /\ UNCHANGED vizVars

(* Faulty variant: an interrupted thread has no handler that would tell. *)
RunEndsSilently ==
  \E outcome \in Outcome :
    /\ run.state = "working"
    /\ outcome = "cancelled" => run.interrupt
    /\ run' = [run EXCEPT !.state = "ended"]
    /\ IF outcome = "cancelled" THEN UNCHANGED inbox
                                ELSE Post([kind |-> "run", outcome |-> outcome])
    /\ UNCHANGED <<shown, viz, sid, overlay, model, gui>>

(* The thread function returns, throws, or meets an interruption point     *)
(* after the request: one event for each of its ends.                      *)
RunEnds ==
  \E outcome \in Outcome :
    /\ run.state = "working"
    /\ outcome = "cancelled" => run.interrupt
    /\ run' = [run EXCEPT !.state = "ended"]
    /\ Post([kind |-> "run", outcome |-> outcome])
    /\ UNCHANGED <<shown, viz, sid, overlay, model, gui>>
-----------------------------------------------------------------------------
RunThread == RunBeginsRead \/ RunEndsRead

Working == gui # "crashed"

Visualizing == Working /\ VizThread /\ UNCHANGED run

Events == (VizEvents /\ UNCHANGED run) \/ OnRunEnded \/ DeleteForm \/ LateEvent

Waiting ==
  ((TimerFires \/ StopReturns) /\ UNCHANGED run) \/ RunJoined \/ ChildrenGone \/ Closed

User ==
  ~Deleted /\ ((Editing /\ UNCHANGED run) \/ OnRunAnalysis \/ OnCancel \/ Close)

Next ==
  \/ Visualizing \/ Events \/ Waiting \/ User \/ ThreadFaults
  \/ Working /\ (RunThread \/ RunEnds)

Spec == Init /\ [][Next]_vars

(* Every thread runs, a visualization comes to an end, and an analysis     *)
(* that is interrupted meets an interruption point.  No other analysis has *)
(* to end, and nobody has to touch the form.                               *)
FairSpec ==
  /\ Spec
  /\ WF_vars(Visualizing) /\ WF_vars(Events) /\ WF_vars(Waiting)
  /\ WF_vars(Working /\ RunThread)
  /\ WF_vars(Working /\ run.interrupt /\ RunEnds)
-----------------------------------------------------------------------------
TypeOK ==
  /\ VizTypeOK
  /\ inbox \in Seq(VizEvent \union [kind : {"run"}, outcome : Outcome] \union [kind : {"delete"}])
  /\ gui \in {"idle", "stopping", "closing", "destroying", "joining", "closed", "crashed"}
  /\ run \in Run

(* When the editor is at rest, and no failure is displayed, the sid is the *)
(* one of the input it shows, and no symbol of an earlier input is left in *)
(* the CAD model, however often the threads before were interrupted, and   *)
(* wherever (parametereditorwidget.cpp 420-466, iqiscadmodelrebuilder.cpp  *)
(* 36-40).  Only the workspace dialog may have set another directory than  *)
(* the one all this was made for (iqexecutionworkspace.cpp 227-255).       *)
AtRest == gui = "idle" /\ viz.state = "done" /\ ~VizPending

RestIsCurrent ==
  AtRest => /\ viz.dir = shown.dir \/ viz.moved
            /\ overlay \/ sid = Current
            /\ \A s \in Symbols : model[s] \in {Current, NoInput}
            /\ Present = viz.created

(* The slot of a run's end finds the run (analysisform_gui.cpp:152), which *)
(* only its own end deletes: a click on Kill leaves it to the thread to    *)
(* say so.  As long as the form exists the program does not die, and when  *)
(* the form is deleted it dies neither then nor later, unless at that      *)
(* moment the thread of the visualizer is at work, or a change of the CAD  *)
(* model is in the queue.                                                  *)
ModelEvent == \E i \in 1 .. Len(inbox) : inbox[i].kind \in {"add", "remove"}

CrashesOnlyOnClosing ==
  /\ [][gui' = "crashed" /\ gui # "crashed" => gui \in {"destroying", "joining", "closed"}]_vars
  /\ [](gui = "closing" /\ viz.state \notin Running /\ ~ModelEvent => [](gui # "crashed"))

(* The interrupted run ends and is deleted (localrun.cpp:54), unless the   *)
(* program dies before.                                                    *)
KillEndsRun == run.interrupt ~> run.state = "none" \/ gui = "crashed"

(* Neither a change of the input nor closing the form blocks the GUI       *)
(* thread for good (cadparametersetvisualizer.cpp:294, localrun.cpp:46).   *)
GuiReturns ==
  /\ gui = "stopping" ~> gui # "stopping"
  /\ gui = "closing" ~> gui \in {"closed", "crashed"}

(* In the end the sid is that of the input shown, or a failure is, unless  *)
(* the input was never changed: no change is lost between a timer, a       *)
(* thread and a queue (parametereditorwidget.cpp 498-508), but that of the *)
(* directory in the workspace dialog.                                      *)
EventuallyCurrent ==
  <>[](\/ viz.state = "none" \/ overlay \/ gui # "idle"
       \/ sid = Current /\ (viz.dir = shown.dir \/ viz.moved))
=============================================================================
