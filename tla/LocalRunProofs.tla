--------------------------- MODULE LocalRunProofs ---------------------------
(***************************************************************************)
(* What holds of LocalRun for every number of symbols and changes: nothing *)
(* stale is left at rest, no end of a run is lost, and the GUI thread      *)
(* waits only for threads that end.                                        *)
(***************************************************************************)
EXTENDS LocalRun, TLAPS

Event == VizEvent \union [kind : {"run"}, outcome : Outcome] \union [kind : {"delete"}]

VizKind == {"sid", "add", "remove", "end"}

Queued(q) == {q[i] : i \in 1 .. Len(q)}

(* What a thread has read is an input.                                     *)
ThreadsInv ==
  /\ viz.state \in {"reading", "computing", "creating", "finished", "done"}
       => viz.input \in Input
  /\ run.state \in {"starting", "reading"} => run.input \in Input

(* Until the form is destroyed, the end of a run is announced once, and    *)
(* found by its slot as long as it is not handled.                         *)
RunInv ==
  gui \in {"idle", "stopping", "closing"} =>
    /\ \A i \in 1 .. Len(inbox) : inbox[i].kind = "run" => run.state = "ended"
    /\ \A i, j \in 1 .. Len(inbox) :
         inbox[i].kind = "run" /\ inbox[j].kind = "run" => i = j

-----------------------------------------------------------------------------
(* As long as the GUI thread does not wait or close the form, the          *)
(* visualizer is that of the input shown, but for a directory set in the   *)
(* workspace dialog.                                                       *)

(* What it has read is what is shown.                                      *)
ReadInv ==
  /\ shown.torn = FALSE
  /\ gui = "idle" => viz.dir = shown.dir \/ viz.moved
  /\ gui = "idle" /\ viz.state \in {"reading", "computing", "creating", "finished", "done"}
       => viz.input = Current

(* Since its timer has fired the events in the queue are its own; those    *)
(* that remove symbols spare the ones it has created, so that the order    *)
(* among these events does not matter.                                     *)
OwnEvent(e) ==
  /\ e.kind = "sid" => e.input = Current
  /\ e.kind = "add" => e.input = Current /\ e.symbol \in viz.created
  /\ e.kind = "remove" => /\ e.symbols \intersect viz.created = {}
                          /\ viz.state \in {"finished", "done"}
  /\ e.kind = "end" => e.ok = viz.ok /\ viz.state = "done"

EventInv ==
  gui = "idle" /\ viz.state \notin {"none", "armed"} =>
    \A e \in Queued(inbox) : OwnEvent(e)

(* What is not in the CAD model yet, or still, is in an event.             *)
Added(s) == \E e \in Queued(inbox) : e.kind = "add" /\ e.symbol = s
Removed(s) == \E e \in Queued(inbox) : e.kind = "remove" /\ s \in e.symbols

SymbolInv ==
  /\ viz.state \in {"armed", "started", "reading", "computing"} => viz.created = {}
  /\ gui = "idle" /\ viz.state \in {"reading", "computing", "creating", "finished", "done"} =>
       \A s \in Symbols :
         /\ s \in viz.created => model[s] = Current \/ Added(s)
         /\ s \notin viz.created => model[s] = NoInput \/ s \in viz.snapshot
         /\ s \notin viz.created /\ viz.state \in {"finished", "done"}
              => model[s] = NoInput \/ Removed(s)

OutcomeInv ==
  gui = "idle" =>
    /\ viz.state = "creating" \/ (viz.state \in {"finished", "done"} /\ viz.ok)
         => sid = Current \/ \E e \in Queued(inbox) : e.kind = "sid"
    /\ viz.state = "done"
         => overlay \/ viz.ok \/ \E e \in Queued(inbox) : e.kind = "end"

QueueInv == EventInv /\ SymbolInv /\ OutcomeInv

Inv == TypeOK /\ ThreadsInv /\ RunInv

-----------------------------------------------------------------------------
(* The queue of events. *)

LEMMA AppendQueue ==
  ASSUME NEW q \in Seq(Event), NEW e \in Event
  PROVE  /\ Append(q, e) \in Seq(Event)
         /\ Len(Append(q, e)) = Len(q) + 1 /\ Len(q) \in Nat
         /\ \A i \in 1 .. Len(q) : Append(q, e)[i] = q[i]
         /\ Append(q, e)[Len(q) + 1] = e
         /\ Queued(Append(q, e)) = Queued(q) \union {e}
<1>1. /\ Append(q, e) \in Seq(Event)
      /\ Len(Append(q, e)) = Len(q) + 1 /\ Len(q) \in Nat
      /\ \A i \in 1 .. Len(q) : Append(q, e)[i] = q[i]
      /\ Append(q, e)[Len(q) + 1] = e
  OBVIOUS
<1>2. 1 .. Len(q) + 1 = (1 .. Len(q)) \union {Len(q) + 1}
  BY <1>1
<1> QED BY <1>1, <1>2 DEF Queued

LEMMA TailQueue ==
  ASSUME NEW q \in Seq(Event), q # <<>>
  PROVE  /\ Tail(q) \in Seq(Event) /\ Head(q) \in Event
         /\ Len(Tail(q)) = Len(q) - 1 /\ Len(q) \in Nat \ {0} /\ Head(q) = q[1]
         /\ \A i \in 1 .. Len(q) - 1 : Tail(q)[i] = q[i + 1]
         /\ Queued(q) = Queued(Tail(q)) \union {Head(q)}
<1>1. /\ Tail(q) \in Seq(Event) /\ Head(q) \in Event
      /\ Len(Tail(q)) = Len(q) - 1 /\ Len(q) \in Nat \ {0} /\ Head(q) = q[1]
      /\ \A i \in 1 .. Len(q) - 1 : Tail(q)[i] = q[i + 1]
  OBVIOUS
<1>2. ASSUME NEW i \in 1 .. Len(q), i # 1
      PROVE  q[i] \in Queued(Tail(q))
  <2>1. i - 1 \in 1 .. Len(Tail(q)) /\ q[i] = Tail(q)[i - 1]
    BY <1>1, <1>2
  <2> QED BY <2>1 DEF Queued
<1>3. \A i \in 1 .. Len(Tail(q)) : i + 1 \in 1 .. Len(q) /\ Tail(q)[i] = q[i + 1]
  BY <1>1
<1>4. 1 \in 1 .. Len(q)
  BY <1>1
<1> QED BY <1>1, <1>2, <1>3, <1>4 DEF Queued

LEMMA EventKinds ==
  ASSUME NEW e \in Event
  PROVE  /\ e.kind = "sid" => e \in [kind : {"sid"}, input : Input]
         /\ e.kind = "add" => e \in [kind : {"add"}, symbol : Symbols, input : Input]
         /\ e.kind = "remove" => e \in [kind : {"remove"}, symbols : SUBSET Symbols]
         /\ e.kind = "end" => e \in [kind : {"end"}, ok : BOOLEAN]
         /\ e.kind = "run" => e \in [kind : {"run"}, outcome : Outcome]
         /\ e.kind \in VizKind \union {"run", "delete"}
BY DEF Event, VizEvent, VizKind

LEMMA NewVisualizerType ==
  ASSUME NEW state \in VizState, NEW dir \in 0 .. MaxChanges
  PROVE  /\ NewVisualizer(state, dir) \in Visualizer
         /\ NewVisualizer(state, dir).state = state /\ NewVisualizer(state, dir).dir = dir
         /\ NewVisualizer(state, dir).created = {}
BY DEF NewVisualizer, Visualizer

-----------------------------------------------------------------------------
(* Types, and the events of a run. *)

LEMMA InvInit == Init => Inv /\ ReadInv /\ QueueInv
<1> SUFFICES ASSUME Init PROVE Inv /\ ReadInv /\ QueueInv
  OBVIOUS
<1> USE DEF Init, VizInit
<1>1. shown \in Input /\ shown.dir = 0 /\ shown.torn = FALSE
  BY ConstantsAssumption DEF Input
<1>2. viz \in Visualizer /\ viz.state = "none" /\ viz.dir = 0
  BY ConstantsAssumption, NewVisualizerType DEF VizState
<1>3. inbox = <<>> /\ inbox \in Seq(Event)
  OBVIOUS
<1>4. TypeOK
  BY <1>1, <1>2, <1>3 DEF TypeOK, VizTypeOK, Event, Run, NoRun
<1>5. Len(inbox) = 0
  BY <1>3
<1> QED BY <1>1, <1>2, <1>4, <1>5 DEF Inv, ThreadsInv, RunInv, NoRun, QueueInv, ReadInv,
           EventInv, SymbolInv, OutcomeInv

(* Posting an event that is not of a run does not touch RunInv. *)
LEMMA PostOther ==
  ASSUME Inv, NEW e \in Event, e.kind # "run", Post(e), UNCHANGED <<gui, run>>
  PROVE  inbox' \in Seq(Event) /\ RunInv' /\ Queued(inbox') = Queued(inbox) \union {e}
<1>1. inbox \in Seq(Event) /\ e \in Event /\ e.kind # "run"
  BY DEF Inv, TypeOK, Event
<1>2. /\ inbox' \in Seq(Event) /\ Len(inbox') = Len(inbox) + 1 /\ Len(inbox) \in Nat
      /\ \A i \in 1 .. Len(inbox) : inbox'[i] = inbox[i]
      /\ inbox'[Len(inbox) + 1] = e
      /\ Queued(inbox') = Queued(inbox) \union {e}
  BY <1>1, AppendQueue DEF Post
<1>3. \A i \in 1 .. Len(inbox') : inbox'[i].kind = "run"
        => i \in 1 .. Len(inbox) /\ inbox[i].kind = "run"
  BY <1>1, <1>2
<1> QED BY <1>2, <1>3 DEF Inv, RunInv

LEMMA PostInv ==
  ASSUME Inv, NEW e \in VizEvent, Post(e), UNCHANGED <<gui, run>>
  PROVE  inbox' \in Seq(Event) /\ RunInv' /\ Queued(inbox') = Queued(inbox) \union {e}
<1>1. e \in Event /\ e.kind # "run"
  BY DEF Event, VizEvent
<1> QED BY <1>1, PostOther

(* Nor does handling one, or doing something else. *)
LEMMA TailRunInv ==
  ASSUME Inv, inbox # <<>>, inbox' = Tail(inbox), run'.state = run.state,
         gui' \in {"idle", "stopping", "closing"} => gui \in {"idle", "stopping", "closing"}
  PROVE  inbox' \in Seq(Event) /\ RunInv'
<1>1. inbox \in Seq(Event)
  BY DEF Inv, TypeOK, Event
<1>2. /\ inbox' \in Seq(Event) /\ Len(inbox') = Len(inbox) - 1 /\ Len(inbox) \in Nat \ {0}
      /\ \A i \in 1 .. Len(inbox) - 1 : inbox'[i] = inbox[i + 1]
  BY <1>1, TailQueue
<1>3. \A i \in 1 .. Len(inbox') : i + 1 \in 1 .. Len(inbox) /\ inbox'[i] = inbox[i + 1]
  BY <1>2
<1> QED BY <1>2, <1>3 DEF Inv, RunInv

LEMMA KeepRunInv ==
  ASSUME Inv, UNCHANGED run, inbox' = inbox,
         gui' \in {"idle", "stopping", "closing"} => gui \in {"idle", "stopping", "closing"}
  PROVE  RunInv'
BY DEF Inv, RunInv

LEMMA VizEventsInv == Inv /\ VizEvents /\ UNCHANGED run => Inv'
<1> SUFFICES ASSUME Inv, VizEvents, UNCHANGED run PROVE Inv'
  OBVIOUS
<1>1. /\ inbox # <<>> /\ inbox' = Tail(inbox) /\ UNCHANGED <<shown, viz, gui>>
      /\ Head(inbox).kind \in {"sid", "add", "remove", "end"}
  BY DEF VizEvents, OnUpdateSupplementedInputData, AddSymbol, RemoveSymbols, ShowOutcome,
         Handle
<1>2. TypeOK /\ inbox \in Seq(Event)
  BY DEF Inv, TypeOK, Event
<1>3. inbox' \in Seq(Event) /\ Head(inbox) \in Event
  BY <1>1, <1>2, TailQueue
<1>4. RunInv'
  BY <1>1, TailRunInv
<1>5. sid' \in Input \union {NoInput} /\ overlay' \in BOOLEAN
      /\ model' \in [Symbols -> Input \union {NoInput}]
  <2>1. CASE OnUpdateSupplementedInputData
    BY <1>2, <1>3, <2>1, EventKinds DEF OnUpdateSupplementedInputData, Handle, TypeOK, VizTypeOK
  <2>2. CASE AddSymbol
    BY <1>2, <1>3, <2>2, EventKinds DEF AddSymbol, Handle, TypeOK, VizTypeOK
  <2>3. CASE RemoveSymbols
    BY <1>2, <1>3, <2>3, EventKinds DEF RemoveSymbols, Handle, TypeOK, VizTypeOK
  <2>4. CASE ShowOutcome
    BY <1>2, <1>3, <2>4, EventKinds DEF ShowOutcome, Handle, TypeOK, VizTypeOK
  <2> QED BY <2>1, <2>2, <2>3, <2>4 DEF VizEvents
<1>6. TypeOK'
  BY <1>1, <1>2, <1>3, <1>5 DEF TypeOK, VizTypeOK, Event
<1> QED BY <1>1, <1>4, <1>6 DEF Inv, ThreadsInv

LEMMA VizThreadInv == Inv /\ VizThread /\ UNCHANGED run => Inv'
<1> SUFFICES ASSUME Inv, VizThread, UNCHANGED run PROVE Inv'
  OBVIOUS
<1>1. /\ TypeOK /\ viz \in Visualizer /\ shown \in Input
      /\ UNCHANGED <<shown, sid, overlay, model, gui, run>>
  BY DEF Inv, TypeOK, VizTypeOK, VizThread, BeginRead, EndRead, ComputeSupplementedInput,
         CreateSymbol, EndRebuild, EmitEnd
<1>2. SUFFICES /\ viz' \in Visualizer /\ inbox' \in Seq(Event) /\ RunInv'
               /\ viz'.state \in {"reading", "computing", "creating", "finished", "done"}
                    => viz'.input \in Input
  BY <1>1 DEF Inv, TypeOK, VizTypeOK, ThreadsInv, Event
<1>3. CASE BeginRead
  <2>1. Current \in Input
    BY <1>1 DEF Current, Input, Visualizer
  <2>2. Present \in SUBSET Symbols
    BY DEF Present
  <2>3. inbox' = inbox
    BY <1>3 DEF BeginRead
  <2> QED BY <1>1, <1>3, <2>1, <2>2, <2>3, KeepRunInv
          DEF BeginRead, Visualizer, VizState, Running, Inv, TypeOK, Event
<1>4. CASE EndRead
  <2>1. viz.state = "reading" /\ viz.input \in Input /\ inbox' = inbox
    BY <1>4 DEF EndRead, Inv, ThreadsInv
  <2>2. [viz.input EXCEPT !.torn = viz.input.params # shown.params] \in Input
    BY <1>1, <2>1 DEF Input
  <2>3. viz' = [viz EXCEPT !.state = "computing",
                 !.input = [viz.input EXCEPT !.torn = viz.input.params # shown.params]]
    BY <1>1, <1>4 DEF EndRead, Visualizer
  <2> QED BY <1>1, <2>1, <2>2, <2>3, KeepRunInv
          DEF Visualizer, VizState, Running, Inv, TypeOK, Event
<1>5. CASE ComputeSupplementedInput
  <2>1. [kind |-> "sid", input |-> viz.input] \in VizEvent /\ viz.input \in Input
    BY <1>5 DEF ComputeSupplementedInput, Inv, ThreadsInv, VizEvent
  <2> QED BY <1>1, <1>5, <2>1, PostInv
          DEF ComputeSupplementedInput, Visualizer, VizState, Running
<1>6. CASE CreateSymbol
  <2>1. PICK s \in Symbols \ viz.created :
          /\ viz.state = "creating"
          /\ viz' = [viz EXCEPT !.created = @ \union {s}]
          /\ Post([kind |-> "add", symbol |-> s, input |-> viz.input])
    BY <1>6 DEF CreateSymbol
  <2>2. [kind |-> "add", symbol |-> s, input |-> viz.input] \in VizEvent /\ viz.input \in Input
    BY <2>1 DEF Inv, ThreadsInv, VizEvent
  <2> QED BY <1>1, <2>1, <2>2, PostInv DEF Visualizer
<1>7. CASE EndRebuild
  <2>1. PICK ok \in BOOLEAN :
          /\ viz.state \in {"creating", "computing"}
          /\ viz' = [viz EXCEPT !.state = "finished", !.ok = ok]
          /\ Post([kind |-> "remove",
                   symbols |-> Present \intersect (viz.snapshot \ viz.created)])
    BY <1>7 DEF EndRebuild
  <2>2. /\ viz.input \in Input
        /\ [kind |-> "remove",
            symbols |-> Present \intersect (viz.snapshot \ viz.created)] \in VizEvent
    BY <2>1 DEF Inv, ThreadsInv, VizEvent, Present
  <2> QED BY <1>1, <2>1, <2>2, PostInv DEF Visualizer, VizState
<1>8. CASE EmitEnd
  <2>1. [kind |-> "end", ok |-> viz.ok] \in VizEvent /\ viz.input \in Input
    BY <1>1, <1>8 DEF EmitEnd, Inv, ThreadsInv, VizEvent, Visualizer
  <2> QED BY <1>1, <1>8, <2>1, PostInv DEF EmitEnd, Visualizer, VizState
<1> QED BY <1>3, <1>4, <1>5, <1>6, <1>7, <1>8 DEF VizThread

(* A rebuild either waits for the thread or arms a new visualizer. *)
LEMMA RebuildInv ==
  ASSUME Inv, gui = "idle", UNCHANGED run,
         NEW dir \in 0 .. MaxChanges, RebuildVisualization(dir)
  PROVE  /\ viz' \in Visualizer /\ inbox' \in Seq(Event) /\ RunInv' /\ ThreadsInv'
         /\ \/ gui' = "stopping"
            \/ gui' = "idle" /\ viz'.state = "armed" /\ viz'.dir = dir /\ viz'.created = {}
         /\ gui' = "stopping" => viz' = viz
<1>1. viz \in Visualizer /\ inbox \in Seq(Event) /\ ThreadsInv
  BY DEF Inv, TypeOK, VizTypeOK, Event
<1>2. CASE viz.state \in Running
  <2>1. gui' = "stopping" /\ UNCHANGED <<viz, inbox>>
    BY <1>2 DEF RebuildVisualization
  <2>2. RunInv'
    BY <2>1, KeepRunInv
  <2> QED BY <1>1, <2>1, <2>2 DEF ThreadsInv
<1>3. CASE viz.state \notin Running
  <2>1. viz' = NewVisualizer("armed", dir) /\ gui' = "idle"
    BY <1>3 DEF RebuildVisualization
  <2>2. /\ viz' \in Visualizer /\ viz'.state = "armed" /\ viz'.dir = dir
        /\ viz'.created = {}
    BY <2>1, NewVisualizerType DEF VizState
  <2>3. inbox' \in Seq(Event) /\ RunInv'
    <3>1. CASE inbox' = inbox
      BY <1>1, <2>1, <3>1, KeepRunInv
    <3>2. CASE Post([kind |-> "end", ok |-> viz.ok])
      <4>1. [kind |-> "end", ok |-> viz.ok] \in VizEvent
        BY <1>1 DEF Visualizer, VizEvent
      <4> QED BY <2>1, <3>2, <4>1, PostInv
    <3> QED BY <1>3, <3>1, <3>2 DEF RebuildVisualization
  <2>4. ThreadsInv'
    BY <1>1, <2>2 DEF ThreadsInv
  <2> QED BY <2>1, <2>2, <2>3, <2>4
<1> QED BY <1>2, <1>3

LEMMA EditingInv ==
  ASSUME Inv, ReadInv, OnParameterSetChanged \/ OnFileNameChanged, UNCHANGED run
  PROVE  /\ Inv' /\ ReadInv'
         /\ gui' = "stopping" \/ (viz'.state = "armed" /\ viz'.created = {})
         /\ gui' = "stopping" => viz' = viz
<1>1. TypeOK /\ shown \in Input
  BY DEF Inv, TypeOK, VizTypeOK
<1>2. CASE OnParameterSetChanged
  <2>1. /\ gui = "idle" /\ RebuildVisualization(shown.dir) /\ UNCHANGED <<sid, overlay, model>>
        /\ shown' = [shown EXCEPT !.params = @ + 1] /\ shown.params + shown.dir < MaxChanges
    BY <1>2 DEF OnParameterSetChanged, MayChange
  <2>2. shown' \in Input /\ shown'.dir = shown.dir /\ shown'.torn = shown.torn
        /\ shown.dir \in 0 .. MaxChanges
    BY <1>1, <2>1, ConstantsAssumption DEF Input
  <2>3. /\ viz' \in Visualizer /\ inbox' \in Seq(Event) /\ RunInv' /\ ThreadsInv'
        /\ \/ gui' = "stopping"
           \/ gui' = "idle" /\ viz'.state = "armed" /\ viz'.dir = shown.dir /\ viz'.created = {}
        /\ gui' = "stopping" => viz' = viz
    BY <2>1, <2>2, RebuildInv
  <2>4. TypeOK'
    BY <1>1, <2>1, <2>2, <2>3 DEF TypeOK, VizTypeOK, Event
  <2> QED BY <2>2, <2>3, <2>4 DEF Inv, ReadInv
<1>3. CASE OnFileNameChanged
  <2>1. /\ gui = "idle" /\ RebuildVisualization(shown.dir + 1)
        /\ UNCHANGED <<overlay, model>> /\ sid' = NoInput
        /\ shown' = [shown EXCEPT !.dir = @ + 1] /\ shown.params + shown.dir < MaxChanges
    BY <1>3 DEF OnFileNameChanged, MayChange
  <2>2. shown' \in Input /\ shown'.dir = shown.dir + 1 /\ shown'.torn = shown.torn
        /\ shown.dir + 1 \in 0 .. MaxChanges
    BY <1>1, <2>1, ConstantsAssumption DEF Input
  <2>3. /\ viz' \in Visualizer /\ inbox' \in Seq(Event) /\ RunInv' /\ ThreadsInv'
        /\ \/ gui' = "stopping"
           \/ gui' = "idle" /\ viz'.state = "armed" /\ viz'.dir = shown.dir + 1
                /\ viz'.created = {}
        /\ gui' = "stopping" => viz' = viz
    BY <2>1, <2>2, RebuildInv
  <2>4. TypeOK'
    BY <1>1, <2>1, <2>2, <2>3 DEF TypeOK, VizTypeOK, Event
  <2> QED BY <2>2, <2>3, <2>4 DEF Inv, ReadInv
<1> QED BY <1>2, <1>3

(* The workspace dialog moves what is shown away from the visualizer. *)
LEMMA DialogInv ==
  ASSUME Inv, ReadInv, OnWorkspaceChanged, UNCHANGED run
  PROVE  /\ Inv' /\ ReadInv' /\ Current' = Current
         /\ UNCHANGED <<inbox, sid, overlay, model, gui>>
         /\ UNCHANGED <<viz.state, viz.created, viz.snapshot, viz.ok>>
<1>1. /\ gui = "idle" /\ shown.params + shown.dir < MaxChanges
      /\ shown' = [shown EXCEPT !.dir = @ + 1] /\ viz' = [viz EXCEPT !.moved = TRUE]
      /\ UNCHANGED <<inbox, sid, overlay, model, gui>>
  BY DEF OnWorkspaceChanged, MayChange
<1>2. TypeOK /\ shown \in Input /\ viz \in Visualizer
  BY DEF Inv, TypeOK, VizTypeOK
<1>3. shown' \in Input /\ shown'.params = shown.params /\ shown'.torn = shown.torn
  BY <1>1, <1>2, ConstantsAssumption DEF Input
<1>4. /\ viz' \in Visualizer /\ viz'.moved /\ viz'.dir = viz.dir /\ viz'.input = viz.input
      /\ UNCHANGED <<viz.state, viz.created, viz.snapshot, viz.ok>>
  BY <1>1, <1>2 DEF Visualizer
<1>5. Current' = Current
  BY <1>3, <1>4 DEF Current
<1>6. TypeOK'
  BY <1>1, <1>2, <1>3, <1>4 DEF TypeOK, VizTypeOK
<1>7. RunInv'
  BY <1>1, KeepRunInv
<1> QED BY <1>1, <1>3, <1>4, <1>5, <1>6, <1>7 DEF Inv, ThreadsInv, ReadInv

(* The timer, and the end of the wait for the thread. *)
LEMMA TimerInv ==
  ASSUME Inv, ReadInv, TimerFires \/ StopReturns, UNCHANGED run
  PROVE  Inv' /\ ReadInv'
<1>1. TypeOK /\ shown \in Input /\ viz \in Visualizer /\ ThreadsInv
  BY DEF Inv, TypeOK, VizTypeOK
<1>2. UNCHANGED <<shown, inbox, sid, overlay, model>> /\ gui' = "idle"
      /\ gui \in {"idle", "stopping"}
  BY DEF TimerFires, StopReturns
<1>3. RunInv'
  BY <1>2, KeepRunInv
<1>4. CASE TimerFires
  <2>1. /\ viz' \in Visualizer /\ viz'.state = "started" /\ gui = "idle"
        /\ viz'.dir = viz.dir /\ viz'.moved = viz.moved
    BY <1>1, <1>4 DEF TimerFires, Visualizer, VizState, Running
  <2>2. TypeOK'
    BY <1>1, <1>2, <2>1 DEF TypeOK, VizTypeOK
  <2> QED BY <1>1, <1>2, <1>3, <2>1, <2>2 DEF Inv, ThreadsInv, ReadInv
<1>5. CASE StopReturns
  <2>1. viz' \in Visualizer /\ viz'.state = "armed" /\ viz'.dir = shown.dir
    BY <1>1, <1>5, NewVisualizerType DEF StopReturns, Input, VizState
  <2>2. TypeOK'
    BY <1>1, <1>2, <2>1 DEF TypeOK, VizTypeOK
  <2> QED BY <1>1, <1>2, <1>3, <2>1, <2>2 DEF Inv, ThreadsInv, ReadInv
<1> QED BY <1>4, <1>5

(* The run: started and killed by the form, and read by its thread. *)
LEMMA RunStepInv ==
  ASSUME Inv, OnRunAnalysis \/ OnCancel \/ RunThread
  PROVE  Inv'
<1>1. TypeOK /\ run \in Run /\ shown \in Input /\ sid \in Input \union {NoInput}
      /\ ThreadsInv /\ UNCHANGED vizVars
  BY DEF Inv, TypeOK, VizTypeOK, OnRunAnalysis, OnCancel, RunThread, RunBeginsRead, RunEndsRead
<1>2. run' \in Run /\ (run'.state \in {"starting", "reading"} => run'.input \in Input)
      /\ (run.state = "ended" => run'.state = "ended")
  <2>1. CASE OnRunAnalysis
    BY <1>1, <2>1 DEF OnRunAnalysis, Run
  <2>2. CASE OnCancel
    BY <1>1, <2>2 DEF OnCancel, Run, ThreadsInv
  <2>3. CASE RunBeginsRead
    <3>1. run.state = "starting" /\ run.input \in Input
      BY <1>1, <2>3 DEF RunBeginsRead, ThreadsInv
    <3>2. [run.input EXCEPT !.params = shown.params] \in Input
      BY <1>1, <3>1 DEF Input
    <3>3. run' = [run EXCEPT !.state = "reading",
                             !.input = [run.input EXCEPT !.params = shown.params]]
      BY <1>1, <2>3 DEF RunBeginsRead, Run
    <3> QED BY <1>1, <3>1, <3>2, <3>3 DEF Run
  <2>4. CASE RunEndsRead
    <3>1. run.state = "reading" /\ run.input \in Input
      BY <1>1, <2>4 DEF RunEndsRead, ThreadsInv
    <3>2. [run.input EXCEPT !.torn = run.input.params # shown.params] \in Input
      BY <3>1 DEF Input
    <3>3. run' = [run EXCEPT !.state = "working",
                   !.input = [run.input EXCEPT !.torn = run.input.params # shown.params]]
      BY <1>1, <2>4 DEF RunEndsRead, Run
    <3> QED BY <1>1, <3>1, <3>2, <3>3 DEF Run
  <2> QED BY <2>1, <2>2, <2>3, <2>4 DEF RunThread
<1>3. TypeOK'
  BY <1>1, <1>2 DEF TypeOK, VizTypeOK, vizVars
<1>4. RunInv'
  BY <1>1, <1>2 DEF Inv, RunInv, vizVars
<1> QED BY <1>1, <1>2, <1>3, <1>4 DEF Inv, ThreadsInv, vizVars

(* The thread of the run ends and says so. *)
LEMMA RunEndsInv ==
  ASSUME Inv, RunEnds
  PROVE  Inv' /\ \E outcome \in Outcome :
                   Queued(inbox') = Queued(inbox) \union {[kind |-> "run", outcome |-> outcome]}
<1>1. PICK outcome \in Outcome :
        /\ run.state = "working" /\ run' = [run EXCEPT !.state = "ended"]
        /\ Post([kind |-> "run", outcome |-> outcome])
        /\ UNCHANGED <<shown, viz, sid, overlay, model, gui>>
  BY DEF RunEnds
<1>2. TypeOK /\ inbox \in Seq(Event) /\ run \in Run /\ ThreadsInv
  BY DEF Inv, TypeOK, Event
<1> DEFINE e == [kind |-> "run", outcome |-> outcome]
<1>3. e \in Event
  BY DEF Event
<1>4. /\ inbox' \in Seq(Event) /\ Len(inbox') = Len(inbox) + 1 /\ Len(inbox) \in Nat
      /\ \A i \in 1 .. Len(inbox) : inbox'[i] = inbox[i]
      /\ Queued(inbox') = Queued(inbox) \union {e}
  BY <1>1, <1>2, <1>3, AppendQueue DEF Post
<1>5. run' \in Run /\ run'.state = "ended"
  BY <1>1, <1>2 DEF Run
<1>6. RunInv'
  <2> SUFFICES ASSUME gui \in {"idle", "stopping", "closing"}
               PROVE  \A i, j \in 1 .. Len(inbox') :
                        inbox'[i].kind = "run" /\ inbox'[j].kind = "run" => i = j
    BY <1>1, <1>5 DEF RunInv
  <2>1. \A i \in 1 .. Len(inbox) : inbox[i].kind # "run"
    BY <1>1 DEF Inv, RunInv
  <2>2. \A i \in 1 .. Len(inbox') : inbox'[i].kind = "run" => i = Len(inbox) + 1
    BY <1>4, <2>1
  <2> QED BY <2>2
<1>7. TypeOK'
  BY <1>1, <1>2, <1>4, <1>5 DEF TypeOK, VizTypeOK, Event
<1> QED BY <1>1, <1>2, <1>4, <1>5, <1>6, <1>7 DEF Inv, ThreadsInv

(* The slot of its end finds the run, and the events that stay in the      *)
(* queue are those of the visualizer.                                      *)
LEMMA OnRunEndedInv ==
  ASSUME Inv, OnRunEnded
  PROVE  /\ Inv' /\ gui' = "idle" /\ gui = "idle"
         /\ UNCHANGED <<shown, viz, sid, overlay, model>>
         /\ \A e \in Queued(inbox) : e.kind # "run" => e \in Queued(inbox')
         /\ Queued(inbox') \subseteq Queued(inbox)
<1>1. /\ gui = "idle" /\ inbox # <<>> /\ Head(inbox).kind = "run" /\ inbox' = Tail(inbox)
      /\ UNCHANGED <<shown, viz, sid, overlay, model>>
  BY DEF OnRunEnded
<1>2. TypeOK /\ inbox \in Seq(Event) /\ run \in Run /\ ThreadsInv
  BY DEF Inv, TypeOK, Event
<1>3. /\ inbox' \in Seq(Event) /\ Len(inbox') = Len(inbox) - 1 /\ Len(inbox) \in Nat \ {0}
      /\ Head(inbox) = inbox[1]
      /\ \A i \in 1 .. Len(inbox) - 1 : inbox'[i] = inbox[i + 1]
      /\ Queued(inbox) = Queued(inbox') \union {Head(inbox)}
  BY <1>1, <1>2, TailQueue
<1>4. 1 \in 1 .. Len(inbox) /\ inbox[1].kind = "run"
  BY <1>1, <1>3
<1>5. run.state = "ended"
  BY <1>1, <1>4 DEF Inv, RunInv
<1>6. run' = NoRun /\ gui' = "idle"
  BY <1>1, <1>5 DEF OnRunEnded
<1>7. \A i \in 1 .. Len(inbox') : inbox'[i].kind # "run"
  <2> SUFFICES ASSUME NEW i \in 1 .. Len(inbox'), inbox'[i].kind = "run" PROVE FALSE
    OBVIOUS
  <2>1. i + 1 \in 1 .. Len(inbox) /\ inbox[i + 1].kind = "run" /\ i + 1 # 1
    BY <1>3
  <2> QED BY <1>1, <1>4, <2>1 DEF Inv, RunInv
<1>8. RunInv'
  BY <1>7 DEF RunInv
<1>9. TypeOK'
  BY <1>1, <1>2, <1>3, <1>6 DEF TypeOK, VizTypeOK, Event, NoRun, Run
<1> QED BY <1>1, <1>2, <1>3, <1>6, <1>8, <1>9 DEF Inv, ThreadsInv, NoRun

(* The form is closed: its deletion is posted ... *)
LEMMA CloseInv ==
  ASSUME Inv, Close
  PROVE  /\ Inv' /\ UNCHANGED <<shown, viz, sid, overlay, model, gui, run>>
         /\ Queued(inbox') = Queued(inbox) \union {[kind |-> "delete"]}
<1>1. Post([kind |-> "delete"]) /\ UNCHANGED <<shown, viz, sid, overlay, model, gui, run>>
  BY DEF Close
<1>2. [kind |-> "delete"] \in Event /\ [kind |-> "delete"].kind # "run"
  BY DEF Event
<1>3. /\ inbox' \in Seq(Event) /\ RunInv'
      /\ Queued(inbox') = Queued(inbox) \union {[kind |-> "delete"]}
  BY <1>1, <1>2, PostOther
<1>4. TypeOK'
  BY <1>1, <1>3 DEF Inv, TypeOK, VizTypeOK, Event
<1> QED BY <1>1, <1>3, <1>4 DEF Inv, ThreadsInv

(* ... and handled. *)
LEMMA ClosingInv ==
  ASSUME Inv, DeleteForm \/ LateEvent \/ RunJoined \/ ChildrenGone \/ Closed \/ ThreadFaults
  PROVE  /\ Inv' /\ gui' \notin {"idle", "stopping"} /\ shown' = shown
         /\ viz' = viz \/ viz'.state = "none"
<1>1. TypeOK /\ run \in Run /\ inbox \in Seq(Event) /\ ThreadsInv
  BY DEF Inv, TypeOK, Event
<1>2. CASE DeleteForm
  <2>1. /\ run' \in Run /\ run'.state = run.state /\ run'.input = run.input
        /\ gui = "idle" /\ gui' = "closing" /\ inbox # <<>> /\ inbox' = Tail(inbox)
        /\ UNCHANGED <<shown, viz, sid, overlay, model>>
    BY <1>1, <1>2 DEF DeleteForm, Run
  <2>2. inbox' \in Seq(Event) /\ RunInv'
    BY <2>1, TailRunInv
  <2>3. TypeOK'
    BY <1>1, <2>1, <2>2 DEF TypeOK, VizTypeOK, Event
  <2> QED BY <1>1, <2>1, <2>2, <2>3 DEF Inv, ThreadsInv
<1>3. CASE LateEvent
  <2>1. /\ gui = "closed" /\ gui' \in {"closed", "crashed"} /\ inbox # <<>>
        /\ inbox' = Tail(inbox) /\ UNCHANGED <<shown, viz, sid, overlay, model, run>>
    BY <1>3 DEF LateEvent
  <2>2. inbox' \in Seq(Event) /\ RunInv'
    BY <2>1, TailRunInv
  <2>3. TypeOK'
    BY <1>1, <2>1, <2>2 DEF TypeOK, VizTypeOK, Event
  <2> QED BY <1>1, <2>1, <2>2, <2>3 DEF Inv, ThreadsInv
<1>4. CASE RunJoined \/ ChildrenGone \/ ThreadFaults
  <2>1. /\ gui' \in {"destroying", "joining", "crashed"} /\ run' \in {run, NoRun}
        /\ UNCHANGED <<shown, viz, inbox, sid, overlay, model>>
    BY <1>4 DEF RunJoined, ChildrenGone, ThreadFaults
  <2>2. NoRun \in Run /\ NoRun.state = "none"
    BY DEF NoRun, Run
  <2>3. run' \in Run
    BY <1>1, <2>1, <2>2
  <2>4. VizTypeOK'
    BY <1>1, <2>1 DEF TypeOK, VizTypeOK
  <2>5. TypeOK'
    BY <1>1, <2>1, <2>3, <2>4 DEF TypeOK
  <2> QED BY <1>1, <2>1, <2>2, <2>5 DEF Inv, ThreadsInv, RunInv
<1>5. CASE Closed
  <2>1. viz' \in Visualizer /\ viz'.state = "none" /\ gui' = "closed"
        /\ UNCHANGED <<shown, inbox, sid, overlay, model, run>>
    BY <1>5, NewVisualizerType, ConstantsAssumption DEF Closed, VizState
  <2>2. TypeOK'
    BY <1>1, <2>1 DEF TypeOK, VizTypeOK
  <2> QED BY <1>1, <2>1, <2>2 DEF Inv, ThreadsInv, RunInv
<1> QED BY <1>2, <1>3, <1>4, <1>5

-----------------------------------------------------------------------------
(* The crash on a missing run. *)

LEMMA InvNext == Inv /\ ReadInv /\ [Next]_vars => Inv'
<1> SUFFICES ASSUME Inv, ReadInv, [Next]_vars PROVE Inv'
  OBVIOUS
<1>1. CASE UNCHANGED vars
  <2>1. TypeOK'
    BY <1>1 DEF Inv, TypeOK, VizTypeOK, vars, vizVars
  <2> QED BY <1>1, <2>1 DEF Inv, ThreadsInv, RunInv, vars, vizVars
<1>2. CASE Next
  BY <1>2, VizEventsInv, VizThreadInv, EditingInv, DialogInv, TimerInv, RunStepInv,
     RunEndsInv, OnRunEndedInv, CloseInv, ClosingInv
     DEF Next, Visualizing, Events, Waiting, User, Editing, RunThread
<1> QED BY <1>1, <1>2

(* The steps that leave the GUI thread and what is shown alone. *)
LEMMA QuietSteps ==
  ASSUME Inv, \/ VizEvents /\ UNCHANGED run
              \/ RunEnds \/ OnRunAnalysis \/ OnCancel \/ RunThread
              \/ UNCHANGED vars
  PROVE  UNCHANGED <<shown, gui, viz>>
BY DEF VizEvents, OnUpdateSupplementedInputData, AddSymbol, RemoveSymbols, ShowOutcome,
       Handle, RunEnds, OnRunAnalysis, OnCancel, RunThread, RunBeginsRead, RunEndsRead,
       vars, vizVars

LEMMA ThreadReads ==
  ASSUME Inv, ReadInv, VizThread
  PROVE  /\ ReadInv' /\ UNCHANGED <<shown, gui, sid, overlay, model>>
         /\ Current' = Current
<1>0. SUFFICES ReadInv' /\ UNCHANGED <<shown, gui, sid, overlay, model, viz.dir>>
  BY DEF Current
<1>1. /\ viz \in Visualizer /\ shown \in Input
      /\ UNCHANGED <<shown, gui, sid, overlay, model>>
  BY DEF Inv, TypeOK, VizTypeOK, VizThread, BeginRead, EndRead, ComputeSupplementedInput,
         CreateSymbol, EndRebuild, EmitEnd
<1>2. CASE BeginRead
  <2>1. viz'.input = Current /\ viz'.dir = viz.dir /\ viz'.moved = viz.moved
    BY <1>1, <1>2 DEF BeginRead, Visualizer
  <2> QED BY <1>1, <2>1 DEF ReadInv, Current
<1>3. CASE EndRead
  <2>1. /\ viz.state = "reading" /\ viz.input \in Input
        /\ viz'.dir = viz.dir /\ viz'.moved = viz.moved
        /\ viz'.input = [viz.input EXCEPT !.torn = viz.input.params # shown.params]
    BY <1>1, <1>3 DEF EndRead, Visualizer, Inv, ThreadsInv
  <2>2. viz.input = Current => viz'.input = Current
    <3> SUFFICES ASSUME viz.input = Current PROVE viz'.input = Current
      OBVIOUS
    <3>1. viz.input.params = shown.params /\ viz.input.torn = FALSE
      BY DEF Current
    <3> QED BY <2>1, <3>1 DEF Input
  <2> QED BY <1>1, <2>1, <2>2 DEF ReadInv, Current
<1>4. CASE ComputeSupplementedInput \/ CreateSymbol \/ EndRebuild \/ EmitEnd
  <2>1. /\ viz'.dir = viz.dir /\ viz'.input = viz.input /\ viz'.moved = viz.moved
        /\ viz.state \in {"computing", "creating", "finished"}
    BY <1>1, <1>4 DEF ComputeSupplementedInput, CreateSymbol, EndRebuild, EmitEnd, Visualizer
  <2> QED BY <1>1, <2>1 DEF ReadInv, Current
<1> QED BY <1>2, <1>3, <1>4 DEF VizThread

LEMMA ReadNext == Inv /\ ReadInv /\ [Next]_vars => ReadInv'
<1> SUFFICES ASSUME Inv, ReadInv, [Next]_vars PROVE ReadInv'
  OBVIOUS
<1>1. CASE \/ VizEvents /\ UNCHANGED run
           \/ RunEnds \/ OnRunAnalysis \/ OnCancel \/ RunThread \/ UNCHANGED vars
  BY <1>1, QuietSteps DEF ReadInv, Current
<1>2. CASE OnRunEnded
  BY <1>2, OnRunEndedInv DEF ReadInv, Current
<1>3. CASE VizThread
  BY <1>3, ThreadReads
<1>4. CASE (Editing \/ TimerFires \/ StopReturns) /\ UNCHANGED run
  BY <1>4, EditingInv, DialogInv, TimerInv DEF Editing
<1>5. CASE Close
  BY <1>5, CloseInv DEF ReadInv, Current
<1>6. CASE DeleteForm \/ LateEvent \/ RunJoined \/ ChildrenGone \/ Closed \/ ThreadFaults
  BY <1>6, ClosingInv DEF ReadInv
<1> QED BY <1>1, <1>2, <1>3, <1>4, <1>5, <1>6
        DEF Next, Visualizing, Events, Waiting, User, RunThread

LEMMA Invariant == Spec => [](Inv /\ ReadInv)
<1>1. Init => Inv /\ ReadInv
  BY InvInit
<1>2. Inv /\ ReadInv /\ [Next]_vars => (Inv /\ ReadInv)'
  BY InvNext, ReadNext
<1> QED BY <1>1, <1>2, PTL DEF Spec

(* The form, its visualizer and its run never leave their states. *)
THEOREM TypeCorrect == Spec => []TypeOK
<1>1. Inv => TypeOK
  BY DEF Inv
<1> QED BY Invariant, <1>1, PTL

(* The form is being deleted, with no thread at work for it and no change  *)
(* of the CAD model on its way.                                            *)
Harmless ==
  /\ gui \in {"closing", "destroying", "joining", "closed"}
  /\ viz.state \notin Running
  /\ ~ModelEvent

LEMMA HarmlessPost ==
  ASSUME Inv, Harmless, NEW e \in Event, e.kind \notin {"add", "remove"}, Post(e)
  PROVE  ~ModelEvent'
<1>1. inbox \in Seq(Event)
  BY DEF Inv, TypeOK, Event
<1>2. /\ Len(inbox') = Len(inbox) + 1 /\ Len(inbox) \in Nat
      /\ \A i \in 1 .. Len(inbox) : inbox'[i] = inbox[i]
      /\ inbox'[Len(inbox) + 1] = e
  BY <1>1, AppendQueue DEF Post
<1>3. \A i \in 1 .. Len(inbox') : i \in 1 .. Len(inbox) \/ i = Len(inbox) + 1
  BY <1>2
<1> QED BY <1>2, <1>3 DEF Harmless, ModelEvent

LEMMA HarmlessStays == Inv /\ Harmless /\ [Next]_vars => Harmless'
<1> SUFFICES ASSUME Inv, Harmless, [Next]_vars PROVE Harmless'
  OBVIOUS
<1>0. /\ viz \in Visualizer /\ inbox \in Seq(Event) /\ gui # "idle" /\ gui # "stopping"
      /\ viz.state \notin {"started", "reading", "computing", "creating"}
  BY DEF Inv, TypeOK, VizTypeOK, Event, Harmless, Running
<1>1. ASSUME UNCHANGED <<viz, inbox>>, gui' \in {"closing", "destroying", "joining", "closed"}
      PROVE  Harmless'
  BY <1>1 DEF Harmless, ModelEvent
<1>2. CASE VizThread
  <2>1. EmitEnd
    BY <1>0, <1>2 DEF VizThread, BeginRead, EndRead, ComputeSupplementedInput, CreateSymbol,
       EndRebuild
  <2>2. [kind |-> "end", ok |-> viz.ok] \in Event
    BY <1>0 DEF Event, VizEvent, Visualizer
  <2>3. ~ModelEvent'
    BY <2>1, <2>2, HarmlessPost DEF EmitEnd
  <2>4. viz'.state = "done" /\ gui' = gui
    BY <1>0, <2>1 DEF EmitEnd, Visualizer
  <2> QED BY <2>3, <2>4 DEF Harmless, Running
<1>3. CASE RunEnds
  <2>1. PICK outcome \in Outcome : /\ Post([kind |-> "run", outcome |-> outcome])
                                   /\ UNCHANGED <<viz, gui>>
    BY <1>3 DEF RunEnds
  <2>2. [kind |-> "run", outcome |-> outcome] \in Event
    BY DEF Event
  <2>3. ~ModelEvent'
    BY <2>1, <2>2, HarmlessPost
  <2> QED BY <2>1, <2>3 DEF Harmless
<1>4. CASE RunThread \/ RunJoined \/ ChildrenGone \/ UNCHANGED vars
  BY <1>1, <1>4 DEF RunThread, RunBeginsRead, RunEndsRead, RunJoined, ChildrenGone, Harmless,
     vars, vizVars
<1>5. CASE Closed
  <2>1. viz'.state = "none" /\ gui' = "closed" /\ inbox' = inbox
    BY <1>5 DEF Closed, NewVisualizer
  <2> QED BY <2>1 DEF Harmless, ModelEvent, Running
<1>6. CASE LateEvent
  <2>1. /\ inbox # <<>> /\ inbox' = Tail(inbox) /\ viz' = viz
        /\ gui' = gui \/ Head(inbox).kind \in {"add", "remove"}
    BY <1>6 DEF LateEvent
  <2>2. /\ Len(inbox') = Len(inbox) - 1 /\ Len(inbox) \in Nat \ {0} /\ Head(inbox) = inbox[1]
        /\ \A i \in 1 .. Len(inbox) - 1 : inbox'[i] = inbox[i + 1]
    BY <1>0, <2>1, TailQueue
  <2>3. 1 \in 1 .. Len(inbox)
        /\ \A i \in 1 .. Len(inbox') : i + 1 \in 1 .. Len(inbox) /\ inbox'[i] = inbox[i + 1]
    BY <2>2
  <2> QED BY <2>1, <2>2, <2>3 DEF Harmless, ModelEvent
<1>7. ~ThreadFaults
  BY <1>0 DEF ThreadFaults
<1>8. /\ ~VizEvents /\ ~OnRunEnded /\ ~DeleteForm /\ ~TimerFires /\ ~StopReturns
      /\ ~Editing /\ ~OnRunAnalysis /\ ~OnCancel /\ ~Close
  BY <1>0 DEF VizEvents, OnUpdateSupplementedInputData, AddSymbol, RemoveSymbols, ShowOutcome,
     Handle, OnRunEnded, DeleteForm, TimerFires, StopReturns, Editing, OnParameterSetChanged,
     OnFileNameChanged, OnWorkspaceChanged, OnRunAnalysis, OnCancel, Close
<1> QED BY <1>2, <1>3, <1>4, <1>5, <1>6, <1>7, <1>8
        DEF Next, Visualizing, Events, Waiting, User

(* The slot of a run's end always finds the run.  The program dies only    *)
(* when the form is deleted or after that, and only when a visualization   *)
(* was at work, or its changes of the CAD model were not made yet, at the  *)
(* moment of the deletion.                                                 *)
THEOREM SlotFindsRun == Spec => CrashesOnlyOnClosing
<1>1. ASSUME Inv, [Next]_vars, gui' = "crashed", gui # "crashed"
      PROVE  gui \in {"destroying", "joining", "closed"}
  <2>1. ~OnRunEnded
    BY <1>1, OnRunEndedInv
  <2>2. CASE ThreadFaults \/ LateEvent
    BY <2>2 DEF ThreadFaults, LateEvent
  <2>3. ~UNCHANGED gui
    BY <1>1
  <2>4. ~VizThread /\ ~VizEvents /\ ~RunEnds /\ ~RunThread /\ ~OnRunAnalysis /\ ~OnCancel
        /\ ~Close /\ ~OnWorkspaceChanged
    BY <2>3 DEF VizThread, BeginRead, EndRead, ComputeSupplementedInput, CreateSymbol,
          EndRebuild, EmitEnd, VizEvents, OnUpdateSupplementedInputData, AddSymbol,
          RemoveSymbols, ShowOutcome, Handle, RunEnds, RunThread, RunBeginsRead,
          RunEndsRead, OnRunAnalysis, OnCancel, Close, OnWorkspaceChanged, vizVars
  <2>5. /\ ~TimerFires /\ ~StopReturns /\ ~DeleteForm /\ ~RunJoined /\ ~ChildrenGone /\ ~Closed
        /\ ~UNCHANGED vars
    BY <1>1 DEF TimerFires, StopReturns, DeleteForm, RunJoined, ChildrenGone, Closed, vars,
          vizVars
  <2>6. ~OnParameterSetChanged /\ ~OnFileNameChanged
    <3>1. \A dir : RebuildVisualization(dir) => gui' \in {"stopping", gui}
      BY DEF RebuildVisualization
    <3> QED BY <1>1, <3>1 DEF OnParameterSetChanged, OnFileNameChanged
  <2> QED BY <1>1, <2>1, <2>2, <2>4, <2>5, <2>6
          DEF Next, Visualizing, Events, Waiting, User, Editing, RunThread
<1>2. Inv /\ [Next]_vars =>
        [gui' = "crashed" /\ gui # "crashed" => gui \in {"destroying", "joining", "closed"}]_vars
  BY <1>1
<1>3. gui = "closing" /\ viz.state \notin Running /\ ~ModelEvent => Harmless
  BY DEF Harmless
<1>4. Harmless => gui # "crashed"
  BY DEF Harmless
<1> QED BY Invariant, HarmlessStays, <1>2, <1>3, <1>4, PTL DEF Spec, CrashesOnlyOnClosing

-----------------------------------------------------------------------------
(* Nothing stale is left at rest: the queue, the CAD model and the outcome. *)

(* When what is computed and displayed stays, and of the queue only events *)
(* come or go that are not of the visualizer.                              *)
LEMMA OtherEventsQueue ==
  ASSUME Inv, QueueInv, Current' = Current, UNCHANGED <<sid, overlay, model, gui>>,
         UNCHANGED <<viz.state, viz.created, viz.snapshot, viz.ok>>,
         \A e \in Queued(inbox) : e.kind \in VizKind => e \in Queued(inbox'),
         \A e \in Queued(inbox') : e.kind \in VizKind => e \in Queued(inbox)
  PROVE  QueueInv'
<1>1. EventInv'
  <2> SUFFICES ASSUME gui = "idle", viz.state \notin {"none", "armed"}, NEW e \in Queued(inbox')
               PROVE  OwnEvent(e)'
    BY DEF EventInv
  <2>1. e.kind \notin VizKind \/ OwnEvent(e)
    BY DEF QueueInv, EventInv
  <2> QED BY <2>1 DEF OwnEvent, VizKind
<1>2. SymbolInv'
  BY DEF QueueInv, SymbolInv, Added, Removed, VizKind
<1>3. OutcomeInv'
  BY DEF QueueInv, OutcomeInv, VizKind
<1> QED BY <1>1, <1>2, <1>3 DEF QueueInv

LEMMA TimerQueue ==
  ASSUME Inv, QueueInv, TimerFires
  PROVE  QueueInv'
<1>1. /\ viz \in Visualizer /\ viz.state = "armed" /\ inbox' = inbox
      /\ viz' = [viz EXCEPT !.state = "started"]
  BY DEF TimerFires, Inv, TypeOK, VizTypeOK
<1>2. viz'.state = "started" /\ viz'.created = {}
  BY <1>1 DEF QueueInv, SymbolInv, Visualizer
<1>3. \A e \in Queued(inbox') : e.kind \notin VizKind
  BY <1>1 DEF TimerFires, VizPending, Queued, VizKind
<1>4. EventInv'
  BY <1>3 DEF EventInv, OwnEvent, VizKind
<1> QED BY <1>2, <1>4 DEF QueueInv, SymbolInv, OutcomeInv

(* The GUI thread is elsewhere, or the timer of a new visualizer runs. *)
LEMMA ArmedQueue ==
  ASSUME QueueInv, \/ viz'.state = "armed" /\ viz'.created = {}
                   \/ gui' # "idle" /\ (viz' = viz \/ viz'.state = "none")
  PROVE  QueueInv'
BY DEF QueueInv, EventInv, SymbolInv, OutcomeInv

LEMMA VizEventsQueue ==
  ASSUME Inv, ReadInv, QueueInv, VizEvents
  PROVE  QueueInv'
<1> DEFINE e == Head(inbox)
<1>1. /\ gui = "idle" /\ inbox # <<>> /\ inbox' = Tail(inbox)
      /\ UNCHANGED <<shown, viz, gui>> /\ Current' = Current
  BY DEF VizEvents, OnUpdateSupplementedInputData, AddSymbol, RemoveSymbols, ShowOutcome,
         Handle, Current
<1>2. inbox \in Seq(Event) /\ model \in [Symbols -> Input \union {NoInput}]
  BY DEF Inv, TypeOK, VizTypeOK, Event
<1>3. e \in Event /\ Queued(inbox) = Queued(inbox') \union {e}
  BY <1>1, <1>2, TailQueue
<1> HIDE DEF e
<1>4. CASE viz.state \in {"none", "armed"}
  BY <1>1, <1>4 DEF QueueInv, EventInv, SymbolInv, OutcomeInv
<1>5. CASE viz.state \notin {"none", "armed"}
  <2>1. OwnEvent(e) /\ \A f \in Queued(inbox') : OwnEvent(f)
    BY <1>1, <1>3, <1>5 DEF QueueInv, EventInv
  <2>2. EventInv'
    BY <1>1, <2>1 DEF EventInv, OwnEvent
  <2>3. CASE OnUpdateSupplementedInputData
    <3>1. e.kind = "sid" /\ sid' = e.input /\ UNCHANGED <<overlay, model>>
      BY <2>3 DEF OnUpdateSupplementedInputData, Handle, e
    <3>2. SymbolInv'
      BY <1>1, <1>3, <3>1 DEF QueueInv, SymbolInv, Added, Removed
    <3>3. OutcomeInv'
      BY <1>1, <1>3, <2>1, <3>1 DEF QueueInv, OutcomeInv, OwnEvent
    <3> QED BY <2>2, <3>2, <3>3 DEF QueueInv
  <2>4. CASE AddSymbol
    <3>1. /\ e.kind = "add" /\ UNCHANGED <<overlay, sid>>
          /\ model' = [model EXCEPT ![e.symbol] = e.input]
      BY <2>4 DEF AddSymbol, Handle, e
    <3>2. e.symbol \in viz.created /\ e.input = Current
      BY <2>1, <3>1 DEF OwnEvent
    <3>3. \A s \in Symbols : model'[s] = IF s = e.symbol THEN Current ELSE model[s]
      BY <1>2, <3>1, <3>2
    <3>4. SymbolInv'
      BY <1>1, <1>3, <3>1, <3>2, <3>3 DEF QueueInv, SymbolInv, Added, Removed
    <3>5. OutcomeInv'
      BY <1>1, <1>3, <3>1 DEF QueueInv, OutcomeInv
    <3> QED BY <2>2, <3>4, <3>5 DEF QueueInv
  <2>5. CASE RemoveSymbols
    <3>1. /\ e.kind = "remove" /\ UNCHANGED <<overlay, sid>>
          /\ model' = [s \in Symbols |-> IF s \in e.symbols THEN NoInput ELSE model[s]]
      BY <2>5 DEF RemoveSymbols, Handle, e
    <3>2. e.symbols \intersect viz.created = {}
      BY <2>1, <3>1 DEF OwnEvent
    <3>3. \A s \in Symbols : model'[s] = IF s \in e.symbols THEN NoInput ELSE model[s]
      BY <3>1
    <3>4. SymbolInv'
      BY <1>1, <1>3, <3>1, <3>2, <3>3 DEF QueueInv, SymbolInv, Added, Removed
    <3>5. OutcomeInv'
      BY <1>1, <1>3, <3>1 DEF QueueInv, OutcomeInv
    <3> QED BY <2>2, <3>4, <3>5 DEF QueueInv
  <2>6. CASE ShowOutcome
    <3>1. e.kind = "end" /\ overlay' = ~e.ok /\ UNCHANGED <<sid, model>>
      BY <2>6 DEF ShowOutcome, Handle, e
    <3>2. overlay' \/ viz.ok
      BY <2>1, <3>1 DEF OwnEvent
    <3>3. SymbolInv'
      BY <1>1, <1>3, <3>1 DEF QueueInv, SymbolInv, Added, Removed
    <3>4. OutcomeInv'
      BY <1>1, <1>3, <3>1, <3>2 DEF QueueInv, OutcomeInv
    <3> QED BY <2>2, <3>3, <3>4 DEF QueueInv
  <2> QED BY <2>3, <2>4, <2>5, <2>6 DEF VizEvents
<1> QED BY <1>4, <1>5

(* The thread, with what it posts. *)
LEMMA VizThreadQueue ==
  ASSUME Inv, ReadInv, QueueInv, VizThread, UNCHANGED run
  PROVE  QueueInv'
<1>1. /\ viz \in Visualizer /\ inbox \in Seq(Event) /\ ThreadsInv
      /\ UNCHANGED <<shown, gui, sid, overlay, model>> /\ Current' = Current
  BY ThreadReads DEF Inv, TypeOK, VizTypeOK, Event
<1>2. CASE gui # "idle"
  <2>1. viz'.state \in {"armed", "started", "reading", "computing"} => viz'.created = {}
    BY <1>1 DEF VizThread, BeginRead, EndRead, ComputeSupplementedInput, CreateSymbol,
                EndRebuild, EmitEnd, Visualizer, QueueInv, SymbolInv
  <2> QED BY <1>1, <1>2, <2>1 DEF QueueInv, EventInv, SymbolInv, OutcomeInv
<1>3. CASE gui = "idle" /\ BeginRead
  <2>1. /\ viz.state = "started" /\ viz'.state = "reading" /\ viz'.snapshot = Present
        /\ viz'.created = {} /\ viz.created = {} /\ viz'.ok = viz.ok /\ inbox' = inbox
    BY <1>1, <1>3 DEF BeginRead, Visualizer, QueueInv, SymbolInv
  <2>2. EventInv'
    BY <1>1, <1>3, <2>1 DEF QueueInv, EventInv, OwnEvent
  <2>3. SymbolInv'
    BY <1>1, <1>3, <2>1 DEF SymbolInv, Present
  <2> QED BY <2>1, <2>2, <2>3 DEF QueueInv, OutcomeInv
<1>4. CASE gui = "idle" /\ EndRead
  <2>1. /\ viz.state = "reading" /\ viz'.state = "computing" /\ viz'.snapshot = viz.snapshot
        /\ viz'.created = viz.created /\ viz'.ok = viz.ok /\ inbox' = inbox
    BY <1>1, <1>4 DEF EndRead, Visualizer
  <2>2. EventInv'
    BY <1>1, <1>4, <2>1 DEF QueueInv, EventInv, OwnEvent
  <2>3. SymbolInv'
    BY <1>1, <1>4, <2>1 DEF QueueInv, SymbolInv, Added, Removed
  <2> QED BY <2>1, <2>2, <2>3 DEF QueueInv, OutcomeInv
<1>5. CASE gui = "idle" /\ ComputeSupplementedInput
  <2> DEFINE e == [kind |-> "sid", input |-> viz.input]
  <2>1. /\ viz.state = "computing" /\ viz'.state = "creating" /\ viz'.snapshot = viz.snapshot
        /\ viz'.created = viz.created /\ viz'.ok = viz.ok /\ viz.created = {}
        /\ Post(e)
    BY <1>1, <1>5 DEF ComputeSupplementedInput, Visualizer, QueueInv, SymbolInv
  <2>2. e \in VizEvent /\ viz.input = Current
    BY <1>1, <1>5, <2>1 DEF ThreadsInv, VizEvent, ReadInv
  <2>3. Queued(inbox') = Queued(inbox) \union {e}
    BY <1>1, <2>1, <2>2, PostInv
  <2>4. EventInv'
    BY <1>1, <1>5, <2>1, <2>2, <2>3 DEF QueueInv, EventInv, OwnEvent
  <2>5. SymbolInv'
    BY <1>1, <1>5, <2>1, <2>3 DEF QueueInv, SymbolInv, Added, Removed
  <2>6. e.kind = "sid"
    OBVIOUS
  <2> HIDE DEF e
  <2>7. OutcomeInv'
    BY <2>1, <2>3, <2>6 DEF OutcomeInv
  <2> QED BY <2>4, <2>5, <2>7 DEF QueueInv
<1>6. CASE gui = "idle" /\ CreateSymbol
  <2>1. PICK s \in Symbols \ viz.created :
          /\ viz.state = "creating"
          /\ viz' = [viz EXCEPT !.created = @ \union {s}]
          /\ Post([kind |-> "add", symbol |-> s, input |-> viz.input])
    BY <1>6 DEF CreateSymbol
  <2> DEFINE e == [kind |-> "add", symbol |-> s, input |-> viz.input]
  <2>2. /\ e \in VizEvent /\ viz.input = Current
        /\ viz'.state = "creating" /\ viz'.snapshot = viz.snapshot
        /\ viz'.created = viz.created \union {s} /\ viz'.ok = viz.ok
    BY <1>1, <1>6, <2>1 DEF ThreadsInv, VizEvent, ReadInv, Visualizer
  <2>3. Queued(inbox') = Queued(inbox) \union {e}
    BY <1>1, <2>1, <2>2, PostInv
  <2>4. e.kind = "add" /\ e.symbol = s /\ e.input = Current
    BY <2>2
  <2> HIDE DEF e
  <2>5. EventInv'
    BY <1>1, <1>6, <2>1, <2>2, <2>3, <2>4 DEF QueueInv, EventInv, OwnEvent
  <2>6. SymbolInv'
    BY <1>1, <1>6, <2>1, <2>2, <2>3, <2>4 DEF QueueInv, SymbolInv, Added, Removed
  <2>7. OutcomeInv'
    BY <1>1, <1>6, <2>1, <2>2, <2>3 DEF QueueInv, OutcomeInv
  <2> QED BY <2>5, <2>6, <2>7 DEF QueueInv
<1>7. CASE gui = "idle" /\ EndRebuild
  <2>1. PICK ok \in BOOLEAN :
          /\ viz.state = "creating" \/ (viz.state = "computing" /\ ~ok)
          /\ viz' = [viz EXCEPT !.state = "finished", !.ok = ok]
          /\ Post([kind |-> "remove",
                   symbols |-> Present \intersect (viz.snapshot \ viz.created)])
    BY <1>7 DEF EndRebuild
  <2> DEFINE e == [kind |-> "remove",
                   symbols |-> Present \intersect (viz.snapshot \ viz.created)]
  <2>2. /\ e \in VizEvent
        /\ viz'.state = "finished" /\ viz'.snapshot = viz.snapshot
        /\ viz'.created = viz.created /\ viz'.ok = ok
    BY <1>1, <2>1 DEF VizEvent, Visualizer, Present
  <2>3. Queued(inbox') = Queued(inbox) \union {e}
    BY <1>1, <2>1, <2>2, PostInv
  <2>4. e.kind = "remove" /\ e.symbols = Present \intersect (viz.snapshot \ viz.created)
    OBVIOUS
  <2> HIDE DEF e
  <2>5. EventInv'
    BY <1>1, <1>7, <2>1, <2>2, <2>3, <2>4 DEF QueueInv, EventInv, OwnEvent
  <2>6. SymbolInv'
    <3> SUFFICES ASSUME NEW s \in Symbols
                 PROVE  /\ s \in viz.created => model[s] = Current \/ Added(s)'
                        /\ s \notin viz.created =>
                             /\ model[s] = NoInput \/ s \in viz.snapshot
                             /\ model[s] = NoInput \/ Removed(s)'
      BY <1>1, <2>2 DEF SymbolInv
    <3>1. /\ s \in viz.created => model[s] = Current \/ Added(s)
          /\ s \notin viz.created => model[s] = NoInput \/ s \in viz.snapshot
      BY <1>7, <2>1 DEF QueueInv, SymbolInv
    <3>2. s \notin viz.created /\ model[s] # NoInput => s \in e.symbols
      BY <2>4, <3>1 DEF Present
    <3> QED BY <2>3, <2>4, <3>1, <3>2 DEF Added, Removed
  <2>7. OutcomeInv'
    BY <1>1, <1>7, <2>1, <2>2, <2>3 DEF QueueInv, OutcomeInv
  <2> QED BY <2>5, <2>6, <2>7 DEF QueueInv
<1>8. CASE gui = "idle" /\ EmitEnd
  <2> DEFINE e == [kind |-> "end", ok |-> viz.ok]
  <2>1. /\ viz.state = "finished" /\ viz'.state = "done" /\ viz'.snapshot = viz.snapshot
        /\ viz'.created = viz.created /\ viz'.ok = viz.ok /\ Post(e)
    BY <1>1, <1>8 DEF EmitEnd, Visualizer
  <2>2. e \in VizEvent /\ e.kind = "end" /\ e.ok = viz.ok
    BY <1>1 DEF VizEvent, Visualizer
  <2> HIDE DEF e
  <2>3. Queued(inbox') = Queued(inbox) \union {e}
    BY <1>1, <2>1, <2>2, PostInv
  <2>4. EventInv'
    BY <1>1, <1>8, <2>1, <2>2, <2>3 DEF QueueInv, EventInv, OwnEvent
  <2>5. SymbolInv'
    BY <1>1, <1>8, <2>1, <2>3 DEF QueueInv, SymbolInv, Added, Removed
  <2>6. OutcomeInv'
    BY <1>1, <1>8, <2>1, <2>2, <2>3 DEF QueueInv, OutcomeInv
  <2> QED BY <2>4, <2>5, <2>6 DEF QueueInv
<1> QED BY <1>2, <1>3, <1>4, <1>5, <1>6, <1>7, <1>8 DEF VizThread

LEMMA QueueNext == Inv /\ ReadInv /\ QueueInv /\ [Next]_vars => QueueInv'
<1> SUFFICES ASSUME Inv, ReadInv, QueueInv, [Next]_vars PROVE QueueInv'
  OBVIOUS
<1>1. CASE OnRunAnalysis \/ OnCancel \/ RunThread \/ UNCHANGED vars
  <2>1. UNCHANGED <<shown, viz, sid, overlay, model, gui, inbox>> /\ Current' = Current
    BY <1>1 DEF OnRunAnalysis, OnCancel, RunThread, RunBeginsRead, RunEndsRead, vars, vizVars,
       Current
  <2> QED BY <2>1, OtherEventsQueue
<1>2. CASE RunEnds
  <2>1. UNCHANGED <<shown, viz, sid, overlay, model, gui>> /\ Current' = Current
    BY <1>2 DEF RunEnds, Current
  <2>2. PICK outcome \in Outcome :
          Queued(inbox') = Queued(inbox) \union {[kind |-> "run", outcome |-> outcome]}
    BY <1>2, RunEndsInv
  <2>3. [kind |-> "run", outcome |-> outcome].kind \notin VizKind
    BY DEF VizKind
  <2> QED BY <2>1, <2>2, <2>3, OtherEventsQueue
<1>3. CASE OnRunEnded
  <2>1. gui' = gui /\ Current' = Current /\ "run" \notin VizKind
    BY <1>3, OnRunEndedInv DEF Current, VizKind
  <2> QED BY <1>3, <2>1, OnRunEndedInv, OtherEventsQueue
<1>4. CASE VizEvents
  BY <1>4, VizEventsQueue
<1>5. CASE VizThread /\ UNCHANGED run
  BY <1>5, VizThreadQueue
<1>6. CASE TimerFires
  BY <1>6, TimerQueue
<1>7. CASE StopReturns
  <2>1. viz'.state = "armed" /\ viz'.created = {}
    BY <1>7 DEF StopReturns, NewVisualizer
  <2> QED BY <2>1, ArmedQueue
<1>8. CASE (OnParameterSetChanged \/ OnFileNameChanged) /\ UNCHANGED run
  <2>1. \/ gui' = "stopping" /\ viz' = viz
        \/ viz'.state = "armed" /\ viz'.created = {}
    BY <1>8, EditingInv
  <2> QED BY <2>1, ArmedQueue
<1>9. CASE OnWorkspaceChanged /\ UNCHANGED run
  BY <1>9, DialogInv, OtherEventsQueue
<1>10. CASE Close
  <2>1. Queued(inbox') = Queued(inbox) \union {[kind |-> "delete"]}
        /\ UNCHANGED <<viz, sid, overlay, model, gui>> /\ Current' = Current
    BY <1>10, CloseInv DEF Current
  <2>2. [kind |-> "delete"].kind \notin VizKind
    BY DEF VizKind
  <2> QED BY <2>1, <2>2, OtherEventsQueue
<1>11. CASE DeleteForm \/ LateEvent \/ RunJoined \/ ChildrenGone \/ Closed \/ ThreadFaults
  <2>1. gui' # "idle" /\ (viz' = viz \/ viz'.state = "none")
    BY <1>11, ClosingInv
  <2> QED BY <2>1, ArmedQueue
<1> QED BY <1>1, <1>2, <1>3, <1>4, <1>5, <1>6, <1>7, <1>8, <1>9, <1>10, <1>11
        DEF Next, Visualizing, Events, Waiting, User, Editing, RunThread

(* An editor at rest shows the sid and the symbols of its parameters, made *)
(* in the directory of its visualizer, or that the visualization failed,   *)
(* however many visualizations were interrupted or discarded before, with  *)
(* whatever they had in the queue; and that directory is the one of the    *)
(* form, unless the workspace dialog has set another since.                *)
THEOREM NothingStale == Spec => []RestIsCurrent
<1>1. Init => QueueInv
  BY InvInit
<1>2. Inv /\ ReadInv /\ QueueInv => RestIsCurrent
  <2> SUFFICES ASSUME Inv, ReadInv, QueueInv, AtRest
               PROVE  /\ viz.dir = shown.dir \/ viz.moved
                      /\ overlay \/ sid = Current
                      /\ \A s \in Symbols : model[s] \in {Current, NoInput}
                      /\ Present = viz.created
    BY DEF RestIsCurrent
  <2>1. /\ gui = "idle" /\ viz.state = "done"
        /\ \A e \in Queued(inbox) : e.kind \notin {"sid", "add", "remove", "end"}
    BY DEF AtRest, VizPending, Queued
  <2>2. overlay \/ sid = Current
    BY <2>1 DEF QueueInv, OutcomeInv
  <2>3. \A s \in Symbols : model[s] = IF s \in viz.created THEN Current ELSE NoInput
    BY <2>1 DEF QueueInv, SymbolInv, Added, Removed
  <2>4. shown \in Input /\ viz \in Visualizer
    BY DEF Inv, TypeOK, VizTypeOK
  <2>6. Current \in Input
    BY <2>4 DEF Current, Input, Visualizer
  <2>7. Current # NoInput /\ viz.created \subseteq Symbols
    BY <2>4, <2>6, ConstantsAssumption DEF Visualizer
  <2>5. viz.dir = shown.dir \/ viz.moved
    BY <2>1 DEF ReadInv
  <2> QED BY <2>2, <2>3, <2>5, <2>7 DEF Present
<1> QED BY Invariant, QueueNext, <1>1, <1>2, PTL DEF Spec
-----------------------------------------------------------------------------
(* What the end of a run, and the waits of the GUI thread, rest on beside  *)
(* fair scheduling.                                                        *)

Open == gui \in {"idle", "stopping", "closing"}

(* The event of a run's end is not lost on its way to the form: as long as *)
(* the form exists and has the ended run, the event that deletes it is in  *)
(* the queue, whatever the visualizer posts and the form handles beside it *)
(* (localrun.cpp 77-122).  KillEndsRun adds that the thread ends, and that *)
(* the queue is worked off.                                                *)
EndIsTold ==
  Open /\ run.state = "ended" => \E e \in Queued(inbox) : e.kind = "run"

LEMMA EndNext == Inv /\ ReadInv /\ EndIsTold /\ [Next]_vars => EndIsTold'
<1> SUFFICES ASSUME Inv, ReadInv, EndIsTold, [Next]_vars PROVE EndIsTold'
  OBVIOUS
<1>0. inbox \in Seq(Event) /\ run \in Run
  BY DEF Inv, TypeOK, Event
<1>1. ASSUME UNCHANGED run, Open' => Open, Queued(inbox) \subseteq Queued(inbox')
      PROVE  EndIsTold'
  BY <1>1 DEF EndIsTold
<1>2. CASE VizEvents /\ UNCHANGED run
  <2>1. /\ inbox # <<>> /\ inbox' = Tail(inbox) /\ gui' = gui
        /\ Head(inbox).kind \in {"sid", "add", "remove", "end"}
    BY <1>2 DEF VizEvents, OnUpdateSupplementedInputData, AddSymbol, RemoveSymbols,
       ShowOutcome, Handle
  <2>2. Queued(inbox) = Queued(inbox') \union {Head(inbox)}
    BY <1>0, <2>1, TailQueue
  <2> QED BY <1>2, <2>1, <2>2 DEF EndIsTold, Open
<1>3. ASSUME UNCHANGED <<gui, run>>, NEW e \in VizEvent, Post(e)
      PROVE  EndIsTold'
  BY <1>1, <1>3, PostInv DEF Open
<1>4. CASE VizThread /\ UNCHANGED run
  <2>1. gui' = gui
    BY <1>4, ThreadReads
  <2>2. viz \in Visualizer /\ (viz.state \in {"computing", "creating"} => viz.input \in Input)
    BY DEF Inv, TypeOK, VizTypeOK, ThreadsInv
  <2>3. CASE BeginRead \/ EndRead
    BY <1>1, <1>4, <2>1, <2>3 DEF BeginRead, EndRead, Open
  <2>4. CASE ComputeSupplementedInput
    <3>1. [kind |-> "sid", input |-> viz.input] \in VizEvent
      BY <2>2, <2>4 DEF ComputeSupplementedInput, VizEvent
    <3> QED BY <1>3, <1>4, <2>1, <2>4, <3>1 DEF ComputeSupplementedInput
  <2>5. CASE CreateSymbol
    <3>1. PICK s \in Symbols : /\ viz.state = "creating"
                               /\ Post([kind |-> "add", symbol |-> s, input |-> viz.input])
      BY <2>5 DEF CreateSymbol
    <3>2. [kind |-> "add", symbol |-> s, input |-> viz.input] \in VizEvent
      BY <2>2, <3>1 DEF VizEvent
    <3> QED BY <1>3, <1>4, <2>1, <3>1, <3>2
  <2>6. CASE EndRebuild
    <3>1. Post([kind |-> "remove",
                symbols |-> Present \intersect (viz.snapshot \ viz.created)])
      BY <2>6 DEF EndRebuild
    <3>2. [kind |-> "remove",
           symbols |-> Present \intersect (viz.snapshot \ viz.created)] \in VizEvent
      BY DEF Present, VizEvent
    <3> QED BY <1>3, <1>4, <2>1, <3>1, <3>2
  <2>7. CASE EmitEnd
    <3>1. [kind |-> "end", ok |-> viz.ok] \in VizEvent
      BY <2>2 DEF Visualizer, VizEvent
    <3> QED BY <1>3, <1>4, <2>1, <2>7, <3>1 DEF EmitEnd
  <2> QED BY <1>4, <2>3, <2>4, <2>5, <2>6, <2>7 DEF VizThread
<1>5. CASE Editing /\ UNCHANGED run
  <2>1. /\ gui = "idle"
        /\ \/ inbox' = inbox
           \/ Post([kind |-> "end", ok |-> viz.ok])
    BY <1>5 DEF Editing, OnParameterSetChanged, OnFileNameChanged, OnWorkspaceChanged,
       RebuildVisualization
  <2>2. [kind |-> "end", ok |-> viz.ok] \in Event
    BY DEF Event, VizEvent, Inv, TypeOK, VizTypeOK, Visualizer
  <2>3. Queued(inbox) \subseteq Queued(inbox')
    BY <1>0, <2>1, <2>2, AppendQueue DEF Post
  <2> QED BY <1>1, <1>5, <2>1, <2>3 DEF Open
<1>6. CASE RunEnds
  <2>1. PICK outcome \in Outcome :
          Queued(inbox') = Queued(inbox) \union {[kind |-> "run", outcome |-> outcome]}
    BY <1>6, RunEndsInv
  <2>2. [kind |-> "run", outcome |-> outcome] \in Queued(inbox')
    BY <2>1
  <2> QED BY <2>2 DEF EndIsTold
<1>7. CASE OnRunEnded
  <2>1. run' = NoRun \/ gui' = "crashed"
    BY <1>7 DEF OnRunEnded
  <2> QED BY <2>1 DEF EndIsTold, NoRun, Open
<1>8. CASE OnRunAnalysis \/ OnCancel \/ RunThread
  <2>1. UNCHANGED <<inbox, gui>>
    BY <1>8 DEF OnRunAnalysis, OnCancel, RunThread, RunBeginsRead, RunEndsRead, vizVars
  <2>2. run'.state = "ended" => run.state = "ended"
    <3>1. CASE OnRunAnalysis
      BY <1>0, <3>1 DEF OnRunAnalysis, Run
    <3>2. CASE OnCancel
      BY <1>0, <3>2 DEF OnCancel, Run
    <3>3. CASE RunBeginsRead
      <4>1. run.state = "starting" /\ run.input \in Input
        BY <3>3 DEF RunBeginsRead, Inv, ThreadsInv
      <4>2. run' = [run EXCEPT !.state = "reading",
                               !.input = [run.input EXCEPT !.params = shown.params]]
        BY <1>0, <3>3, <4>1 DEF RunBeginsRead, Run
      <4> QED BY <1>0, <4>2 DEF Run
    <3>4. CASE RunEndsRead
      <4>1. run.state = "reading" /\ run.input \in Input
        BY <3>4 DEF RunEndsRead, Inv, ThreadsInv
      <4>2. run' = [run EXCEPT !.state = "working",
                     !.input = [run.input EXCEPT !.torn = run.input.params # shown.params]]
        BY <1>0, <3>4, <4>1 DEF RunEndsRead, Run
      <4> QED BY <1>0, <4>2 DEF Run
    <3> QED BY <1>8, <3>1, <3>2, <3>3, <3>4 DEF RunThread
  <2> QED BY <2>1, <2>2 DEF EndIsTold, Open
<1>9. CASE Close
  BY <1>1, <1>9, CloseInv DEF Open
<1>10. CASE DeleteForm
  <2>1. /\ gui = "idle" /\ inbox # <<>> /\ inbox' = Tail(inbox)
        /\ Head(inbox).kind = "delete" /\ run'.state = run.state
    BY <1>0, <1>10 DEF DeleteForm, Run
  <2>2. Queued(inbox) = Queued(inbox') \union {Head(inbox)}
    BY <1>0, <2>1, TailQueue
  <2> QED BY <2>1, <2>2 DEF EndIsTold, Open
<1>13. CASE LateEvent \/ RunJoined \/ ChildrenGone \/ Closed \/ ThreadFaults
  <2>1. gui' \in {"destroying", "joining", "closed", "crashed"}
    BY <1>13 DEF LateEvent, RunJoined, ChildrenGone, Closed, ThreadFaults
  <2> QED BY <2>1 DEF EndIsTold, Open
<1>11. CASE (TimerFires \/ StopReturns) /\ UNCHANGED run
  BY <1>1, <1>11 DEF TimerFires, StopReturns, Open
<1>12. CASE UNCHANGED vars
  BY <1>1, <1>12 DEF vars, vizVars, Open
<1> QED BY <1>2, <1>4, <1>5, <1>6, <1>7, <1>8, <1>9, <1>10, <1>11, <1>12, <1>13
        DEF Next, Visualizing, Events, Waiting, User

THEOREM EndTold == Spec => []EndIsTold
<1>1. Init => EndIsTold
  BY DEF Init, EndIsTold, NoRun
<1> QED BY Invariant, EndNext, <1>1, PTL DEF Spec

(* Where the GUI thread waits for another one, that one is there and comes *)
(* to an end: after a change of the input the visualizer has a thread,     *)
(* which had been started; on closing the run has been interrupted; and    *)
(* after the wait there is no run left to be told of                       *)
(* (cadparametersetvisualizer.cpp 289-297, localrun.cpp 39-62).            *)
JoinsEnd ==
  /\ gui = "stopping" => viz.state \in Running \union {"finished", "done"}
  /\ gui = "closing" => run.state = "none" \/ run.interrupt
  /\ gui \in {"destroying", "joining", "closed"} => run = NoRun

THEOREM JoinsOnlyWhatEnds == Spec => []JoinsEnd
<1>1. Init => JoinsEnd
  BY DEF Init, VizInit, JoinsEnd
<1>2. Inv /\ ReadInv /\ JoinsEnd /\ [Next]_vars => JoinsEnd'
  <2> SUFFICES ASSUME Inv, ReadInv, JoinsEnd, [Next]_vars PROVE JoinsEnd'
    OBVIOUS
  <2>0. run \in Run /\ viz \in Visualizer
    BY DEF Inv, TypeOK, VizTypeOK
  <2>1. CASE UNCHANGED <<gui, viz, run>>
    BY <2>1 DEF JoinsEnd
  <2>2. CASE VizThread /\ UNCHANGED run
    <3>1. gui' = gui
      BY <2>2, ThreadReads
    <3>2. viz'.state \in Running \union {"finished", "done"}
      BY <2>0, <2>2 DEF VizThread, BeginRead, EndRead, ComputeSupplementedInput,
         CreateSymbol, EndRebuild, EmitEnd, Visualizer, Running
    <3> QED BY <2>2, <3>1, <3>2 DEF JoinsEnd
  <2>3. CASE Editing /\ UNCHANGED run
    <3>1. /\ gui = "idle"
          /\ \/ gui' = "stopping" /\ viz' = viz /\ viz.state \in Running
             \/ gui' = "idle"
      BY <2>3 DEF Editing, OnParameterSetChanged, OnFileNameChanged, OnWorkspaceChanged,
         RebuildVisualization
    <3> QED BY <2>3, <3>1 DEF JoinsEnd
  <2>4. CASE OnRunEnded \/ OnRunAnalysis \/ OnCancel \/ Close
             \/ ((TimerFires \/ StopReturns) /\ UNCHANGED run)
    <3>1. gui' \in {"idle", "crashed"}
      BY <2>4 DEF OnRunEnded, OnRunAnalysis, OnCancel, Close, TimerFires, StopReturns, vizVars
    <3> QED BY <3>1 DEF JoinsEnd
  <2>5. CASE RunThread \/ RunEnds
    <3>1. /\ UNCHANGED <<gui, viz>> /\ run'.interrupt = run.interrupt
          /\ run.state # "none"
      BY <2>0, <2>5 DEF RunThread, RunBeginsRead, RunEndsRead, RunEnds, vizVars, Run
    <3> QED BY <3>1 DEF JoinsEnd, NoRun
  <2>6. CASE DeleteForm
    <3>1. gui' = "closing" /\ run'.state = run.state /\ run'.interrupt = (run.state # "none")
      BY <2>0, <2>6 DEF DeleteForm, Run
    <3> QED BY <3>1 DEF JoinsEnd
  <2>7. CASE LateEvent \/ RunJoined \/ ChildrenGone \/ Closed \/ ThreadFaults
    <3>1. \/ gui' \in {"destroying", "joining", "closed"} /\ run' = NoRun
          \/ gui' = "crashed"
      BY <2>7 DEF LateEvent, RunJoined, ChildrenGone, Closed, ThreadFaults, JoinsEnd
    <3> QED BY <3>1 DEF JoinsEnd
  <2>8. CASE (VizEvents /\ UNCHANGED run) \/ UNCHANGED vars
    BY <2>1, <2>8, QuietSteps DEF vars, vizVars
  <2> QED BY <2>2, <2>3, <2>4, <2>5, <2>6, <2>7, <2>8
          DEF Next, Visualizing, Events, Waiting, User
<1> QED BY Invariant, <1>1, <1>2, PTL DEF Spec
=============================================================================
