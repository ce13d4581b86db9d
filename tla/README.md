# InsightCAE: a TLA+ verification project

InsightCAE sets up, runs and evaluates simulations (mostly OpenFOAM). This
directory models the part of it where several threads, two processes and a
network have to agree about one analysis: the server `analyze --server`, the
workbench that starts it on a remote host, polls it and takes it down again,
the worker threads of a parameter study - and the form of the workbench itself,
whose editor, autosave files, visualizer and local runs meet in one GUI thread.

Modules are translated from the C++ sources; `PROJECT.json` names the lines of
each definition. Comments give file and line where a statement is about code.

## 1. Inventory

### Components with control worth modelling

| Component | State | Operations | Interacts with | Hard about it |
|---|---|---|---|---|
| main thread of `analyze --server` (`src/src/analyze/analyze.cpp`) | how far it is; result set | start server, read input, launch solver, join, report, wait for shutdown | solver thread (join), REST handlers (shared pointers without a lock) | every step may fall between two requests |
| REST handlers (`analyze/restapi.cpp`) | `analysisThread_`, `results_`, `exception_`, queues of states | status, results, parameters, exepath, kill, exit, wnow | main thread, solver thread, HTTP clients | dangling and null pointers, queues emptied without the lock |
| analysis thread (`toolkit/base/insightthread.*`, `analysisthread.*`) | boost thread, stored exception | launch, interrupt, join | main thread, parameter study | exceptions by type, interruption |
| HTTP client (`toolkit_remote/analyzeclient.*`) | one `currentAction_` | launch, answer, abort | io thread and GUI thread of the workbench, network | one transaction, timeout never armed |
| remote run (`workbench/remoterun.*`) | flags, undo list, results, next task | a chain of about ten tasks, undo steps | client, server, remote host, form | failures and user actions between any two tasks |
| analysis form (`workbench/analysisform_*.cpp`) | `currentWorkbenchAction_` | run, resume, kill, disconnect, write now, slots | remote run (owns it, is told by queued signals) | slots that meet a deleted run; a destructor that blocks |
| remote workspace (`remotelocation.cpp`, `remoteexecution.cpp`, `iqremoteexecutionstate.cpp`) | directory, port | commit, initialise, clean up | remote host | removed from under a server |
| parameter study (`toolkit/base/parameterstudy.cpp`) and its queue (`analysis.cpp`) | queue, `processed_`, workers | enqueue, dequeue, store, evaluate | worker threads | check-then-act, unlocked push_back |
| progress relay (`restapi.cpp`, `streamredirector.cpp`, `textprogressdisplayer.cpp`, `analyzeclient.cpp`) | three queues, their lock, the lock of the redirected output | report, print, empty, replay | threads of the analysis, handlers, client | lost answers, unlocked pops, printing inside of printing |
| local run (`workbench/localrun.cpp`, `analysisform_localactions.cpp`) | thread, its input, the same form | launch, cancel, end, destroy | form, visualizer (takes its supplemented input data) | a Kill that races the end; closing joins the thread |
| rebuilders and visualizers (`cadparametersetvisualizer.cpp`, `parametereditorwidget.cpp`, `iqiscadmodelrebuilder.cpp`) | visualizer with timer and thread, supplemented input data, symbols of the CAD model | change, replace, read, compute, recreate, remove | parameters of the editor, the GUI thread's event queue | interrupted anywhere; results and symbols of an outdated input |
| undo and redo stack (`iqundoredostack.cpp`, `iqhierarchicaldatamodel.cpp`) | two stacks, a copy of the data | record, undo, redo, block | editor | long sequences of legal calls, some of them not recorded |
| editor with savable state (`editorwithsavablestate.cpp`, `analysisform.cpp`) | flag, timer, file and autosave file | load, save, autosave, recover, close | undo stack, files | the program dies, a write fails |

What makes each correct:

- **server**: what it announces is what happened, is announced once, and stays;
  every request in every phase is answered from objects that exist; it ends
  when asked, and only then, once there is an outcome.
- **remote run**: one verdict for each run; nothing the user did not ask for
  is stopped or removed; results are fetched before the server is told to exit
  and its directory is removed; nobody waits forever.
- **progress relay**: what the analysis tells reaches the display in order and
  once, nothing gets stuck behind the locks, and only one thread is inside of a
  queue.
- **parameter study**: each variant analysed exactly once, each in the
  evaluation, and an end.
- **visualizer and local run**: an editor at rest shows what belongs to its
  input and nothing older; no change is lost; a run's end finds the run; the GUI
  thread is not blocked for good by a thread it joins.
- **editor**: what is not marked as modified is in the file; once the autosave
  timer has run out a death of the program loses nothing; redo gives back what
  undo took.

### The rest

CAD kernel, parameter and result trees, OpenFOAM dictionaries, the PDL
compiler, Qt item models, viewers, command line tools, analysis modules,
extensions and third-party code hold most of the lines and no concurrency of
the program's own. Section 5 says why they are not modelled.

## 2. Modules

```
AnalysisJob        abstract: what a server is to a client that polls it
   ^ implemented by              ^ composed with
AnalyzeServer                 RemoteRun  <- AnalyzeClient
   |                             |
AnalyzeServerProofs           RemoteRunProofs   - RemoteOutcomeProofs
                                                     |
                                              RemoteProgressProofs

StateRelay                    ParameterStudy
queues between analysis,      study, queue and workers
handlers and client              |
   |                          ParameterStudyProofs
StateRelayProofs

Visualization                 UndoRedo
   | extended by                 | extended by
LocalRun                      ParameterEditor
   |                             |
LocalRunProofs                ParameterEditorProofs
```

`RemoteRun` is not composed with the detailed server but with `AnalysisJob`.
That this is enough is what the refinement shows: `AnalyzeServer` implements
`AnalysisJob` (checked with fairness as `IsAnalysisJob`, the safety part proved
as `Refinement`).

Each module also holds a few *faulty variants* of its actions, the way a
plausible slip would leave the code; they are not part of any next-state
relation. `PROJECT.json` ("mutants") pairs each with the property that exposes it.

### AnalysisJob

`job` goes from `absent` over `started` (a process without an open port) and
`working` to `results` or `error`, and to `gone` from anywhere; `stopping` says
that it was asked to end.

### AnalyzeServer

| Variable | Code |
|---|---|
| `main` | program counter of `main()`, analyze.cpp 182-575, one value per stretch between two effects others can see |
| `listening` | return value of `server->start()` (198) |
| `solver`, `interrupt` | the thread function of `AnalysisThread`, and boost's interruption flag |
| `solverThread` | `analysisThread_`: null, live, or the address of a destroyed object |
| `results`, `exception` | `results_`, `exception_` |
| `stopScheduled` | `scheduleStop()` or SIGTERM |
| `reply` | the last response sent |

A request handler is one step; main makes one assignment per step, so that a
handler finds every state in between. A dereference of a null or dangling
pointer is undefined: the step may crash the process or answer as if nothing
had happened, as far as the code allows either. When the port cannot be opened
the code prints a message and goes on; so does the model. That the results were
fetched ends nothing: the code waits for an exit request (513), and the model with
it. The help text says otherwise (analyze.cpp:99), which is a finding of section 3. `Die` is a kill or a
fault of the process's own at any time, `Sigterm` a signal from outside, such
as the one of `BackgroundJob::kill()`.

### AnalyzeClient

One transaction: whose callback it carries, whether it was answered, with
what. The timeout callback every request is given does not occur, because no
override of `start()` arms it (analyzeclient.cpp 70 against 127, 271, 353);
what is left is the timeout of Wt's client, a failure like any other.

### RemoteRun

| Variable | Code |
|---|---|
| `job`, `stopping` | the server, an `AnalysisJob` |
| `request` | the client's transaction |
| `run` | the `RemoteRun` object: its next task in the io thread, attempts left, undo list, `killRequested_`, `disconnectRequested_`, `results_`, what the last status query told, and the verdict it has emitted |
| `dir` | the remote directory exists |
| `form` | `currentWorkbenchAction_`: `idle` (null), `running`, `deleting` (the GUI thread is inside `~RemoteRun`); `crashed` when the workbench meets undefined behaviour or an exception nobody catches |
| `events` | slot calls queued for the GUI thread |
| `option` | chosen at the start and kept: `temporary` workspace, `download` when finished, `writeNow` (the button may be pressed), `faults` (which of lost requests, a crashing server and failing remote commands may occur) |

Three parties take steps: the io thread (`Chain`), the GUI thread (`Slots`,
`Buttons`, `User`) and the outside (`Network`, `ServerStep`, `Environment`). One
action is one task or callback, with its early returns: `checkIfCancelled()`
is `Cancelled`, the return on a disconnect is `Disconnected`, the exception of
a busy client is `ClientBusy`, and every exception of a task leads to
`rollback`, where the undo list is worked off and `failed` is emitted.

`InitialiseWorkspace` and `CleanupWorkspace` are `RemoteLocation::initialize`
and `cleanup`: the directory is there afterwards, or is removed if it is a
temporary one.

### StateRelay

AnalyzeServer takes a request as one step; this module opens the handler of a
status query up to single pops, and adds what fills the queues it empties.

| Variable | Code |
|---|---|
| `pc`, `call` | where each thread of the analysis is: in which call of the displayer, before or inside of a lock |
| `mutex`, `mx` | the global `mutex_` of streamredirector.cpp, held while a printed line is handed to `logMessage()`, and `mx_` of the server, held around each `push_back` |
| `queue` | `recordedStates_`, `recordedProgressStates_`, `logLines_` |
| `job` | each handler's request: which queue it is emptying, whether it is inside of a pop, what it has taken, the flags it read at the end |
| `awaits`, `asked`, `replayed`, `told` | the workbench: the handler whose answer it waits for, what had been pushed when it asked, what it has shown, the outcome it knows |
| `memory` | becomes `corrupt` when two threads are inside of one queue, or one pops from an empty one |

A call of `update()` or `setActionProgressValue()` prints first (it is a
`TextProgressDisplayer`), which comes back as a log line through the redirected
`std::cout`, and pushes its own entry then. A data race is undefined behaviour:
`Race` stops the model, since nothing can be said of the process from there on,
but is not forced: an execution in which overlapping operations happen to do no
harm goes on, and must keep the properties.

### ParameterStudy

The queue is the interval `taken+1 .. generated` of variants: it is filled
before the first worker starts and emptied from its front.

| Variable | Code |
|---|---|
| `main` | the main thread: `setup` of the queue, `joining` (`create_thread`, `join_all`), `evaluated`, `failed` by an exception, `abandoned` (gone with workers at work), `crashed` |
| `generated`, `taken` | the queue |
| `started`, `pc`, `item`, `success` | the workers, and what each has in hand |
| `raised` | workers with an `exception_` |
| `processed`, `seen` | `processed_`, and where each worker inside of `storeProcessed()` has seen its end |
| `clash` | history: variants whose storing overlapped with another one's |

`dequeue()` is one step (it holds the lock), `isEmpty()` a step of its own (it does
not), and `storeProcessed()` one that reads the end of the vector and one that
writes behind what it has read or what is there now, because it is an unlocked
`push_back`: without an overlap both are the same, with one an entry may be
overwritten. As that is undefined, it may also end the process (`Crash`).

An exception of an analysis is an outcome like any other. One of `dequeue()`, of the
progress displayer, of the warning that reports a failure or of `storeProcessed()`
leaves the loop of the worker (`Raise`, analysisthread.cpp:172): the thread is over,
and the others find the rest in the queue. After `join_all()` it is thrown again
(`Evaluate`, parameterstudy.cpp 337-340), so that such a study fails. An exception of
the main thread itself, of `create_thread` or of an interrupted `join_all()`, destroys
the objects the workers run in (`Abandon`); what they do then may be anything.

### Visualization and LocalRun

`Visualization` is the part of the form that follows the input. `LocalRun`
extends it with the run and the closing of the form, and composes both.

| Variable | Code |
|---|---|
| `shown` | the input of the editor: the version of its parameters and of its directory |
| `viz` | `viz_` of the editor: timer, thread, `workDir_`, what it has read, the rebuilder's `symbolsSnapshot_` and what it has recreated; `moved` is history: the workspace dialog has set another directory since it was made |
| `inbox` | the event queue of the GUI thread, with the queued signals of both threads and the posted deletion of the form |
| `sid` | `AnalysisForm::sid_`, as the input it was computed from |
| `overlay` | the message that the visualization failed |
| `model` | the symbols of the CAD model, each as the input it was made from |
| `gui` | `idle`, or where the GUI thread waits: `stopping` (joins the visualizer on a change); inside the deletion of the form `closing` (joins the run), `destroying` (the members of the form are gone), `joining` (its children too, as far as they come before the visualizer, which joins its thread); then `closed` or `crashed` |
| `run` | `currentWorkbenchAction_`: thread, interruption, input, or none |

A version that was read while it changed is `torn`: reading is two steps of the
thread, and the GUI thread may change the parameters between them. Every change
discards the visualizer; a thread at work is interrupted and joined with the
GUI thread waiting, one that has not been started is only dropped. The end of a
rebuild, in whatever way, lists the symbols that were there before and were not
recreated, and queues their removal.

The directory changes in two ways. A new file name drops the `sid` and rebuilds
(`OnFileNameChanged`); the dialog "Setup Workspace" replaces the execution environment and
does neither (`OnWorkspaceChanged`), so that `sid` and visualizer stay those of the
directory before until the next change of the parameters or the file.

Closing the form posts its deletion (`Close`, `DeleteForm`). The run is then interrupted
and joined, the members of the form are destroyed, the children after them in the
order of their making: the display with the CAD model before the visualizer, and
of that the derived part before the base class, which interrupts and joins its thread.
A thread at work meanwhile reports its progress to, lists the symbols of, or calls
what is gone (`ThreadFaults`). What the form and its children were to receive goes with
them; the changes of the CAD model do not, because they were posted to the
application, with a plain pointer to the model (iqiscadmodelrebuilder.cpp:47): they
are executed after it is gone (`LateEvent`).

Three things are taken from the event loop rather than from the code: events are
handled in the order they were posted, the 100 ms timer of a new visualizer
fires after what its predecessor had queued was handled, and listing the symbols
from the visualizer's thread (without a lock) is one step. An analysis without a
visualizer has no such thread and is the case in which `viz` stays `none`. The null pointer
`computeSupplementedInput()` may return (cadparametersetvisualizer.cpp:239) does not
occur, since that of an analysis form makes one in any case.

### UndoRedo and ParameterEditor

| Variable | Code |
|---|---|
| `data`, `base` | the parameter set, and `dataBeforeLastChange_` |
| `undoStates`, `redoStates`, `redoEnabled` | the stacks, and the menu's redo action, which a new change disables while the states stay |
| `undone` | history: what the last step has undone, for `RedoReturns` |
| `app` | there is a form |
| `name`, `modified`, `pending` | `currentFileName_`, `isModified_`, `autosaveMinIntervalTimer_` is active |
| `saved` | the files that were saved since that timer was started |
| `files`, `autosaves`, `newer` | the files, their autosave files, and whether those were written in a later second |
| `fresh` | bound: each edit makes a content not seen before |
| `astray` | history: the content was recovered from an autosave file, or a load or write failed, since the last good save or load |

An edit is recorded, a merge or load changes the data with recording blocked, so
that `base` stays behind. Save writes in place, does not look at the outcome and
removes the autosave file; an autosave needs a name; loading takes the name
first, offers a newer autosave file, and removes it when it was loaded. A death
of the program loses the form and may leave a torn file. The user's answers to
the dialogs are choices of the model. The times of the two
files are compared in whole seconds (analysisform.cpp:790): an autosave in the second of
a save is not newer and is not offered. The timer runs for five seconds
(analysisform.h:160) and a save does not stop it, so that only one that was running at
the save can run out that soon; that is what `saved` is for.
The 3D viewer, which may also report a modification (analysisform.cpp:431), is
left out.

## 3. Runs

| Run | Bounds | Shows |
|---|---|---|
| `server` (AnalyzeServer.cfg) | none, the state space is finite | types, truth of the announcement, no dangling pointer once results are out, an outcome waits for its client, announced results are served, `AnalysisJob` is implemented, results get announced, exit ends the process |
| `remote` (RemoteRun.cfg) | 1 retry of the contact, 1 resumed run, every choice of faults, options and buttons | types, one verdict per run, no stop without a reason, a finished run is complete, results before stop, the workspace outlives a server at work, no slot without its run unless the user had it deleted, the outcome reaches the form, Kill ends the server, the destructor returns |
| `study` (ParameterStudy.cfg) | 3 workers, 4 variants | each variant once, evaluation last and of nothing an exception took away, outcomes missing only after an overlap, the work gets done by whoever is left |
| `relay` (StateRelay.cfg) | 2 threads of the analysis, 1 handler, 3 calls of any kind, no faults | types, the lock excludes the threads from each other, nothing vanishes, an answer is complete, the two locks do not deadlock |
| `local` (LocalRun.cfg) | 2 changes of parameters or directory (by file or dialog), 1 symbol | types, an editor at rest shows its own input, a program that dies only when a form is deleted with a visualization at work or its changes queued, a killed run ends, the GUI thread returns, the last change is visualized |
| `editor` (ParameterEditor.cfg) | contents 0 to 3, 2 files, deaths and failing writes | types, a truthful flag, nothing lost once the timer has run out, redo after undo, and that this comes about again and again |
| `relay_shared` (StateRelayShared.cfg) | 1 thread of the analysis, 2 handlers, 2 calls, another client that asks for `/next` and `/latest`, lost answers | what the workbench shows is in order and shown once |

Where the code does not do what is said of it, is a finding. For five of them a run shows
a behaviour that breaks the statement:

| Run | What happens |
|---|---|
| `remote_resumed_kill` | Kill in a resumed run: no undo steps, so the server works on while the form reports the analysis as interrupted |
| `remote_wnow` | write-now while a status query falls due: the client is busy, the exception ends in the rollback, the server is killed |
| `remote_silent` | a server that is gone is polled forever; the timeout callback that should report it is never armed |
| `relay_unlocked` | a handler pops while a thread of the analysis pushes: the handlers do not take `mx_`, although a displayer is to be safe to be called from different threads |
| `study_stuck` | two workers see one variant; the second waits in `dequeue()` forever, and `join_all()` with it |

For the sixth a run shows what holds instead. The help of `--server` says: "Once the
result set is fetched via the REST API, the application exits." (analyze.cpp:99). The code
goes on serving until it is asked to exit. `KeepsServing` (run `server`, theorem `Serving`)
says so, because this is what the rest of the program is built on: a remote run fetches
the results and then sends its own exit request (remoterun.cpp 409-432), and an answer
that was lost can be asked for again. It is the help text that should change.

**Why these bounds.** `MaxAttempts = 1` gives a first try, a retry and the
exhausted count, which is every branch of `waitForContact()`; the code's 20 adds
nothing but repetition. One resumed run meets a server (and a workspace) of an
earlier run in every state that run can leave behind; a second one would find the
same states. Each button is pressed at most once for a run, because the second
Kill finds the same flag. Three workers and four variants let a worker come back to
the queue while two others compete for it; a race needs two workers.
In the relay two threads of the analysis are what a lock is for, and three
calls let one thread report while the other waits for either lock and a query
is under way; of `update` and `finish`, the calls of `relay_shared`, one prints
and one does not, and between them they fill all three queues.
Handlers, clients and calls are unbounded in the theorems.
In `local` two changes let a visualizer be replaced that has itself replaced one,
so that events of the first are still queued when the third starts. In `editor`
content 0 is the default, 1 that of the files there are, and 2 and 3 are two
edits, so that undo and redo have two states to mix up; the second file is what
loading and saving under another name need. `RemoteRun` with
`MaxAttempts = 2` and `LocalRun` with three changes or two symbols hold the same
properties; they take longer and reach no other case.

**What the properties except.** Some guarantees hold only without faults or
interference, and the properties say which. `FinishedIsComplete` and
`ResultsBeforeStop` are about runs that are `Undisturbed` (no lost request, no
crash, no write-now), because `fetchResults()` does not look whether it got
anything. `WorkspaceOutlivesServer` and `KillStopsServer` are about runs whose
remote commands work: launching a background process may fail after it was
started. `StopNeedsReason` excepts runs with the write-now button, which
`remote_wnow` is about. `FormFindsRun` excepts runs the user had deleted while
their verdict was queued, or before they had one: a click at that moment does
lead to a null pointer, and no other course of events does. `NothingVanishes`
needs that no other client asks and no answer is lost. `LostOnlyByOverlap` allows for
overlapping calls of `storeProcessed()`, which have no defined outcome, and `WorkIsDone`
for a main thread that has left its workers behind, a process that died of either, and
exceptions that ended every worker. `CrashesOnlyOnClosing`
excepts a form that is deleted while the thread of its visualizer is at work, or
before its last changes of the CAD model were made: the code does die of both.
`RestIsCurrent` and `EventuallyCurrent` except the directory of the workspace
dialog (`viz.moved`): the code does not follow it, against the comment of
analysisform.cpp:416, by which a visualization is to be retriggered "since working
directory is stored in supplementInputData"; parameters and file names they do not except.
`FlagIsTrue` and `RecoverableWhenQuiet` except an editor that is `astray`, and
`RecoverableWhenQuiet` and `SoonRecoverable` take a content that is only in an
autosave file which is not offered (`Concealed`) for recoverable by hand. Each
exception is listed as a hazard or in section 5.

**Deadlock** is not checked: a server may have ended, a study is over, a form
that nobody clicks has nothing to do. What must not get stuck is stated as
liveness instead (`DeletionEnds`, `WorkIsDone`, `CallsReturn`, `ExitEndsServer`, ...).

**Fairness.** Threads are scheduled: weak fairness of the main thread of the
server, of the io thread (`Chain`), of the GUI thread's event queue (`Slots`)
and of each worker. A request is answered, refused or timed out by Wt's client
(`Network`). A started server opens its port and a stopped one ends, as
`ExitEndsServer` shows for the detailed one. In
LocalRun the threads of the visualizer and of the run are scheduled, the event
queue is worked off, a visualization ends, and an analysis that is interrupted
meets an interruption point; an analysis nobody interrupts may go on forever. In
ParameterEditor the autosave timer runs out: a change restarts it only while a
second one is active, which the last write started and nothing prolongs
(analysisform.cpp 144-153), so that no sequence of changes puts it off for good. In
StateRelay a call in progress goes on, and a lock that is free is obtained;
since calls are bounded nobody can be overtaken forever, so weak fairness of
each thread is enough. The solver of `AnalyzeServer` and the handlers and
queries of `StateRelay` have none. There is no fairness for the user,
for faults, or for the end of an analysis of the server (a solver may run as
long as it likes); in a parameter study each analysis is assumed to end, and nothing
has to throw.

## 4. Proofs

The proofs hold for every value of the constants, under the assumptions
`ConstantsAssumption` (RemoteRun: numbers, and known names of faults and
buttons; LocalRun and ParameterEditor: numbers, and names apart from each other),
`MaxContentAssumption` (UndoRedo), `StudyAssumption` (ParameterStudy: natural
numbers, 0 included) and `RelayAssumption` (StateRelay: threads of the analysis
and handlers are apart). AnalyzeServer has no constants.

**AnalyzeServerProofs.** `TypeCorrect`, `Truthful`, `Detached`, `Serving` follow
from one inductive invariant, `IInv`: the type invariant and `Progress`, which
ties the position of the main thread to what it has done so far - which
solver outcomes are possible there, whether the pointer is set, what was
announced. The safety properties by themselves are not inductive: that results
are announced only of a finished analysis depends on the main thread having
left `join()`. `AnnouncedServed` adds `Told`: a reply that tells of results is
one to a status request, and the results are there from then on. `Refinement`
shows that each step is a step of `AnalysisJob` or none: the invariant is needed
where `SetResults` and `SetException` must find a job that has announced nothing
yet. `ExitHeard`: an answer to `exit` means that the server has been stopped, for good.
`WaitsForSomething`: main is where it may wait - in `join()` for a solver that
runs, in `waitForShutdown()` with an outcome announced - or it can take a step. The
cases to exclude are a `join()` of a thread that was never started, and a server
that waits for a client with nothing to tell it.

**RemoteRunProofs.** The core is that the chain of a run is in one place at a
time (`OnePlace`): a task of the io thread, or a transaction whose callback
continues it, or a queued completion of a download - never two. A run that has
emitted its verdict is in none (`Over`), and without a run the io thread has
nothing to do (`IdleIsQuiet`), so that a new run starts clean. `OInv` is these
with the type invariant. `TypeCorrect` and `ReportsOnce` (the verdict
property) follow. The lemmas are arranged by the shape of a step: one that
moves on to another task (`MoveStep`), asks the server (`AskStep`), is called
back (`CallbackStep`), concludes (`ConcludeStep`), or belongs to the form or the
network; every action is an instance of one of them.

`StopsWithReason` (a server at work is neither stopped nor deprived of its
directory without a kill) needs to know what the client was last told in each
place of the chain: nothing until contact is made, `results` from `fetch` on,
and not `working` in a rollback that no kill has caused. That is `Knows`. It is
an invariant only of behaviours in which the write-now button is left alone
(`KnowsAlone`), because its request can take the turn of a query: then the
rollback starts from `working`, which is what `remote_wnow` shows. In the others
the property says nothing.

**RemoteOutcomeProofs** builds on `OInv` and `Knows`.

- `WorkspaceKept` rests on `WInv`. That a cleanup is harmless is not inductive by
  itself: the undo list must be known to be a suffix of `proc, dir` (`UndoList`),
  the directory to go only once the server was asked to stop
  (`StoppedBeforeRemoved`), a server not to exist before its launch
  (`NotYetLaunched`), and a chain past `fetch` to have met a server that had
  results (`ResultsWereThere`). Remote commands are assumed to work.
- `FinishedComplete` and `ResultsComeFirst` rest on `CInv`, which follows one
  undisturbed run: the server is not stopping before the exit request
  (`NotStoppedYet`), so the results it announced stay (`ResultsStay`) and the
  answer to `fetch` has them (`ResultsArrive`), the run holds them from `exit` on
  (`ResultsFetched`), and its end has had the server told (`ToldToExit`). Every
  part allows for a user who lets go of the run (`LetGo`), since Kill and
  Disconnect abort whatever is in flight; those about results also for a resumed
  run that meets a server its predecessor has told to exit (`Earlier`).
- `SlotsFindRun` needs `QueuedVerdict`: a verdict in the event queue is the run's.

**RemoteProgressProofs** is about what must not be forgotten on the way, and about
what is left behind at the end. It builds on `OInv` and on `WInv`.

- `ChainNeverLost` is the other half of `OnePlace`: a run that is shown and has no
  verdict is in *at least* one place. Each branch of a handler that forgot to post
  the next task would break it; so would a transaction that another one could
  take the place of. `VerdictReachesForm`: a verdict stays queued as long as the
  form shows its run. Both are inductive together with `Held` (a run that is shown
  has not been disconnected).
- `LaunchesOnce` (by `NotLaunched`): the guard of the launch, that there is no server
  yet, holds whenever the chain gets there: it takes no behaviour away.
- `AnswersTaken`: an answer fits the callback its transaction carries, although the
  buttons and the chain share one client. The cases of the callbacks in the model
  are therefore all there are.
- `UsesJob`: RemoteRun uses the server as `AnalysisJob` allows. With `Refinement`
  the two sides of the composition agree on one abstract specification.
- `KillCarriedOut`: a killed first run has a task or a callback left until its server
  is stopping or gone. It rests on `Undoes` - the undo list has what is still there (`ServerToUndo`,
  `DirToUndo`), and a run that has failed is through with it (`AllUndone`) - and on
  `ToldFirst`: only a run that was told of results gets to `fetch` and beyond.
- `FailureUndone`: after a first run that failed, no server works on and a temporary
  directory in which a server was started is removed. The second part asks for a
  server because a run that is killed before its first task keeps the
  directory `commit()` made; resumed runs undo nothing, which is what
  `remote_resumed_kill` shows. Remote commands are assumed to work.
  `FinishedClean`: a run that finished has removed its temporary directory,
  also when remote commands may fail.
- `OnlyWriteNowMisleads`: without the write-now button, `WriteNowKeepsRun` holds for
  every run the user keeps. The finding of `remote_wnow` needs the button.

**StateRelayProofs.** `Exclusive` needs that each lock is held exactly where the
code holds it (`LockInv`). `InOrder` holds in spite of lost answers, other
clients and any number of handlers; its invariant says that whatever is still in a
queue is newer than whatever was taken from it, that each answer is in order,
and that the answer waited for is newer than the display. It speaks of pops that
do not overlap with another operation; what follows after a race is not defined.
`NothingLost` and `CaughtUp` assume one client and no lost answer. Then only the
awaited handler has anything (`AloneInv`); display, its answer and the queue hold
consecutive numbers up to the last pushed (`CountInv`); and a handler that has
left a queue has, with the display, all that had been pushed when it was asked
(`CatchUpInv`), because it leaves a queue only when it is empty. `NeverPopsEmpty`
holds under the same condition: what can race then is a pop beside a push, not
a pop from nothing.

`NoCircularWait` says that of the threads that wait for one of the two locks, the
holder never waits itself: the redirector takes the lock of the queues inside its
own, never the other way round. `SafeWithoutHandlers` limits the finding of
`relay_unlocked`: as long as no handler pops, a queue is used by one at a time.
`ToldTruly`: an outcome that was read or reported is the one of the analysis.

**ParameterStudyProofs.** `AnalysedOnce` needs that what a worker holds was
taken from the queue and is not stored yet; `EvaluatedLast` that a worker which
has ended holds nothing and that the queue was seen empty before anybody ended.
`LostInOverlap` rests on `SInv`: a
variant that was taken is in work, is stored or has met another one in
`storeProcessed()`, unless an exception has ended a worker (`Accounted`); and one
that was stored and has met none is in what every worker inside of `storeProcessed()`
has seen (`Seen`), so that no old end hides it. `RestAfterWork`: when all workers have ended or wait at the empty queue, everything
was taken and nobody holds a variant, or exceptions have ended all of them. Two more put
a limit to what goes wrong with overlapping workers: `CompleteWithoutOverlap` (a behaviour in which no two calls of
`storeProcessed()` overlap evaluates every variant) and, for one thread,
`SingleThreadComplete` and `SingleThreadNeverWaits` (the variant `isEmpty()` saw is
there when `dequeue()` looks), which rest on `Alone`: no two calls overlap, what was
taken is stored or in work, and `dequeue()` has something to take.

**LocalRunProofs.** `SlotFindsRun` needs `RunInv`: until the form is deleted,
the end of a run is queued once, and while it is, the run is there. Its second half, that
a form deleted with nothing at work and no change of the CAD model queued harms nobody
later, rests on `Harmless`: through all the phases of the deletion no thread gets
to work and no such change is posted. `NothingStale`
needs three more: what the thread has read is the parameters shown, in the directory the
visualizer was made for, because a change replaces the visualizer, and that directory
is the form's unless the dialog has set another (`ReadInv`); since its timer fired, the events in the queue
are its own, and those that remove symbols spare those it recreated (`EventInv`);
and what is not yet in the CAD model, in `sid` or in the overlay, or not yet gone, is
in one of these events (`SymbolInv`, `OutcomeInv`). `EndTold`: as long as the form
exists and has a run that ended, the event that deletes it is queued.
`JoinsOnlyWhatEnds`: the GUI thread waits only for a visualizer that was started and,
on closing, for a run that was interrupted, and has none after it.

**ParameterEditorProofs.** `NothingUnsaved` and `NothingLost` are inductive
together with the types and `FormInv`: a form that is down has no name, and what
was undone last is on top of the redo stack, from which `RedoUndoesUndo` follows.

What is only model-checked is liveness: that something happens *eventually* needs
fairness and with it ENABLED, which are out of the prover's reach. What can be
proved of these properties is the safety part, that nothing a property waits for is
ever lost; what is left to TLC is that what is there gets its turn.

| Only model-checked | Proved of it |
|---|---|
| `IsAnalysisJob` | `Refinement`, all but the fairness |
| `SolvedIsAnnounced`, `ExitEndsServer` | `WaitsForSomething`, `ExitHeard` |
| `OutcomeReachesForm`, `DeletionEnds` | `ChainNeverLost`, `VerdictReachesForm`, `LaunchesOnce`, `AnswersTaken` |
| `KillStopsServer` | `KillCarriedOut` |
| `CallsReturn` | `NoCircularWait` |
| `WorkIsDone` | `RestAfterWork` |
| `KillEndsRun`, `GuiReturns` | `EndTold`, `JoinsOnlyWhatEnds` |
| `EventuallyCurrent` | `NothingStale` |
| `SoonRecoverable` | `NothingLost` |

Of the five properties that are violated, two become theorems under a condition that
excludes the cause (`SafeWithoutHandlers`, `OnlyWriteNowMisleads`). The other three are
liveness; for `study_stuck`, `SingleThreadNeverWaits` says that the step it waits
for in vain is always there with one thread.

## 5. Not modelled

By component:

- **CAD kernel, OpenFOAM cases and dictionaries, parameter and result trees, PDL
  compiler, analysis modules and extensions** (most of the lines): geometry, text
  formats, trees of values and numerical content. They are sequential, and what is
  correct about them is their data, which a finite model would have to leave out.
- **GUI models and viewers**: Qt item models and VTK rendering. Of
  `IQHierarchicalDataModel` the recording of changes is in `UndoRedo`.
- **WSL run, remote server configurations, pools**: the WSL run is the class of
  the remote run with another set-up; the rest are shell commands and a list read
  from files.
- **Action progress tree**: forked actions, their paths and percentages. Their
  calls of the displayer are in `StateRelay`; how widgets show them is not.
- **Task spooler, external processes, file watcher, ParaView, server detection**:
  parsers of other programs' output and I/O; the detection is never started
  (analyze.cpp 203-211).
- **Of the modelled components** `PROJECT.json` says what is left out of each.
  `MultiCADParameterSetVisualizer`, which joins several visualizers, is the
  largest of these.

Known hazards of the modelled code that no property covers:

- analyze.cpp:490: after a failed analysis the server keeps the address of the
  destroyed thread object; a kill or exit then goes through it. The model has the
  step (`InterruptDangling`); nothing documented excludes it.
- restapi.cpp:519: write-now, exepath and parameters go through the thread pointer
  before it is set. The model has this step too.
- streamredirector.cpp:70: the lock is held for a piece of output, not for a
  line, so that lines of two threads may be joined; `StateRelay` prints whole lines.
- analyzeclient.cpp 473-476: the test for a transaction and the assignment of the
  next are two steps, taken by the io thread and by the GUI thread, and an
  action may be replaced while its callback runs: undefined behaviour of which
  the model takes the orderly outcomes.
- analysisform_remoteactions.cpp:197: a failed transfer throws from a task
  without a handler (`DownloadFails` ends the program).
- remoterun.cpp:213: after a disconnect the user may press Run instead of Resume;
  the second server cannot open the port of the first. The model resumes.
- parameterstudy.cpp 331-335: an exception of `create_thread`, or an interruption in
  `join_all()`, destroys the workers while their threads run. The model has the step
  (`Abandon`) and what may follow (`Crash`).
- parameterstudy.cpp:321: `numthread = 0` gives no worker; the study fails with an
  untouched queue. `StudyAssumption`, and with it the theorems, allow it; no run has it.
- restapi.cpp:451: the outcome is read after the queues were emptied, so that what is
  pushed in between is not fetched any more; `AnswersCatchUp` speaks of what was pushed
  before the query.
- remoterun.cpp:432: Kill or Disconnect may abort the exit request; the run is
  "finished", and the server was never told. `FinishedIsComplete` excepts it.
- remoterun.cpp:417: results are taken to be there after a failed transfer;
  `ResultsBeforeStop` excepts network faults.
- analysisform.cpp:726: when the dialog that asks for a name is cancelled after
  "Yes", the form is closed or overwritten anyway. The model takes this for
  the user's choice to discard.
