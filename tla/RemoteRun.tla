----------------------------- MODULE RemoteRun -----------------------------
(***************************************************************************)
(* A remote run of the workbench: the chain of tasks of RemoteRun          *)
(* (workbench/remoterun.cpp) in the io thread of its AnalyzeClient, the    *)
(* analysis form in the GUI thread, which owns the run and is told of its  *)
(* end by queued signals, and the server, as the job AnalysisJob describes.*)
(*                                                                         *)
(* One remote workspace is used by a first run and by the runs resumed     *)
(* after it.                                                               *)
(***************************************************************************)
EXTENDS Naturals, Sequences

CONSTANTS
  MaxAttempts,  \* attempts to contact the server, 20 in the code
  MaxResumes,   \* bound: how often the user resumes
  Faults,       \* what may go wrong, see below
  UserActions   \* buttons the user may press while the run is active

(* Which of the faults a behaviour meets, and whether its user presses     *)
(* write-now, is chosen at its start: what the code guarantees only        *)
(* without some of them says so.                                           *)

(* "net":   a request or its answer is lost, or times out;                 *)
(* "crash": the server ends unasked;                                       *)
(* "ssh":   a command on the remote host, or a transfer, fails.            *)
ASSUME ConstantsAssumption ==
  /\ MaxAttempts \in Nat
  /\ MaxResumes \in Nat
  /\ Faults \subseteq {"net", "crash", "ssh"}
  /\ UserActions \subseteq {"kill", "disconnect", "wnow"}

VARIABLES
  job, stopping,  \* the server, see AnalysisJob
  request,        \* the client's transaction, see AnalyzeClient
  run,            \* the RemoteRun object and its next task
  dir,            \* the remote workspace exists
  form,           \* AnalysisForm::currentWorkbenchAction_, and its thread
  events,         \* queued calls of the form's slots, in order
  option          \* choices made before: see Option

serverVars == <<job, stopping>>
vars == <<job, stopping, request, run, dir, form, events, option>>

Server == INSTANCE AnalysisJob
Client == INSTANCE AnalyzeClient

(* The task the io thread executes next; "none" while the chain waits for  *)
(* an answer or for the form, and after its end.                           *)
Task == {"setup", "upload", "launch", "contact", "giveup", "monitor", "fetch",
         "exit", "download", "cleanup", "rollback", "none"}
UndoStep == {"dir", "proc"}
Event == {"finished", "failed", "cancelled", "downloaded"}

(* What the server answers to a query of its status. *)
Status == {"working", "results", "error"}

Run ==
  [task       : Task,
   number     : 0 .. MaxResumes + 1,  \* 0: no run yet; >1: a resumed one
   attempts   : 0 .. MaxAttempts,
   undo       : Seq(UndoStep),
   kill       : BOOLEAN,              \* killRequested_
   disconnect : BOOLEAN,              \* disconnectRequested_
   told       : {"nothing"} \union Status,  \* by monitor()
   got        : BOOLEAN,              \* results_ is set
   verdict    : {"none", "finished", "failed"}]  \* history: what was emitted

NewRun(number, task) ==
  [task |-> task, number |-> number, attempts |-> MaxAttempts, undo |-> <<>>,
   kill |-> FALSE, disconnect |-> FALSE, told |-> "nothing", got |-> FALSE,
   verdict |-> "none"]

Option ==
  [temporary : BOOLEAN,         \* the workspace is a temporary one
   download  : BOOLEAN,         \* the download box is ticked
   writeNow  : BOOLEAN,
   faults    : SUBSET Faults]

Init ==
  /\ Server!Init
  /\ Client!Init
  /\ run = NewRun(0, "none")
  /\ dir = FALSE
  /\ form = "idle"
  /\ events = <<>>
  /\ option \in Option
  /\ option.writeNow => "wnow" \in UserActions

(* The io thread has nothing to do, now or later. *)
Quiet == run.task = "none" /\ ~Client!isBusy

Emit(event) == events' = Append(events, event)
GoTo(task)  == run' = [run EXCEPT !.task = task]

(* The chain ends with a verdict. *)
Conclude(verdict) ==
  /\ Emit(verdict)
  /\ run' = [run EXCEPT !.task = "none", !.verdict = verdict]
-----------------------------------------------------------------------------
(* The chain of tasks. *)

(* checkIfCancelled() throws; every exception of a task goes to onError(). *)
CancelledTask(task) ==
  /\ run.task = task
  /\ run.kill
  /\ GoTo("rollback")
  /\ UNCHANGED <<job, stopping, request, dir, form, events, option>>

Cancelled ==
  \E task \in {"setup", "upload", "launch", "contact", "monitor", "fetch", "exit"} :
    CancelledTask(task)

Ready(task) == run.task = task /\ ~run.kill

(* RemoteLocation: the directory is created unless it exists, and only a   *)
(* temporary one is removed.                                               *)
InitialiseWorkspace == dir' = TRUE
CleanupWorkspace == dir' = (dir /\ ~option.temporary)

SetupRemoteEnvironment ==
  /\ Ready("setup")
  /\ InitialiseWorkspace
  /\ run' = [run EXCEPT !.task = "upload", !.undo = <<"dir">> \o @]
  /\ UNCHANGED <<job, stopping, request, form, events, option>>

UploadInputFile ==
  /\ Ready("upload")
  /\ GoTo("launch")
  /\ UNCHANGED <<job, stopping, request, dir, form, events, option>>

(* Faulty variant: the undo step is put at the end of the list. *)
LaunchUndoneLast ==
  /\ Ready("launch")
  /\ Server!Start
  /\ run' = [run EXCEPT !.task = "contact", !.undo = @ \o <<"proc">>]
  /\ UNCHANGED <<request, dir, form, events, option>>

LaunchRemoteExecutionServer ==
  /\ Ready("launch")
  /\ Server!Start
  /\ run' = [run EXCEPT !.task = "contact", !.undo = <<"proc">> \o @]
  /\ UNCHANGED <<request, dir, form, events, option>>

(* A remote command of these tasks fails.  The background process may have *)
(* been started when its PID cannot be read.                               *)
RemoteCommandFails ==
  /\ "ssh" \in option.faults
  /\ \/ Ready("setup") /\ UNCHANGED serverVars
     \/ Ready("upload") /\ UNCHANGED serverVars
     \/ Ready("launch") /\ (Server!Start \/ UNCHANGED serverVars)
     \/ run.task = "cleanup" /\ option.temporary /\ UNCHANGED serverVars
  /\ GoTo("rollback")
  /\ UNCHANGED <<request, dir, form, events, option>>

(* A task sends its request, and the chain waits for the answer. *)
Ask(task, purpose) ==
  /\ Ready(task)
  /\ Client!Launch(purpose)
  /\ GoTo("none")
  /\ UNCHANGED <<job, stopping, dir, form, events, option>>

(* launchAction() throws: another transaction is in progress. *)
ClientBusy ==
  /\ \/ Ready("contact") \/ Ready("exit")
     \/ ~run.disconnect /\ (Ready("monitor") \/ Ready("fetch"))
  /\ Client!isBusy
  /\ GoTo("rollback")
  /\ UNCHANGED <<job, stopping, request, dir, form, events, option>>

WaitForContact == Ask("contact", "contact")

Contacted ==
  /\ \E answer \in Status : Client!Finish("contact", answer)
  /\ GoTo("monitor")
  /\ UNCHANGED <<job, stopping, dir, form, events, option>>

(* Faulty variant: one attempt too many. *)
NotContactedUnbounded ==
  /\ Client!Finish("contact", "failure")
  /\ run' = [run EXCEPT !.task = "contact", !.attempts = @ - 1]
  /\ UNCHANGED <<job, stopping, dir, form, events, option>>

NotContacted ==
  /\ Client!Finish("contact", "failure")
  /\ run' = IF run.attempts > 0
            THEN [run EXCEPT !.task = "contact", !.attempts = @ - 1]
            ELSE [run EXCEPT !.task = "giveup"]
  /\ UNCHANGED <<job, stopping, dir, form, events, option>>

GiveUp ==
  /\ run.task = "giveup"
  /\ GoTo("rollback")
  /\ UNCHANGED <<job, stopping, request, dir, form, events, option>>

(* Faulty variant: the disconnect is not noticed. *)
MonitorRegardless == Ask("monitor", "monitor")

Monitor == ~run.disconnect /\ Ask("monitor", "monitor")

(* Faulty variant: the disconnect is looked at before the kill. *)
DisconnectedFirst ==
  /\ run.disconnect
  /\ run.task \in {"monitor", "fetch"}
  /\ GoTo("none")
  /\ UNCHANGED <<job, stopping, request, dir, form, events, option>>

(* monitor() and fetchResults() return: the chain is left behind. *)
Disconnected ==
  /\ run.disconnect
  /\ Ready("monitor") \/ Ready("fetch")
  /\ GoTo("none")
  /\ UNCHANGED <<job, stopping, request, dir, form, events, option>>

(* Faulty variants: a failed query is taken for a failed analysis; the     *)
(* server is stopped without a query for the results.                      *)
MonitorFailureIsError ==
  /\ \E answer \in Status \union {"failure"} :
       /\ Client!Finish("monitor", answer)
       /\ run' = [run EXCEPT
            !.task = CASE answer \in {"error", "failure"} -> "rollback"
                       [] answer = "results"              -> "fetch"
                       [] OTHER                           -> "monitor",
            !.told = IF answer = "failure" THEN @ ELSE answer]
  /\ UNCHANGED <<job, stopping, dir, form, events, option>>

MonitorSkipsFetch ==
  /\ \E answer \in Status \union {"failure"} :
       /\ Client!Finish("monitor", answer)
       /\ run' = [run EXCEPT
            !.task = CASE answer = "error"   -> "rollback"
                       [] answer = "results" -> "exit"
                       [] OTHER              -> "monitor",
            !.told = IF answer = "failure" THEN @ ELSE answer]
  /\ UNCHANGED <<job, stopping, dir, form, events, option>>

(* A failed query is not told apart from a job that is still working. *)
MonitorAnswered ==
  /\ \E answer \in Status \union {"failure"} :
       /\ Client!Finish("monitor", answer)
       /\ run' = [run EXCEPT
            !.task = CASE answer = "error"   -> "rollback"
                       [] answer = "results" -> "fetch"
                       [] OTHER              -> "monitor",
            !.told = IF answer = "failure" THEN @ ELSE answer]
  /\ UNCHANGED <<job, stopping, dir, form, events, option>>

FetchResults == ~run.disconnect /\ Ask("fetch", "results")

(* Whether there are results is not looked at. *)
ResultsAnswered ==
  /\ \E answer \in {"ok", "failure"} :
       /\ Client!Finish("results", answer)
       /\ run' = [run EXCEPT !.task = "exit", !.got = (answer = "ok")]
  /\ UNCHANGED <<job, stopping, dir, form, events, option>>

StopRemoteExecutionServer == Ask("exit", "exit")

ExitAnswered ==
  /\ \E answer \in {"ok", "failure"} : Client!Finish("exit", answer)
  /\ GoTo(IF option.download THEN "download" ELSE "cleanup")
  /\ UNCHANGED <<job, stopping, dir, form, events, option>>

(* Faulty variant: the cleanup is posted here, too. *)
DownloadAndCleanup ==
  /\ run.task = "download"
  /\ Emit("downloaded")
  /\ GoTo("cleanup")
  /\ UNCHANGED <<job, stopping, request, dir, form, option>>

(* The transfer is waited for here; that it is finished is told to the     *)
(* form, whose thread then posts cleanupRemote().                          *)
Download ==
  /\ run.task = "download"
  /\ Emit("downloaded")
  /\ GoTo("none")
  /\ UNCHANGED <<job, stopping, request, dir, form, option>>

(* The exception of a failed transfer has no handler in this thread. *)
DownloadFails ==
  /\ "ssh" \in option.faults
  /\ run.task = "download"
  /\ form' = "crashed"
  /\ UNCHANGED <<job, stopping, request, run, dir, events, option>>

(* Faulty variant: finish() only after there was something to clean up. *)
CleanupTemporary ==
  /\ run.task = "cleanup"
  /\ CleanupWorkspace
  /\ IF option.temporary THEN Conclude("finished")
                         ELSE GoTo("none") /\ UNCHANGED events
  /\ UNCHANGED <<job, stopping, request, form, option>>

CleanupRemote ==
  /\ run.task = "cleanup"
  /\ CleanupWorkspace
  /\ Conclude("finished")
  /\ UNCHANGED <<job, stopping, request, form, option>>

(* onError(): performUndo(), from the front of the list ...                *)
UndoLaunch == stopping' = (stopping \/ job \in Server!Alive) /\ UNCHANGED <<job, dir>>

UndoSetup == CleanupWorkspace /\ UNCHANGED serverVars

(* ... where the exception of a step does not keep the next from its turn. *)
PerformUndo ==
  /\ run.task = "rollback"
  /\ run.undo # <<>>
  /\ \/ Head(run.undo) = "proc" /\ UndoLaunch
     \/ Head(run.undo) = "dir"  /\ UndoSetup
     \/ "ssh" \in option.faults /\ UNCHANGED <<job, stopping, dir>>
  /\ run' = [run EXCEPT !.undo = Tail(@)]
  /\ UNCHANGED <<request, form, events, option>>

EmitFailed ==
  /\ run.task = "rollback"
  /\ run.undo = <<>>
  /\ Conclude("failed")
  /\ UNCHANGED <<job, stopping, request, dir, form, option>>

(* The callback of a button's request does nothing. *)
WriteNowAnswered ==
  /\ \E answer \in {"ok", "failure"} : Client!Finish("wnow", answer)
  /\ UNCHANGED <<job, stopping, run, dir, form, events, option>>
-----------------------------------------------------------------------------
(* The analysis form, in the GUI thread. *)

(* A run is created by a click of the user: nothing of an earlier run is   *)
(* waiting in the event queue any more when that is handled.               *)
NoRun == form = "idle" /\ events = <<>>

(* commit() initialises the workspace before the run is created. *)
OnRunAnalysis ==
  /\ NoRun
  /\ run.number = 0
  /\ InitialiseWorkspace
  /\ run' = NewRun(1, "setup")
  /\ form' = "running"
  /\ UNCHANGED <<job, stopping, request, events, option>>

(* There is something to resume until the workspace is cleaned up: that    *)
(* deletes the remote execution state, and the button is disabled.         *)
ResumeRemoteRun ==
  /\ NoRun
  /\ run.number \in 1 .. MaxResumes
  /\ dir
  /\ run' = NewRun(run.number + 1, "monitor")
  /\ form' = "running"
  /\ UNCHANGED <<job, stopping, request, dir, events, option>>

(* Bound: the button is pressed once. *)
OnCancel ==
  /\ "kill" \in UserActions
  /\ form = "running"
  /\ ~run.kill
  /\ run' = [run EXCEPT !.kill = TRUE]
  /\ Client!Abort
  /\ Emit("cancelled")
  /\ UNCHANGED <<job, stopping, dir, form, option>>

(* currentWorkbenchAction_.reset(): the pointer is null, and ~RemoteRun    *)
(* waits for the io thread to run out of work.                             *)
ResetAction ==
  /\ form = "running"
  /\ form' = "deleting"
  /\ run' = [run EXCEPT !.disconnect = TRUE]
  /\ Client!Abort

Disconnect ==
  /\ "disconnect" \in UserActions
  /\ ResetAction
  /\ UNCHANGED <<job, stopping, dir, events, option>>

(* ~RemoteRun returns. *)
Deleted ==
  /\ form = "deleting"
  /\ Quiet
  /\ form' = "idle"
  /\ UNCHANGED <<job, stopping, request, run, dir, events, option>>

(* While the client is busy, the click ends in an exception that the       *)
(* application reports.                                                    *)
OnWnow ==
  /\ option.writeNow
  /\ form = "running"
  /\ Client!Launch("wnow")
  /\ UNCHANGED <<job, stopping, run, dir, form, events, option>>

Slot(event) ==
  /\ events # <<>>
  /\ Head(events) = event
  /\ events' = Tail(events)
  /\ UNCHANGED <<job, stopping, dir, option>>

(* onResultReady() takes the results from the action, without a check that *)
(* there is one.                                                           *)
OnResultReady ==
  /\ Slot("finished")
  /\ \/ ResetAction
     \/ form = "idle" /\ form' = "crashed" /\ UNCHANGED <<run, request>>

OnAnalysisEnded ==
  /\ Slot("failed") \/ Slot("cancelled")
  /\ ResetAction \/ (form = "idle" /\ UNCHANGED <<form, run, request>>)

(* The completion callback of the download goes to the RemoteRun object,   *)
(* whether or not it still exists.                                         *)
OnDownloaded ==
  /\ Slot("downloaded")
  /\ \/ form = "running" /\ GoTo("cleanup") /\ UNCHANGED <<form, request>>
     \/ form = "idle" /\ form' = "crashed" /\ UNCHANGED <<run, request>>
-----------------------------------------------------------------------------
(* The server and the network. *)

ServeRequest ==
  /\ request.phase = "sent"
  /\ job \in Server!Answering
  /\ CASE request.for \in {"contact", "monitor"} ->
            Client!Answered(job) /\ UNCHANGED serverVars
       [] request.for = "results" ->
            /\ Client!Answered(IF job = "results" THEN "ok" ELSE "failure")
            /\ UNCHANGED serverVars
       [] request.for = "exit" -> Client!Answered("ok") /\ Server!RequestStop
       [] request.for = "wnow" -> Client!Answered("ok") /\ UNCHANGED serverVars
  /\ UNCHANGED <<run, dir, form, events, option>>

(* The handler of wnow goes through analysisThread_ without a check: there *)
(* may be no thread object behind it (AnalyzeServer!ServeWriteNow).        *)
WriteNowFaults ==
  /\ request.phase = "sent"
  /\ request.for = "wnow"
  /\ job \in Server!Answering
  /\ Server!Fail
  /\ UNCHANGED <<request, run, dir, form, events, option>>

ConnectionRefused ==
  /\ request.phase = "sent"
  /\ job \notin Server!Answering
  /\ Client!Lost
  /\ UNCHANGED <<job, stopping, run, dir, form, events, option>>

NetworkFault ==
  /\ "net" \in option.faults
  /\ request.answer # "failure" \/ request.phase = "sent"
  /\ Client!Lost
  /\ UNCHANGED <<job, stopping, run, dir, form, events, option>>

ServerProgress ==
  /\ Server!Accept \/ Server!Announce \/ Server!End
  /\ UNCHANGED <<request, run, dir, form, events, option>>

ServerCrash ==
  /\ "crash" \in option.faults
  /\ Server!Fail
  /\ UNCHANGED <<request, run, dir, form, events, option>>
-----------------------------------------------------------------------------
Working == form # "crashed"

(* The io thread. *)
Chain ==
  /\ Working
  /\ \/ Cancelled \/ RemoteCommandFails \/ ClientBusy \/ Disconnected
     \/ SetupRemoteEnvironment \/ UploadInputFile \/ LaunchRemoteExecutionServer
     \/ WaitForContact \/ Contacted \/ NotContacted \/ GiveUp
     \/ Monitor \/ MonitorAnswered
     \/ FetchResults \/ ResultsAnswered
     \/ StopRemoteExecutionServer \/ ExitAnswered
     \/ Download \/ DownloadFails \/ CleanupRemote
     \/ PerformUndo \/ EmitFailed

Buttons == Working /\ (WriteNowAnswered \/ OnWnow)

Slots == Working /\ (Deleted \/ OnResultReady \/ OnAnalysisEnded \/ OnDownloaded)

User == Working /\ (OnRunAnalysis \/ ResumeRemoteRun \/ OnCancel \/ Disconnect)

Network == Working /\ (ServeRequest \/ ConnectionRefused)

Environment == Working /\ (WriteNowFaults \/ NetworkFault \/ ServerCrash)

ServerStep == Working /\ ServerProgress

Next ==
  Chain \/ Buttons \/ Slots \/ User \/ Network \/ Environment \/ ServerStep

Spec == Init /\ [][Next]_vars

(* Every thread runs: the io service its tasks and timers, the GUI thread  *)
(* its event queue.  A transaction is answered, refused or (after 15       *)
(* minutes) timed out.  A started server opens its port, a stopped one     *)
(* ends.  Nobody has to press a button, and no analysis has to end.        *)
FairSpec ==
  /\ Spec
  /\ WF_vars(Chain) /\ WF_vars(Slots) /\ WF_vars(Network)
  /\ WF_vars(Working /\ WriteNowAnswered)
  /\ WF_vars(Working /\ Server!Accept /\ UNCHANGED <<request, run, dir, form, events, option>>)
  /\ WF_vars(Working /\ Server!End /\ UNCHANGED <<request, run, dir, form, events, option>>)
-----------------------------------------------------------------------------
TypeOK ==
  /\ job \in Server!JobState
  /\ stopping \in BOOLEAN
  /\ Client!TypeOK
  /\ run \in Run
  /\ dir \in BOOLEAN
  /\ form \in {"idle", "running", "deleting", "crashed"}
  /\ events \in Seq(Event)
  /\ option \in Option

(* No request is lost, and the one transaction is the chain's own. *)
Undisturbed == option.faults \subseteq {"ssh"} /\ ~option.writeNow

RemoteCommandsWork == "ssh" \notin option.faults

(* A run reports one end to the form: no second verdict, and nothing after *)
(* a verdict, for a run that may be gone by then (onResultReady and the    *)
(* completion of the download do not ask, analysisform_gui.cpp:148,        *)
(* remoterun.cpp:463).  A click on Kill is the user's own event.           *)
OneVerdict ==
  [][Len(events') > Len(events) /\ events'[Len(events')] # "cancelled"
       => run.verdict = "none"]_vars

(* Neither is a server stopped nor a workspace removed that was last known *)
(* to be at work, unless the user killed the run: failed queries and a     *)
(* disconnect leave both alone (remoterun.cpp 361-400, 541).               *)
StopNeedsReason ==
  [][(stopping' /\ ~stopping) \/ (dir /\ ~dir')
       => run.kill \/ run.told # "working" \/ option.writeNow]_vars

(* A server that has announced results is told to exit only after they     *)
(* were received, or if the user has let go of the run (remoterun.cpp      *)
(* 405-432), as long as no request gets lost.                              *)
ResultsBeforeStop ==
  [][stopping' /\ ~stopping /\ run.told = "results" /\ Undisturbed
       => run.got \/ run.kill \/ run.disconnect]_vars

(* The workspace is not removed from under a server at work, unless that   *)
(* was asked to stop before: the undo list is run from its latest step,    *)
(* and cleanup comes after an outcome (remoterun.cpp 25, 39, 388, 478).    *)
(* A remote command that fails may leave a server behind.                  *)
WorkspaceOutlivesServer ==
  run.number > 0 /\ ~dir /\ RemoteCommandsWork => job \notin {"started", "working"} \/ stopping

(* "finished" means what the form makes of it: there are results, and the  *)
(* server was told to exit, unless the user let go of the run on the way   *)
(* (abort() hits whatever request is in flight).  A resumed run may meet a *)
(* server that its predecessor has told to exit.                           *)
FinishedIsComplete ==
  run.verdict = "finished" /\ run.number = 1 /\ Undisturbed =>
    /\ run.got \/ run.disconnect
    /\ stopping \/ run.kill \/ run.disconnect

(* A slot of the form that meets a run that is gone (analysisform_gui.cpp: *)
(* 152, remoterun.cpp:463) is too late for the user's own reason: the run  *)
(* was deleted while its verdict was queued, or before it had one.  After  *)
(* a verdict nothing of the chain is left that could call the run.         *)
FormFindsRun ==
  [][form' = "crashed" /\ form # "crashed" =>
       run.verdict = "none" \/ Head(events) = run.verdict]_vars

(* An announced outcome ends the run with a verdict, or the user has let   *)
(* go of it.                                                               *)
OutcomeReachesForm ==
  (run.number > 0 /\ job \in {"results", "error"} /\ ~stopping /\ Undisturbed)
    ~> (run.verdict # "none" \/ run.disconnect \/ form = "crashed")

(* ~RemoteRun returns, so that the GUI thread is not blocked for good: the *)
(* chain comes to its end whatever task it is in (remoterun.cpp 541-546).  *)
DeletionEnds == form = "deleting" ~> form # "deleting"

(* Kill, pressed during the first run before results were announced, ends  *)
(* the server.                                                             *)
KillStopsServer ==
  (run.kill /\ run.number = 1 /\ run.told # "results" /\ RemoteCommandsWork)
    ~> (job \in {"absent", "gone"} \/ form = "crashed")

(* What the form tells the user after Kill (analysisform_gui.cpp:179):     *)
(* "The analysis has been interrupted upon user request!"                  *)
KillInterruptsAnalysis ==
  run.kill /\ run.told # "results" ~> job # "working" \/ form = "crashed"

(* What the button says (analysisform.ui:266): "Trigger immediate time     *)
(* step output in currently running OpenFOAM solver".  It does not end a   *)
(* run whose server is at work.                                            *)
WriteNowKeepsRun == run.task = "rollback" => run.told # "working"

(* What passing a timeout callback to each request is for                  *)
(* (analyzeclient.h:84 "Will be called in timeout event.", remoterun.cpp   *)
(* 395): a run whose queries are not answered any more ends with an error. *)
SilentServerIsReported ==
  (form = "running" /\ run.told = "working" /\ job = "gone")
    ~> (run.verdict = "failed" \/ form # "running")
=============================================================================
