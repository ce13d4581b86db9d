-------------------------- MODULE RemoteRunProofs --------------------------
(***************************************************************************)
(* Theorems about RemoteRun, for every number of attempts, resumed runs    *)
(* and every set of faults.                                                *)
(***************************************************************************)
EXTENDS RemoteRun, SequenceTheorems, TLAPS

(* What an action of the chain makes of the run: another task, or with it  *)
(* one field more.                                                         *)
LEMMA GoToRun ==
  ASSUME run \in Run, NEW task \in Task, GoTo(task)
  PROVE  /\ run' \in Run
         /\ run'.task = task /\ run'.number = run.number
         /\ run'.attempts = run.attempts /\ run'.undo = run.undo
         /\ run'.kill = run.kill /\ run'.disconnect = run.disconnect
         /\ run'.told = run.told /\ run'.got = run.got
         /\ run'.verdict = run.verdict
BY DEF GoTo, Run

LEMMA ConcludeRun ==
  ASSUME run \in Run, events \in Seq(Event),
         NEW verdict \in {"finished", "failed"}, Conclude(verdict)
  PROVE  /\ run' \in Run
         /\ run'.task = "none" /\ run'.told = run.told /\ run'.kill = run.kill
         /\ run'.verdict = verdict
         /\ events' \in Seq(Event)
         /\ Len(events') = Len(events) + 1
         /\ events'[Len(events')] = verdict
         /\ \A i \in 1 .. Len(events) : events'[i] = events[i]
<1>1. verdict \in Event
  BY DEF Event
<1>2. events' = Append(events, verdict)
  BY DEF Conclude, Emit
<1>3. /\ events' \in Seq(Event) /\ Len(events') = Len(events) + 1
      /\ events'[Len(events')] = verdict
      /\ \A i \in 1 .. Len(events) : events'[i] = events[i]
  BY <1>1, <1>2, AppendProperties
<1>4. /\ run' \in Run
      /\ run'.task = "none" /\ run'.told = run.told /\ run'.kill = run.kill
      /\ run'.verdict = verdict
  BY DEF Conclude, Run, Task
<1> QED
  BY <1>3, <1>4

(* The transaction of the client after each of its operations. *)
LEMMA BusyRequest ==
  ASSUME Client!TypeOK, Client!isBusy
  PROVE  request \in Client!Request
BY DEF Client!TypeOK, Client!isBusy, Client!Idle

LEMMA LaunchRequest ==
  ASSUME NEW purpose \in Client!Purpose, Client!Launch(purpose)
  PROVE  /\ Client!TypeOK' /\ ~Client!isBusy
         /\ request'.for = purpose /\ request'.phase = "sent"
<1>1. request' \in Client!Request
  BY DEF Client!Launch, Client!Request, Client!Answer
<1> QED
  BY <1>1 DEF Client!Launch, Client!TypeOK

(* Both ways a transaction gets its answer. *)
LEMMA AnswerRequest ==
  ASSUME request \in Client!Request, NEW answer \in Client!Answer,
         request' = [request EXCEPT !.phase = "answered", !.answer = answer]
  PROVE  /\ request' \in Client!Request
         /\ request'.for = request.for /\ request'.phase = "answered"
BY DEF Client!Request

LEMMA AnsweredRequest ==
  ASSUME Client!TypeOK, NEW answer \in Client!Answer, Client!Answered(answer)
  PROVE  /\ Client!TypeOK' /\ Client!isBusy
         /\ request'.for = request.for /\ request'.phase = "answered"
<1>1. Client!isBusy
  BY DEF Client!Answered, Client!isBusy
<1> QED
  BY <1>1, BusyRequest, AnswerRequest DEF Client!Answered, Client!TypeOK

LEMMA LostRequest ==
  ASSUME Client!TypeOK, Client!Lost
  PROVE  /\ Client!TypeOK' /\ Client!isBusy
         /\ request'.for = request.for /\ request'.phase = "answered"
<1>1. "failure" \in Client!Answer
  BY DEF Client!Answer
<1> QED
  BY <1>1, BusyRequest, AnswerRequest DEF Client!Lost, Client!TypeOK

LEMMA AbortRequest ==
  ASSUME Client!TypeOK, Client!Abort
  PROVE  /\ Client!TypeOK' /\ request'.for = request.for
         /\ Client!isBusy' <=> Client!isBusy
<1>1. CASE Client!Lost
  BY <1>1, LostRequest DEF Client!isBusy
<1>2. CASE UNCHANGED request
  BY <1>2 DEF Client!TypeOK, Client!isBusy
<1> QED
  BY <1>1, <1>2 DEF Client!Abort

LEMMA FinishRequest ==
  ASSUME NEW purpose, NEW answer, Client!Finish(purpose, answer)
  PROVE  /\ Client!TypeOK' /\ Client!isBusy /\ ~Client!isBusy'
         /\ request.for = purpose
BY DEF Client!Finish, Client!TypeOK, Client!isBusy, Client!Idle
-----------------------------------------------------------------------------
(* The strengthened invariant.  The chain of a run is in one place at a    *)
(* time: a task of the io thread, an answer its callback waits for, or the *)
(* completion of a download the form has not been told of yet.             *)
ChainWaits == Client!isBusy /\ request.for # "wnow"
DownloadPending == \E i \in 1 .. Len(events) : events[i] = "downloaded"

OnePlace ==
  /\ run.task # "none" => ~ChainWaits /\ ~DownloadPending
  /\ ChainWaits => ~DownloadPending
  /\ \A i, j \in 1 .. Len(events) :
       events[i] = "downloaded" /\ events[j] = "downloaded" => i = j

(* After its verdict it is in none. *)
Over == run.verdict # "none" => run.task = "none" /\ ~ChainWaits /\ ~DownloadPending

(* Without a run there is nothing for the io thread. *)
IdleIsQuiet == form = "idle" => Quiet

OInv == TypeOK /\ OnePlace /\ Over /\ IdleIsQuiet

LEMMA InvInit == Init => OInv
<1> SUFFICES ASSUME Init PROVE OInv
  OBVIOUS
<1>1. run = NewRun(0, "none") /\ NewRun(0, "none") \in Run
  <2>1. <<>> \in Seq(UndoStep)
    OBVIOUS
  <2> QED
    BY <2>1, ConstantsAssumption DEF Init, NewRun, Run, Task
<1>2. run.task = "none" /\ run.verdict = "none"
  BY <1>1 DEF NewRun
<1>3. request = Client!Idle /\ ~Client!isBusy
  BY DEF Init, Client!Init, Client!isBusy, Client!Idle
<1>4. events = <<>> /\ events \in Seq(Event) /\ Len(events) = 0
  BY DEF Init
<1>5. TypeOK
  BY <1>1, <1>3, <1>4 DEF Init, TypeOK, Server!Init, Server!JobState, Client!TypeOK
<1> QED
  BY <1>2, <1>3, <1>4, <1>5 DEF OInv, OnePlace, Over, IdleIsQuiet, Quiet, ChainWaits,
     DownloadPending

(* The server's operations keep its type. *)
LEMMA ServerTyped ==
  ASSUME job \in Server!JobState, stopping \in BOOLEAN,
         \/ Server!Start \/ Server!Accept \/ Server!Announce
         \/ Server!RequestStop \/ Server!End \/ Server!Fail
         \/ UNCHANGED serverVars
  PROVE  job' \in Server!JobState /\ stopping' \in BOOLEAN
BY DEF Server!Start, Server!Accept, Server!Announce, Server!RequestStop, Server!End,
  Server!Fail, Server!JobState, Server!Alive, Server!Answering, serverVars

(* Steps that go on with the next task of the chain. *)
LEMMA MoveStep ==
  ASSUME OInv, run.task # "none",
         run' \in Run, run'.verdict = run.verdict,
         job' \in Server!JobState, stopping' \in BOOLEAN, dir' \in BOOLEAN,
         UNCHANGED <<request, form, events, option>>
  PROVE  OInv'
<1>1. TypeOK'
  BY DEF OInv, TypeOK, Client!TypeOK
<1>2. form # "idle" /\ run.verdict = "none" /\ ~ChainWaits /\ ~DownloadPending
  BY DEF OInv, OnePlace, Over, IdleIsQuiet, Quiet
<1>3. (ChainWaits' <=> ChainWaits) /\ (DownloadPending' <=> DownloadPending)
  BY DEF ChainWaits, DownloadPending, Client!isBusy
<1> QED
  BY <1>1, <1>2, <1>3 DEF OInv, OnePlace, Over, IdleIsQuiet

(* Steps that send a request and wait for the answer. *)
LEMMA AskStep ==
  ASSUME OInv, NEW task \in Task \ {"none"},
         NEW purpose \in Client!Purpose, Ask(task, purpose)
  PROVE  OInv'
<1>1. /\ run.task = task /\ Client!Launch(purpose) /\ GoTo("none")
      /\ UNCHANGED <<job, stopping, dir, form, events, option>>
  BY DEF Ask, Ready
<1>2. /\ run' \in Run /\ run'.task = "none" /\ run'.verdict = run.verdict
  BY <1>1, GoToRun DEF OInv, TypeOK, Task
<1>3. TypeOK'
  BY <1>1, <1>2, LaunchRequest DEF OInv, TypeOK
<1>4. form # "idle" /\ run.verdict = "none" /\ ~DownloadPending
  BY <1>1 DEF OInv, OnePlace, Over, IdleIsQuiet, Quiet
<1>5. DownloadPending' <=> DownloadPending
  BY <1>1 DEF DownloadPending
<1> QED
  BY <1>1, <1>2, <1>3, <1>4, <1>5 DEF OInv, OnePlace, Over, IdleIsQuiet

(* Callbacks of the chain's requests. *)
LEMMA CallbackStep ==
  ASSUME OInv, NEW purpose \in Client!Purpose \ {"wnow"}, NEW answer,
         Client!Finish(purpose, answer),
         run' \in Run, run'.verdict = run.verdict,
         UNCHANGED <<job, stopping, dir, form, events, option>>
  PROVE  OInv'
<1>1. Client!TypeOK' /\ Client!isBusy /\ ~Client!isBusy' /\ request.for = purpose
  BY FinishRequest
<1>2. TypeOK'
  BY <1>1 DEF OInv, TypeOK
<1>3. ChainWaits /\ ~ChainWaits'
  BY <1>1 DEF ChainWaits
<1>4. form # "idle" /\ run.verdict = "none" /\ ~DownloadPending
  BY <1>1, <1>3 DEF OInv, OnePlace, Over, IdleIsQuiet, Quiet
<1>5. DownloadPending' <=> DownloadPending
  BY DEF DownloadPending
<1> QED
  BY <1>2, <1>3, <1>4, <1>5 DEF OInv, OnePlace, Over, IdleIsQuiet

(* Steps of the server and of the network: a transaction stays the one it  *)
(* is, and in progress.                                                    *)
LEMMA WireStep ==
  ASSUME OInv, Client!TypeOK', request'.for = request.for,
         Client!isBusy' <=> Client!isBusy,
         job' \in Server!JobState, stopping' \in BOOLEAN,
         UNCHANGED <<run, dir, form, events, option>>
  PROVE  OInv'
<1>1. TypeOK'
  BY DEF OInv, TypeOK
<1>2. (ChainWaits' <=> ChainWaits) /\ (DownloadPending' <=> DownloadPending)
  BY DEF ChainWaits, DownloadPending
<1> QED
  BY <1>1, <1>2 DEF OInv, OnePlace, Over, IdleIsQuiet, Quiet

(* The last step of a chain. *)
LEMMA ConcludeStep ==
  ASSUME OInv, run.task # "none", NEW verdict \in {"finished", "failed"},
         Conclude(verdict), dir' \in BOOLEAN,
         UNCHANGED <<job, stopping, request, form, option>>
  PROVE  OInv'
<1>1. /\ run' \in Run /\ run'.task = "none"
      /\ events' \in Seq(Event) /\ Len(events') = Len(events) + 1
      /\ events'[Len(events')] = verdict
      /\ \A i \in 1 .. Len(events) : events'[i] = events[i]
  BY ConcludeRun DEF OInv, TypeOK
<1>2. TypeOK'
  BY <1>1 DEF OInv, TypeOK, Client!TypeOK
<1>3. form # "idle" /\ ~ChainWaits /\ ~DownloadPending
  BY DEF OInv, OnePlace, IdleIsQuiet, Quiet
<1>4. ~ChainWaits'
  BY <1>3 DEF ChainWaits, Client!isBusy
<1>5. ~DownloadPending'
  BY <1>1, <1>3 DEF DownloadPending, OInv, TypeOK
<1>6. OnePlace'
  BY <1>4, <1>5 DEF OnePlace, DownloadPending
<1> QED
  BY <1>1, <1>2, <1>3, <1>4, <1>5, <1>6 DEF OInv, Over, IdleIsQuiet

(* One event more, none of a download, in the queue of the form. *)
LEMMA AppendedEvent ==
  ASSUME events \in Seq(Event), NEW event \in Event, Emit(event)
  PROVE  /\ events' \in Seq(Event) /\ Len(events') = Len(events) + 1
         /\ events'[Len(events')] = event
         /\ \A i \in 1 .. Len(events) : events'[i] = events[i]
BY AppendProperties DEF Emit

LEMMA DownloadStep == OInv /\ Download => OInv'
<1> SUFFICES ASSUME OInv, Download PROVE OInv'
  OBVIOUS
<1>1. /\ run' \in Run /\ run'.task = "none" /\ run'.verdict = run.verdict
  BY GoToRun DEF Download, OInv, TypeOK, Task
<1>2. /\ events' \in Seq(Event) /\ Len(events') = Len(events) + 1
      /\ events'[Len(events')] = "downloaded"
      /\ \A i \in 1 .. Len(events) : events'[i] = events[i]
  BY AppendedEvent DEF Download, OInv, TypeOK, Event
<1>3. TypeOK'
  BY <1>1, <1>2 DEF Download, OInv, TypeOK, Client!TypeOK
<1>4. form # "idle" /\ run.verdict = "none" /\ ~ChainWaits /\ ~DownloadPending
  BY DEF Download, OInv, OnePlace, Over, IdleIsQuiet, Quiet
<1>5. ~ChainWaits'
  BY <1>4 DEF Download, ChainWaits, Client!isBusy
<1>6. \A i \in 1 .. Len(events') : events'[i] = "downloaded" => i = Len(events')
  BY <1>2, <1>4 DEF DownloadPending, OInv, TypeOK
<1>7. OnePlace'
  BY <1>1, <1>5, <1>6 DEF OnePlace
<1> QED
  BY <1>1, <1>3, <1>4, <1>7 DEF Download, OInv, Over, IdleIsQuiet

(* The form: its slots take the first event from the queue ... *)
LEMMA TakenEvent ==
  ASSUME events \in Seq(Event), NEW event, Slot(event)
  PROVE  /\ events' \in Seq(Event) /\ Len(events) > 0 /\ events[1] = event
         /\ Len(events') = Len(events) - 1
         /\ \A i \in 1 .. Len(events') : events'[i] = events[i + 1]
BY HeadTailProperties DEF Slot

(* ... so that at most one download is pending then, none after it was     *)
(* taken.                                                                  *)
LEMMA TakenPending ==
  ASSUME OInv, NEW event, Slot(event)
  PROVE  /\ DownloadPending' => DownloadPending
         /\ event = "downloaded" => DownloadPending /\ ~DownloadPending'
         /\ \A i, j \in 1 .. Len(events') :
              events'[i] = "downloaded" /\ events'[j] = "downloaded" => i = j
<1>1. /\ events \in Seq(Event) /\ events' \in Seq(Event)
      /\ Len(events) > 0 /\ events[1] = event
      /\ Len(events') = Len(events) - 1
      /\ \A i \in 1 .. Len(events') : events'[i] = events[i + 1]
  BY TakenEvent DEF OInv, TypeOK
<1>2. \A i \in 1 .. Len(events') : i + 1 \in 1 .. Len(events) /\ 1 \in 1 .. Len(events)
  BY <1>1
<1>3. 1 \in 1 .. Len(events)
  BY <1>1
<1>4. \A i, j \in 1 .. Len(events') :
        events'[i] = "downloaded" /\ events'[j] = "downloaded" => i = j
  BY <1>1, <1>2 DEF OInv, OnePlace
<1>5. DownloadPending' => DownloadPending
  BY <1>1, <1>2 DEF DownloadPending
<1>6. ASSUME event = "downloaded" PROVE DownloadPending /\ ~DownloadPending'
  <2>1. DownloadPending
    BY <1>1, <1>3, <1>6 DEF DownloadPending
  <2>2. ASSUME NEW i \in 1 .. Len(events'), events'[i] = "downloaded" PROVE FALSE
    <3>1. i + 1 = 1
      BY <1>1, <1>2, <1>3, <1>6, <2>2 DEF OInv, OnePlace
    <3> QED
      BY <3>1
  <2> QED
    BY <2>1, <2>2 DEF DownloadPending
<1> QED
  BY <1>4, <1>5, <1>6

(* What reset() leaves of the run and of the client. *)
LEMMA ResetRun ==
  ASSUME TypeOK, ResetAction
  PROVE  /\ form = "running" /\ form' = "deleting"
         /\ run' \in Run /\ run'.task = run.task /\ run'.verdict = run.verdict
         /\ Client!TypeOK' /\ request'.for = request.for
         /\ Client!isBusy' <=> Client!isBusy
<1>1. /\ run' \in Run /\ run'.task = run.task /\ run'.verdict = run.verdict
  BY DEF TypeOK, ResetAction, Run
<1> QED
  BY <1>1, AbortRequest DEF ResetAction, TypeOK

LEMMA DisconnectStep == OInv /\ Disconnect => OInv'
<1> SUFFICES ASSUME OInv, Disconnect PROVE OInv'
  OBVIOUS
<1>1. ResetAction /\ UNCHANGED <<job, stopping, dir, events, option>>
  BY DEF Disconnect
<1>2. /\ form' = "deleting"
      /\ run' \in Run /\ run'.task = run.task /\ run'.verdict = run.verdict
      /\ Client!TypeOK' /\ request'.for = request.for
      /\ Client!isBusy' <=> Client!isBusy
  BY <1>1, ResetRun DEF OInv
<1>3. TypeOK'
  BY <1>1, <1>2 DEF OInv, TypeOK
<1>4. (ChainWaits' <=> ChainWaits) /\ (DownloadPending' <=> DownloadPending)
  BY <1>1, <1>2 DEF ChainWaits, DownloadPending
<1> QED
  BY <1>1, <1>2, <1>3, <1>4 DEF OInv, OnePlace, Over, IdleIsQuiet

(* A slot that resets the action, or finds none. *)
LEMMA EndSlotStep ==
  ASSUME OInv, NEW event, Slot(event),
         \/ ResetAction
         \/ form = "idle" /\ form' \in {"idle", "crashed"} /\ UNCHANGED <<run, request>>
  PROVE  OInv'
<1>1. /\ events' \in Seq(Event) /\ UNCHANGED <<job, stopping, dir, option>>
  BY TakenEvent DEF Slot, OInv, TypeOK
<1>2. /\ form' \in {"deleting", "idle", "crashed"}
      /\ form' = "idle" => form = "idle"
      /\ run' \in Run /\ run'.task = run.task /\ run'.verdict = run.verdict
      /\ Client!TypeOK' /\ request'.for = request.for
      /\ Client!isBusy' <=> Client!isBusy
  <2>1. CASE ResetAction
    BY <2>1, ResetRun DEF OInv
  <2>2. CASE form = "idle" /\ form' \in {"idle", "crashed"} /\ UNCHANGED <<run, request>>
    BY <2>2 DEF OInv, TypeOK, Client!TypeOK, Client!isBusy
  <2> QED
    BY <2>1, <2>2
<1>3. TypeOK'
  BY <1>1, <1>2 DEF OInv, TypeOK
<1>4. ChainWaits' <=> ChainWaits
  BY <1>2 DEF ChainWaits
<1>5. OnePlace'
  BY <1>2, <1>4, TakenPending DEF OInv, OnePlace
<1>6. Over'
  BY <1>2, <1>4, TakenPending DEF OInv, Over
<1>7. IdleIsQuiet'
  BY <1>2 DEF OInv, IdleIsQuiet, Quiet
<1> QED
  BY <1>3, <1>5, <1>6, <1>7 DEF OInv

LEMMA DownloadedStep == OInv /\ OnDownloaded => OInv'
<1> SUFFICES ASSUME OInv, OnDownloaded PROVE OInv'
  OBVIOUS
<1>1. Slot("downloaded")
  BY DEF OnDownloaded
<1>2. CASE form = "running" /\ GoTo("cleanup") /\ UNCHANGED <<form, request>>
  <2>1. /\ run' \in Run /\ run'.task = "cleanup" /\ run'.verdict = run.verdict
    BY <1>2, GoToRun DEF OInv, TypeOK, Task
  <2>2. DownloadPending /\ ~DownloadPending' /\ events' \in Seq(Event)
    BY <1>1, TakenPending, TakenEvent DEF OInv, TypeOK
  <2>3. run.verdict = "none" /\ ~ChainWaits
    BY <2>2 DEF OInv, OnePlace, Over
  <2>4. ~ChainWaits'
    BY <1>2, <2>3 DEF ChainWaits, Client!isBusy
  <2>5. TypeOK'
    BY <1>1, <1>2, <2>1, <2>2 DEF Slot, OInv, TypeOK, Client!TypeOK
  <2>6. OnePlace'
    BY <2>2, <2>4 DEF OnePlace, DownloadPending
  <2> QED
    BY <1>2, <2>1, <2>3, <2>5, <2>6 DEF OInv, Over, IdleIsQuiet
<1>3. CASE form = "idle" /\ form' = "crashed" /\ UNCHANGED <<run, request>>
  BY <1>1, <1>3, EndSlotStep
<1> QED
  BY <1>2, <1>3 DEF OnDownloaded

(* A run is created only when nothing is left of an earlier one. *)
LEMMA CreateStep == OInv /\ (OnRunAnalysis \/ ResumeRemoteRun) => OInv'
<1> SUFFICES ASSUME OInv, OnRunAnalysis \/ ResumeRemoteRun PROVE OInv'
  OBVIOUS
<1>1. PICK number \in 0 .. MaxResumes + 1, task \in {"setup", "monitor"} :
        run' = NewRun(number, task)
  BY ConstantsAssumption DEF OnRunAnalysis, ResumeRemoteRun
<1>2. run' \in Run /\ run'.verdict = "none"
  <2>1. <<>> \in Seq(UndoStep)
    OBVIOUS
  <2> QED
    BY <1>1, <2>1, ConstantsAssumption DEF NewRun, Run, Task
<1>3. /\ form = "idle" /\ form' = "running" /\ dir' \in BOOLEAN
      /\ UNCHANGED <<job, stopping, request, events, option>>
  BY DEF OnRunAnalysis, InitialiseWorkspace, ResumeRemoteRun, NoRun, OInv, TypeOK
<1>4. TypeOK'
  BY <1>2, <1>3 DEF OInv, TypeOK, Client!TypeOK
<1>5. ~ChainWaits'
  BY <1>3 DEF OInv, IdleIsQuiet, Quiet, ChainWaits, Client!isBusy
<1>6. ~DownloadPending
  BY DEF OnRunAnalysis, ResumeRemoteRun, NoRun, DownloadPending
<1>7. ~DownloadPending' /\ OnePlace'
  BY <1>3, <1>5, <1>6 DEF DownloadPending, OnePlace
<1> QED
  BY <1>2, <1>3, <1>4, <1>7 DEF OInv, Over, IdleIsQuiet

LEMMA CancelStep == OInv /\ OnCancel => OInv'
<1> SUFFICES ASSUME OInv, OnCancel PROVE OInv'
  OBVIOUS
<1>1. /\ run' \in Run /\ run'.task = run.task /\ run'.verdict = run.verdict
  BY DEF OnCancel, OInv, TypeOK, Run
<1>2. /\ Client!TypeOK' /\ request'.for = request.for
      /\ Client!isBusy' <=> Client!isBusy
  BY AbortRequest DEF OnCancel, OInv, TypeOK
<1>3. /\ events' \in Seq(Event) /\ Len(events') = Len(events) + 1
      /\ events'[Len(events')] = "cancelled"
      /\ \A i \in 1 .. Len(events) : events'[i] = events[i]
  BY AppendedEvent DEF OnCancel, OInv, TypeOK, Event
<1>4. TypeOK'
  BY <1>1, <1>2, <1>3 DEF OnCancel, OInv, TypeOK
<1>5. \A i \in 1 .. Len(events') :
        events'[i] = "downloaded" => i \in 1 .. Len(events) /\ events[i] = "downloaded"
  BY <1>3 DEF OInv, TypeOK
<1>6. (ChainWaits' <=> ChainWaits) /\ (DownloadPending' => DownloadPending)
  BY <1>2, <1>5 DEF ChainWaits, DownloadPending
<1>7. OnePlace'
  BY <1>1, <1>5, <1>6 DEF OInv, OnePlace
<1> QED
  BY <1>1, <1>4, <1>6, <1>7 DEF OnCancel, OInv, Over, IdleIsQuiet

(* The transaction of a button is not one of the chain. *)
LEMMA ButtonStep == OInv /\ (OnWnow \/ WriteNowAnswered) => OInv'
<1> SUFFICES ASSUME OInv, OnWnow \/ WriteNowAnswered PROVE OInv'
  OBVIOUS
<1>1. /\ Client!TypeOK' /\ ~ChainWaits /\ ~ChainWaits'
      /\ form = "idle" => ~Client!isBusy'
  <2>1. CASE OnWnow
    BY <2>1, LaunchRequest DEF OnWnow, ChainWaits, Client!Purpose
  <2>2. CASE WriteNowAnswered
    BY <2>2, FinishRequest DEF WriteNowAnswered, ChainWaits
  <2> QED
    BY <2>1, <2>2
<1>2. UNCHANGED <<job, stopping, run, dir, form, events, option>>
  BY DEF OnWnow, WriteNowAnswered
<1>3. TypeOK'
  BY <1>1, <1>2 DEF OInv, TypeOK
<1>4. DownloadPending' <=> DownloadPending
  BY <1>2 DEF DownloadPending
<1> QED
  BY <1>1, <1>2, <1>3, <1>4 DEF OInv, OnePlace, Over, IdleIsQuiet, Quiet

LEMMA FormEndStep == OInv /\ (Deleted \/ DownloadFails) => OInv'
<1> SUFFICES ASSUME OInv, Deleted \/ DownloadFails PROVE OInv'
  OBVIOUS
<1>1. /\ UNCHANGED <<job, stopping, request, run, dir, events, option>>
      /\ form' \in {"idle", "crashed"} /\ (form' = "idle" => Quiet)
  BY DEF Deleted, DownloadFails
<1>2. TypeOK'
  BY <1>1 DEF OInv, TypeOK, Client!TypeOK
<1>3. (ChainWaits' <=> ChainWaits) /\ (DownloadPending' <=> DownloadPending) /\ (Quiet' <=> Quiet)
  BY <1>1 DEF ChainWaits, DownloadPending, Quiet, Client!isBusy
<1> QED
  BY <1>1, <1>2, <1>3 DEF OInv, OnePlace, Over, IdleIsQuiet

(* The tasks that do not ask the server. *)
LEMMA TaskStep ==
  ASSUME OInv,
         \/ Cancelled \/ RemoteCommandFails \/ ClientBusy \/ Disconnected
         \/ UploadInputFile \/ GiveUp
         \/ SetupRemoteEnvironment \/ LaunchRemoteExecutionServer \/ PerformUndo
  PROVE  OInv'
<1> USE DEF OInv, TypeOK
<1>1. CASE Cancelled
  BY <1>1, GoToRun, MoveStep DEF Cancelled, CancelledTask, Task
<1>2. CASE RemoteCommandFails
  BY <1>2, GoToRun, MoveStep, ServerTyped DEF RemoteCommandFails, Ready, Task
<1>3. CASE ClientBusy \/ Disconnected
  BY <1>3, GoToRun, MoveStep DEF ClientBusy, Disconnected, Ready, Task
<1>4. CASE UploadInputFile \/ GiveUp
  BY <1>4, GoToRun, MoveStep DEF UploadInputFile, GiveUp, Ready, Task
<1>5. CASE SetupRemoteEnvironment
  <2>1. <<"dir">> \o run.undo \in Seq(UndoStep)
    BY ConcatProperties DEF Run, UndoStep
  <2>2. run' \in Run /\ run'.verdict = run.verdict
    BY <1>5, <2>1 DEF SetupRemoteEnvironment, Run, Task
  <2> QED
    BY <1>5, <2>2, MoveStep DEF SetupRemoteEnvironment, InitialiseWorkspace, Ready
<1>6. CASE LaunchRemoteExecutionServer
  <2>1. <<"proc">> \o run.undo \in Seq(UndoStep)
    BY ConcatProperties DEF Run, UndoStep
  <2>2. run' \in Run /\ run'.verdict = run.verdict
    BY <1>6, <2>1 DEF LaunchRemoteExecutionServer, Run, Task
  <2> QED
    BY <1>6, <2>2, MoveStep, ServerTyped DEF LaunchRemoteExecutionServer, Ready
<1>7. CASE PerformUndo
  <2>1. Tail(run.undo) \in Seq(UndoStep)
    BY <1>7, HeadTailProperties DEF PerformUndo, Run
  <2>2. run' \in Run /\ run'.verdict = run.verdict
    BY <1>7, <2>1 DEF PerformUndo, Run
  <2>3. job' \in Server!JobState /\ stopping' \in BOOLEAN /\ dir' \in BOOLEAN
    BY <1>7 DEF PerformUndo, UndoLaunch, UndoSetup, CleanupWorkspace, OInv, TypeOK, serverVars
  <2> QED
    BY <1>7, <2>2, <2>3, MoveStep DEF PerformUndo
<1> QED
  BY <1>1, <1>2, <1>3, <1>4, <1>5, <1>6, <1>7

(* The callbacks of the chain's requests. *)
LEMMA AnswerStep ==
  ASSUME OInv,
         \/ Contacted \/ NotContacted \/ MonitorAnswered
         \/ ResultsAnswered \/ ExitAnswered
  PROVE  OInv'
<1> USE DEF OInv, TypeOK
<1>1. CASE Contacted
  BY <1>1, GoToRun, CallbackStep DEF Contacted, Client!Purpose, Task
<1>2. CASE NotContacted
  <2>1. run' \in Run /\ run'.verdict = run.verdict
    <3>1. run.attempts > 0 => run.attempts - 1 \in 0 .. MaxAttempts
      BY ConstantsAssumption DEF Run
    <3>2. CASE run.attempts > 0
      BY <1>2, <3>1, <3>2 DEF NotContacted, Run, Task
    <3>3. CASE ~(run.attempts > 0)
      BY <1>2, <3>3 DEF NotContacted, Run, Task
    <3> QED
      BY <3>2, <3>3
  <2> QED
    BY <1>2, <2>1, CallbackStep DEF NotContacted, Client!Purpose
<1>3. CASE MonitorAnswered
  <2>1. PICK answer \in Status \union {"failure"} :
          /\ Client!Finish("monitor", answer)
          /\ run' = [run EXCEPT
               !.task = CASE answer = "error"   -> "rollback"
                          [] answer = "results" -> "fetch"
                          [] OTHER              -> "monitor",
               !.told = IF answer = "failure" THEN @ ELSE answer]
    BY <1>3 DEF MonitorAnswered
  <2>2. run' \in Run /\ run'.verdict = run.verdict
    BY <2>1 DEF Run, Task, Status
  <2> QED
    BY <1>3, <2>1, <2>2, CallbackStep DEF MonitorAnswered, Client!Purpose
<1>4. CASE ResultsAnswered
  <2>1. PICK answer \in {"ok", "failure"} :
          /\ Client!Finish("results", answer)
          /\ run' = [run EXCEPT !.task = "exit", !.got = (answer = "ok")]
    BY <1>4 DEF ResultsAnswered
  <2>2. run' \in Run /\ run'.verdict = run.verdict
    BY <2>1 DEF Run, Task
  <2> QED
    BY <1>4, <2>1, <2>2, CallbackStep DEF ResultsAnswered, Client!Purpose
<1>5. CASE ExitAnswered
  BY <1>5, GoToRun, CallbackStep DEF ExitAnswered, Client!Purpose, Task
<1> QED
  BY <1>1, <1>2, <1>3, <1>4, <1>5

(* The tasks that ask the server. *)
LEMMA RequestStep ==
  ASSUME OInv,
         WaitForContact \/ Monitor \/ FetchResults \/ StopRemoteExecutionServer
  PROVE  OInv'
BY AskStep DEF WaitForContact, Monitor, FetchResults, StopRemoteExecutionServer,
  Client!Purpose, Task

(* The server and the network. *)
LEMMA OutsideStep ==
  ASSUME OInv,
         \/ ServeRequest \/ ConnectionRefused
         \/ WriteNowFaults \/ NetworkFault \/ ServerCrash \/ ServerProgress
  PROVE  OInv'
<1> USE DEF OInv, TypeOK
<1>1. CASE ServeRequest
  <2>1. request.for \in {"contact", "monitor", "results", "exit", "wnow"}
    BY <1>1 DEF ServeRequest, Client!TypeOK, Client!Request, Client!Idle, Client!Purpose
  <2>2. PICK answer \in Client!Answer : Client!Answered(answer)
    <3>1. job \in Client!Answer
      BY <1>1 DEF ServeRequest, Server!Answering, Client!Answer
    <3> QED
      BY <1>1, <2>1, <3>1 DEF ServeRequest, Client!Answer
  <2>3. /\ Client!TypeOK' /\ request'.for = request.for
        /\ Client!isBusy' <=> Client!isBusy
    BY <2>2, AnsweredRequest DEF Client!isBusy
  <2>4. Server!RequestStop \/ UNCHANGED serverVars
    BY <1>1, <2>1 DEF ServeRequest
  <2> QED
    BY <1>1, <2>3, <2>4, ServerTyped, WireStep DEF ServeRequest
<1>2. CASE ConnectionRefused \/ NetworkFault
  <2>1. /\ Client!TypeOK' /\ request'.for = request.for
        /\ Client!isBusy' <=> Client!isBusy
    BY <1>2, LostRequest DEF ConnectionRefused, NetworkFault, Client!isBusy
  <2> QED
    BY <1>2, <2>1, WireStep DEF ConnectionRefused, NetworkFault
<1>3. CASE WriteNowFaults \/ ServerCrash \/ ServerProgress
  <2>1. job' \in Server!JobState /\ stopping' \in BOOLEAN
    BY <1>3, ServerTyped DEF WriteNowFaults, ServerCrash, ServerProgress
  <2>2. UNCHANGED <<request, run, dir, form, events, option>>
    BY <1>3 DEF WriteNowFaults, ServerCrash, ServerProgress
  <2>3. Client!TypeOK' /\ (Client!isBusy' <=> Client!isBusy)
    BY <2>2 DEF Client!TypeOK, Client!isBusy
  <2> QED
    BY <2>1, <2>2, <2>3, WireStep
<1> QED
  BY <1>1, <1>2, <1>3

LEMMA LastStep == OInv /\ (CleanupRemote \/ EmitFailed) => OInv'
BY ConcludeStep DEF CleanupRemote, CleanupWorkspace, EmitFailed, OInv, TypeOK

LEMMA SlotStep == OInv /\ (OnResultReady \/ OnAnalysisEnded) => OInv'
BY EndSlotStep DEF OnResultReady, OnAnalysisEnded

LEMMA InvNext == OInv /\ [Next]_vars => OInv'
<1>1. OInv /\ Chain => OInv'
  BY TaskStep, RequestStep, AnswerStep, DownloadStep, FormEndStep, LastStep DEF Chain
<1>2. OInv /\ (Buttons \/ Slots \/ User) => OInv'
  BY ButtonStep, FormEndStep, SlotStep, DownloadedStep, CreateStep, CancelStep,
     DisconnectStep DEF Buttons, Slots, User
<1>3. OInv /\ (Network \/ Environment \/ ServerStep) => OInv'
  BY OutsideStep DEF Network, Environment, ServerStep
<1>4. OInv /\ UNCHANGED vars => OInv'
  BY DEF vars, OInv, TypeOK, OnePlace, Over, IdleIsQuiet, Quiet, ChainWaits,
     DownloadPending, Client!TypeOK, Client!isBusy
<1> QED
  BY <1>1, <1>2, <1>3, <1>4 DEF Next

LEMMA Invariance == Spec => []OInv
BY InvInit, InvNext, PTL DEF Spec

(* RemoteRun never leaves its states: in particular the attempts to        *)
(* contact the server do not fall below zero (remoterun.cpp 252-304), and  *)
(* no answer of the server finds a run without a place for it.             *)
THEOREM TypeCorrect == Spec => []TypeOK
<1>1. OInv => TypeOK
  BY DEF OInv
<1> QED
  BY <1>1, Invariance, PTL
-----------------------------------------------------------------------------
(* Only four actions queue an event. *)
LEMMA NewEvent ==
  ASSUME TypeOK, Next, Len(events') > Len(events)
  PROVE  Download \/ CleanupRemote \/ EmitFailed \/ OnCancel
<1>1. ASSUME NEW event, Slot(event) PROVE FALSE
  BY <1>1, TakenEvent DEF TypeOK
<1>2. events' # events
  BY DEF TypeOK
<1>3. CASE Chain
  BY <1>2, <1>3 DEF Chain, Cancelled, CancelledTask, RemoteCommandFails, ClientBusy,
     Disconnected, SetupRemoteEnvironment, UploadInputFile, LaunchRemoteExecutionServer,
     WaitForContact, Contacted, NotContacted, GiveUp, Monitor, MonitorAnswered,
     FetchResults, ResultsAnswered, StopRemoteExecutionServer, ExitAnswered,
     DownloadFails, PerformUndo, Ask
<1>4. CASE Slots
  BY <1>1, <1>2, <1>4 DEF Slots, Deleted, OnResultReady, OnAnalysisEnded, OnDownloaded
<1>5. CASE Buttons \/ User
  BY <1>2, <1>5 DEF Buttons, User, WriteNowAnswered, OnWnow, OnRunAnalysis,
     ResumeRemoteRun, Disconnect
<1>6. CASE Network \/ Environment \/ ServerStep
  BY <1>2, <1>6 DEF Network, Environment, ServerStep, ServeRequest, ConnectionRefused,
     WriteNowFaults, NetworkFault, ServerCrash, ServerProgress
<1> QED
  BY <1>3, <1>4, <1>5, <1>6 DEF Next

(* A run reports one end: whatever is lost, fails or is pressed, in any    *)
(* order, no event but the user's own follows a verdict.                   *)
THEOREM ReportsOnce == Spec => OneVerdict
<1> DEFINE Report ==
      Len(events') > Len(events) /\ events'[Len(events')] # "cancelled"
        => run.verdict = "none"
<1>1. OInv /\ [Next]_vars => [Report]_vars
  <2> SUFFICES ASSUME OInv, Next, Len(events') > Len(events),
                      events'[Len(events')] # "cancelled"
               PROVE  run.verdict = "none"
    BY DEF vars
  <2>1. events \in Seq(Event)
    BY DEF OInv, TypeOK
  <2>2. ~OnCancel
    BY <2>1, AppendedEvent DEF OnCancel, Event
  <2>3. run.task # "none"
    BY <2>2, NewEvent DEF OInv, Download, CleanupRemote, EmitFailed
  <2> QED
    BY <2>3 DEF OInv, Over
<1> QED
  BY <1>1, Invariance, PTL DEF Spec, OneVerdict
-----------------------------------------------------------------------------
(* What the client knows of the server in each place of the chain, if no   *)
(* button takes the chain's turn.  A rollback without a kill starts from   *)
(* an error, from an outcome, or before anything was known.                *)
KnowsAt(task) ==
  /\ task \in {"setup", "upload", "launch", "contact", "giveup"} => run.told = "nothing"
  /\ task \in {"fetch", "exit", "download", "cleanup"} => run.told = "results"
  /\ task = "rollback" => run.kill \/ run.told # "working"

KnowsRequest ==
  Client!isBusy =>
    /\ request.for # "wnow"
    /\ request.for = "contact" => run.told = "nothing"
    /\ request.for \in {"results", "exit"} => run.told = "results"

KnowsDownload == DownloadPending => run.told = "results"

Knows == KnowsAt(run.task) /\ KnowsRequest /\ KnowsDownload

LEMMA KnowsInit == Init => Knows
BY DEF Init, NewRun, Knows, KnowsAt, KnowsRequest, KnowsDownload, DownloadPending,
  Client!Init, Client!isBusy, Client!Idle

(* The next task, without a request. *)
LEMMA KnowsMove ==
  ASSUME OInv, Knows, NEW task \in Task, run'.task = task, KnowsAt(task),
         run'.told = run.told, run.kill => run'.kill, UNCHANGED <<request, events>>
  PROVE  Knows'
BY DEF Knows, KnowsAt, KnowsRequest, KnowsDownload, DownloadPending, Client!isBusy

LEMMA KnowsTask ==
  ASSUME OInv, Knows,
         \/ Cancelled \/ RemoteCommandFails \/ ClientBusy \/ Disconnected
         \/ UploadInputFile \/ GiveUp
         \/ SetupRemoteEnvironment \/ LaunchRemoteExecutionServer \/ PerformUndo
  PROVE  Knows'
<1>0. run \in Run /\ KnowsAt(run.task)
  BY DEF OInv, TypeOK, Knows
<1>1. CASE Cancelled
  <2>1. GoTo("rollback") /\ run.kill /\ UNCHANGED <<request, events>>
    BY <1>1 DEF Cancelled, CancelledTask
  <2> QED
    BY <1>0, <2>1, GoToRun, KnowsMove DEF KnowsAt, Task
<1>2. CASE RemoteCommandFails
  <2>1. /\ GoTo("rollback") /\ UNCHANGED <<request, events>>
        /\ run.task \in {"setup", "upload", "launch", "cleanup"}
    BY <1>2 DEF RemoteCommandFails, Ready
  <2>2. KnowsAt("rollback")
    BY <1>0, <2>1 DEF KnowsAt
  <2> QED
    BY <1>0, <2>1, <2>2, GoToRun, KnowsMove DEF Task
<1>3. CASE ClientBusy
  <2>1. Client!isBusy /\ run.task # "none"
    BY <1>3 DEF ClientBusy, Ready
  <2>2. request.for # "wnow" /\ request.for = "wnow"
    BY <2>1 DEF Knows, KnowsRequest, OInv, OnePlace, ChainWaits
  <2> QED
    BY <2>2
<1>4. CASE Disconnected
  <2>1. GoTo("none") /\ UNCHANGED <<request, events>>
    BY <1>4 DEF Disconnected
  <2> QED
    BY <1>0, <2>1, GoToRun, KnowsMove DEF KnowsAt, Task
<1>5. CASE UploadInputFile
  <2>1. GoTo("launch") /\ UNCHANGED <<request, events>> /\ run.task = "upload"
    BY <1>5 DEF UploadInputFile, Ready
  <2> QED
    BY <1>0, <2>1, GoToRun, KnowsMove DEF KnowsAt, Task
<1>6. CASE GiveUp
  <2>1. GoTo("rollback") /\ UNCHANGED <<request, events>> /\ run.task = "giveup"
    BY <1>6 DEF GiveUp
  <2> QED
    BY <1>0, <2>1, GoToRun, KnowsMove DEF KnowsAt, Task
<1>7. CASE SetupRemoteEnvironment
  <2>1. /\ run'.task = "upload" /\ run'.told = run.told /\ run'.kill = run.kill
        /\ run.task = "setup" /\ UNCHANGED <<request, events>>
    BY <1>0, <1>7 DEF SetupRemoteEnvironment, Ready, Run
  <2> QED
    BY <1>0, <2>1, KnowsMove DEF KnowsAt, Task
<1>8. CASE LaunchRemoteExecutionServer
  <2>1. /\ run'.task = "contact" /\ run'.told = run.told /\ run'.kill = run.kill
        /\ run.task = "launch" /\ UNCHANGED <<request, events>>
    BY <1>0, <1>8 DEF LaunchRemoteExecutionServer, Ready, Run
  <2> QED
    BY <1>0, <2>1, KnowsMove DEF KnowsAt, Task
<1>9. CASE PerformUndo
  <2>1. /\ run'.task = "rollback" /\ run'.told = run.told /\ run'.kill = run.kill
        /\ run.task = "rollback" /\ UNCHANGED <<request, events>>
    BY <1>0, <1>9 DEF PerformUndo, Run
  <2> QED
    BY <1>0, <2>1, KnowsMove DEF Task
<1> QED
  BY <1>1, <1>2, <1>3, <1>4, <1>5, <1>6, <1>7, <1>8, <1>9

LEMMA KnowsAsk ==
  ASSUME OInv, Knows,
         WaitForContact \/ Monitor \/ FetchResults \/ StopRemoteExecutionServer
  PROVE  Knows'
<1>1. PICK task \in {"contact", "monitor", "fetch", "exit"},
           purpose \in {"contact", "monitor", "results", "exit"} :
        /\ Ask(task, purpose)
        /\ purpose = "contact" => task = "contact"
        /\ purpose \in {"results", "exit"} => task \in {"fetch", "exit"}
  BY DEF WaitForContact, Monitor, FetchResults, StopRemoteExecutionServer
<1>2. /\ run.task = task /\ Client!Launch(purpose) /\ GoTo("none") /\ UNCHANGED events
  BY <1>1 DEF Ask, Ready
<1>3. run'.task = "none" /\ run'.told = run.told
  BY <1>2, GoToRun DEF OInv, TypeOK, Task
<1>4. request'.for = purpose
  BY <1>2 DEF Client!Launch
<1> QED
  BY <1>1, <1>2, <1>3, <1>4 DEF Knows, KnowsAt, KnowsRequest, KnowsDownload, DownloadPending

LEMMA KnowsAnswer ==
  ASSUME OInv, Knows,
         \/ Contacted \/ NotContacted \/ MonitorAnswered
         \/ ResultsAnswered \/ ExitAnswered
  PROVE  Knows'
<1>1. PICK purpose \in {"contact", "monitor", "results", "exit"} :
        /\ \E answer : Client!Finish(purpose, answer)
        /\ purpose = "contact" => Contacted \/ NotContacted
        /\ purpose = "monitor" => MonitorAnswered
        /\ purpose = "results" => ResultsAnswered
        /\ purpose = "exit"    => ExitAnswered
  BY DEF Contacted, NotContacted, MonitorAnswered, ResultsAnswered, ExitAnswered
<1>2. Client!isBusy /\ ~Client!isBusy' /\ request.for = purpose
  BY <1>1, FinishRequest
<1>3. ~DownloadPending /\ run \in Run
  BY <1>1, <1>2 DEF OInv, OnePlace, ChainWaits, TypeOK
<1>4. ~DownloadPending'
  BY <1>3 DEF DownloadPending, Contacted, NotContacted, MonitorAnswered,
     ResultsAnswered, ExitAnswered
<1>5. /\ purpose = "contact" => run.told = "nothing"
      /\ purpose \in {"results", "exit"} => run.told = "results"
  BY <1>2 DEF Knows, KnowsRequest
<1>6. KnowsAt(run.task)'
  <2>1. CASE purpose = "contact"
    <3>1. run'.task \in {"monitor", "contact", "giveup"} /\ run'.told = run.told
      BY <1>1, <1>3, <2>1 DEF Contacted, NotContacted, GoTo, Run
    <3> QED
      BY <1>5, <2>1, <3>1 DEF KnowsAt
  <2>2. CASE purpose = "monitor"
    <3>1. PICK reply \in Status \union {"failure"} :
            run' = [run EXCEPT
               !.task = CASE reply = "error"   -> "rollback"
                          [] reply = "results" -> "fetch"
                          [] OTHER              -> "monitor",
               !.told = IF reply = "failure" THEN @ ELSE reply]
      BY <1>1, <2>2 DEF MonitorAnswered
    <3>2. \/ run'.task = "rollback" /\ run'.told = "error"
          \/ run'.task = "fetch" /\ run'.told = "results"
          \/ run'.task = "monitor"
      <4>1. CASE reply = "error"
        BY <1>3, <3>1, <4>1 DEF Run
      <4>2. CASE reply = "results"
        BY <1>3, <3>1, <4>2 DEF Run
      <4>3. CASE reply \notin {"error", "results"}
        BY <1>3, <3>1, <4>3 DEF Run
      <4> QED
        BY <4>1, <4>2, <4>3
    <3> QED
      BY <3>2 DEF KnowsAt
  <2>3. CASE purpose \in {"results", "exit"}
    <3>1. run'.task \in {"exit", "download", "cleanup"} /\ run'.told = run.told
      BY <1>1, <1>3, <2>3 DEF ResultsAnswered, ExitAnswered, GoTo, Run
    <3> QED
      BY <1>5, <2>3, <3>1 DEF KnowsAt
  <2> QED
    BY <2>1, <2>2, <2>3
<1> QED
  BY <1>2, <1>4, <1>6 DEF Knows, KnowsRequest, KnowsDownload

LEMMA KnowsEnd ==
  ASSUME OInv, Knows, Download \/ DownloadFails \/ CleanupRemote \/ EmitFailed
  PROVE  Knows'
<1>0. run \in Run /\ events \in Seq(Event)
  BY DEF OInv, TypeOK
<1>1. CASE Download
  <2>1. run'.task = "none" /\ run'.told = run.told /\ run.told = "results"
    BY <1>0, <1>1, GoToRun DEF Download, Knows, KnowsAt, Task
  <2> QED
    BY <1>1, <2>1 DEF Download, Knows, KnowsAt, KnowsRequest, KnowsDownload, Client!isBusy
<1>2. CASE DownloadFails
  BY <1>2 DEF DownloadFails, Knows, KnowsAt, KnowsRequest, KnowsDownload,
     DownloadPending, Client!isBusy
<1>3. CASE CleanupRemote \/ EmitFailed
  <2>1. PICK verdict \in {"finished", "failed"} : Conclude(verdict) /\ UNCHANGED request
    BY <1>3 DEF CleanupRemote, EmitFailed
  <2>2. /\ run'.task = "none" /\ run'.told = run.told
        /\ Len(events') = Len(events) + 1 /\ events'[Len(events')] = verdict
        /\ \A i \in 1 .. Len(events) : events'[i] = events[i]
    BY <1>0, <2>1, ConcludeRun
  <2>3. DownloadPending' => DownloadPending
    BY <1>0, <2>2 DEF DownloadPending
  <2> QED
    BY <2>1, <2>2, <2>3 DEF Knows, KnowsAt, KnowsRequest, KnowsDownload, Client!isBusy
<1> QED
  BY <1>1, <1>2, <1>3

(* The form and the user. *)
LEMMA KnowsReset ==
  ASSUME OInv, Knows, ResetAction, DownloadPending' => DownloadPending
  PROVE  Knows'
<1>1. /\ run'.task = run.task /\ run'.told = run.told /\ run'.kill = run.kill
      /\ request'.for = request.for /\ (Client!isBusy' <=> Client!isBusy)
  BY AbortRequest DEF ResetAction, OInv, TypeOK, Run
<1> QED
  BY <1>1 DEF Knows, KnowsAt, KnowsRequest, KnowsDownload

LEMMA KnowsForm ==
  ASSUME OInv, Knows, Slots \/ User
  PROVE  Knows'
<1>0. run \in Run /\ events \in Seq(Event)
  BY DEF OInv, TypeOK
<1>1. ASSUME NEW event, Slot(event) PROVE DownloadPending' => DownloadPending
  BY <1>1, TakenPending
<1>2. ASSUME UNCHANGED <<run, request>>, DownloadPending' => DownloadPending PROVE Knows'
  BY <1>2 DEF Knows, KnowsAt, KnowsRequest, KnowsDownload, Client!isBusy
<1>3. CASE Deleted
  BY <1>2, <1>3 DEF Deleted, DownloadPending
<1>4. CASE OnResultReady \/ OnAnalysisEnded
  BY <1>1, <1>2, <1>4, KnowsReset DEF OnResultReady, OnAnalysisEnded
<1>5. CASE OnDownloaded
  <2>1. CASE GoTo("cleanup") /\ UNCHANGED request
    <3>1. run.told = "results" /\ run'.told = "results" /\ run'.task = "cleanup"
      BY <1>0, <1>5, <2>1, GoToRun, TakenPending DEF OnDownloaded, Knows, KnowsDownload, Task
    <3> QED
      BY <2>1, <3>1 DEF Knows, KnowsAt, KnowsRequest, KnowsDownload, Client!isBusy
  <2> QED
    BY <1>1, <1>2, <1>5, <2>1 DEF OnDownloaded
<1>6. CASE OnRunAnalysis \/ ResumeRemoteRun
  <2>1. /\ run'.told = "nothing" /\ run'.task \in {"setup", "monitor"}
        /\ UNCHANGED <<request, events>> /\ form = "idle" /\ events = <<>>
    BY <1>6 DEF OnRunAnalysis, ResumeRemoteRun, NoRun, NewRun
  <2>2. ~Client!isBusy /\ ~Client!isBusy' /\ ~DownloadPending'
    BY <2>1 DEF OInv, IdleIsQuiet, Quiet, Client!isBusy, DownloadPending
  <2> QED
    BY <2>1, <2>2 DEF Knows, KnowsAt, KnowsRequest, KnowsDownload
<1>7. CASE OnCancel
  <2>1. /\ run'.task = run.task /\ run'.told = run.told /\ run'.kill
        /\ request'.for = request.for /\ (Client!isBusy' <=> Client!isBusy)
    BY <1>0, <1>7, AbortRequest DEF OnCancel, OInv, TypeOK, Run
  <2>2. DownloadPending' => DownloadPending
    BY <1>0, <1>7, AppendedEvent DEF OnCancel, Event, DownloadPending
  <2> QED
    BY <2>1, <2>2 DEF Knows, KnowsAt, KnowsRequest, KnowsDownload
<1>8. CASE Disconnect
  BY <1>8, KnowsReset DEF Disconnect, DownloadPending
<1> QED
  BY <1>3, <1>4, <1>5, <1>6, <1>7, <1>8 DEF Slots, User

(* The server and the network answer the transaction that there is. *)
LEMMA KnowsOutside ==
  ASSUME OInv, Knows, Network \/ Environment \/ ServerStep
  PROVE  Knows'
<1>1. UNCHANGED <<run, events>>
  BY DEF Network, Environment, ServerStep, ServeRequest, ConnectionRefused,
     WriteNowFaults, NetworkFault, ServerCrash, ServerProgress
<1>2. Client!isBusy' => Client!isBusy /\ request'.for = request.for
  <2>1. CASE UNCHANGED request
    BY <2>1 DEF Client!isBusy
  <2>2. CASE Client!Lost
    BY <2>2, LostRequest DEF OInv, TypeOK
  <2>3. ASSUME NEW answer, Client!Answered(answer)
        PROVE  Client!isBusy /\ request'.for = request.for
    <3>1. Client!isBusy
      BY <2>3 DEF Client!Answered, Client!isBusy
    <3>2. request \in Client!Request
      BY <3>1, BusyRequest DEF OInv, TypeOK
    <3> QED
      BY <2>3, <3>1, <3>2 DEF Client!Answered, Client!Request
  <2>4. CASE ServeRequest
    <3>1. request.for \in Client!Purpose
      BY <2>4, BusyRequest DEF ServeRequest, OInv, TypeOK, Client!isBusy, Client!Request
    <3> QED
      BY <2>3, <2>4, <3>1 DEF ServeRequest, Client!Purpose
  <2> QED
    BY <2>1, <2>2, <2>4 DEF Network, Environment, ServerStep, ConnectionRefused,
       WriteNowFaults, NetworkFault, ServerCrash, ServerProgress
<1> QED
  BY <1>1, <1>2 DEF Knows, KnowsAt, KnowsRequest, KnowsDownload, DownloadPending

LEMMA KnowsNext ==
  ASSUME ~option.writeNow, OInv, Knows, [Next]_vars
  PROVE  Knows'
<1>1. CASE Chain
  BY <1>1, KnowsTask, KnowsAsk, KnowsAnswer, KnowsEnd DEF Chain
<1>2. CASE Buttons
  <2>1. WriteNowAnswered
    BY <1>2 DEF Buttons, OnWnow
  <2>2. Client!isBusy /\ request.for = "wnow"
    BY <2>1, FinishRequest DEF WriteNowAnswered
  <2> QED
    BY <2>2 DEF Knows, KnowsRequest
<1>3. CASE Slots \/ User
  BY <1>3, KnowsForm
<1>4. CASE Network \/ Environment \/ ServerStep
  BY <1>4, KnowsOutside
<1>5. CASE UNCHANGED vars
  BY <1>5 DEF vars, Knows, KnowsAt, KnowsRequest, KnowsDownload, DownloadPending,
     Client!isBusy
<1> QED
  BY <1>1, <1>2, <1>3, <1>4, <1>5 DEF Next

(* Only three actions stop the server or remove the workspace. *)
LEMMA Stoppers ==
  ASSUME OInv, Next, (stopping' /\ ~stopping) \/ (dir /\ ~dir')
  PROVE  \/ PerformUndo \/ CleanupRemote
         \/ ServeRequest /\ request.for = "exit"
<1>0. ~UNCHANGED <<stopping, dir>> /\ stopping \in BOOLEAN /\ dir \in BOOLEAN
  BY DEF OInv, TypeOK
<1>1. CASE Chain
  BY <1>0, <1>1 DEF Chain, Cancelled, CancelledTask, RemoteCommandFails, ClientBusy,
     Disconnected, SetupRemoteEnvironment, InitialiseWorkspace, UploadInputFile,
     LaunchRemoteExecutionServer, WaitForContact, Contacted, NotContacted, GiveUp,
     Monitor, MonitorAnswered, FetchResults, ResultsAnswered, StopRemoteExecutionServer,
     ExitAnswered, Download, DownloadFails, EmitFailed, Ask, Server!Start, serverVars
<1>2. CASE Slots \/ Buttons \/ User
  BY <1>0, <1>2 DEF Slots, Deleted, OnResultReady, OnAnalysisEnded, OnDownloaded, Slot,
     Buttons, WriteNowAnswered, OnWnow, User, OnRunAnalysis, InitialiseWorkspace,
     ResumeRemoteRun, OnCancel, Disconnect
<1>3. CASE ServeRequest
  <2>1. request.for \in Client!Purpose
    BY <1>3, BusyRequest DEF ServeRequest, OInv, TypeOK, Client!isBusy, Client!Request
  <2> QED
    BY <1>0, <1>3, <2>1 DEF ServeRequest, Client!Purpose, serverVars
<1>4. CASE ConnectionRefused \/ Environment \/ ServerStep
  BY <1>0, <1>4 DEF ConnectionRefused, Environment, WriteNowFaults, NetworkFault,
     ServerCrash, ServerStep, ServerProgress, Server!Fail, Server!Accept,
     Server!Announce, Server!End
<1> QED
  BY <1>1, <1>2, <1>3, <1>4 DEF Next, Network

(* What may happen was chosen at the start. *)
LEMMA OptionStays ==
  ASSUME OInv, [Next]_vars
  PROVE  option' = option
<1>1. CASE Chain
  BY <1>1 DEF Chain, Cancelled, CancelledTask, RemoteCommandFails, ClientBusy,
     Disconnected, SetupRemoteEnvironment, UploadInputFile,
     LaunchRemoteExecutionServer, WaitForContact, Contacted, NotContacted, GiveUp,
     Monitor, MonitorAnswered, FetchResults, ResultsAnswered, StopRemoteExecutionServer,
     ExitAnswered, Download, DownloadFails, CleanupRemote, PerformUndo, EmitFailed, Ask
<1>2. CASE Slots \/ Buttons \/ User
  BY <1>2 DEF Slots, Deleted, OnResultReady, OnAnalysisEnded, OnDownloaded, Slot,
     Buttons, WriteNowAnswered, OnWnow, User, OnRunAnalysis, ResumeRemoteRun,
     OnCancel, Disconnect
<1>3. CASE Network \/ Environment \/ ServerStep
  BY <1>3 DEF Network, ServeRequest, ConnectionRefused, Environment, WriteNowFaults,
     NetworkFault, ServerCrash, ServerStep, ServerProgress
<1> QED
  BY <1>1, <1>2, <1>3 DEF Next, vars

(* A server last known to be at work is neither stopped nor is its         *)
(* workspace removed unless the user killed the run, whatever requests are *)
(* lost and whatever fails (remoterun.cpp 361-400, 516), in every          *)
(* behaviour that leaves the write-now button alone: its request takes the *)
(* chain's turn.                                                           *)
THEOREM StopsWithReason == Spec => StopNeedsReason
<1> DEFINE Reason == (stopping' /\ ~stopping) \/ (dir /\ ~dir')
                       => run.kill \/ run.told # "working" \/ option.writeNow
           KnowsAlone == option.writeNow \/ Knows
<1>1. OInv /\ KnowsAlone /\ [Next]_vars => [Reason]_vars
  <2> SUFFICES ASSUME OInv, Knows, Next, (stopping' /\ ~stopping) \/ (dir /\ ~dir')
               PROVE  run.kill \/ run.told # "working"
    BY DEF vars
  <2>1. CASE PerformUndo \/ CleanupRemote
    BY <2>1 DEF PerformUndo, CleanupRemote, Knows, KnowsAt
  <2>2. CASE ServeRequest /\ request.for = "exit"
    BY <2>2 DEF ServeRequest, Client!isBusy, Knows, KnowsRequest
  <2> QED
    BY <2>1, <2>2, Stoppers
<1>2. OInv /\ KnowsAlone /\ [Next]_vars => KnowsAlone'
  BY KnowsNext, OptionStays
<1>3. Init => KnowsAlone
  BY KnowsInit
<1> HIDE DEF KnowsAlone
<1> QED
  BY <1>1, <1>2, <1>3, Invariance, PTL DEF Spec, StopNeedsReason
=============================================================================
