--------------------------- MODULE AnalyzeClient ---------------------------
(***************************************************************************)
(* The workbench's HTTP client (toolkit_remote/analyzeclient.cpp): at most *)
(* one transaction at a time, started from the thread of the io service or *)
(* from the GUI thread, completed in the thread of the io service.         *)
(*                                                                         *)
(* The timeout callback of a transaction does not appear: the overrides of *)
(* start() do not call AnalyzeClientAction::start(), which arms it.  What  *)
(* is left is the timeout of Wt's client, which completes the transaction  *)
(* as a failed one, like a refused connection or abort().                  *)
(***************************************************************************)

VARIABLE request  \* currentAction_, with what has arrived on the connection

(* Which callback the transaction carries: the four of RemoteRun, "wnow"   *)
(* for the ones the buttons pass.                                          *)
Purpose == {"contact", "monitor", "results", "exit", "wnow"}

(* "failure" is whatever is not a response with status 200. *)
Answer == {"working", "results", "error", "ok", "failure"}

Request == [for : Purpose, phase : {"sent", "answered"}, answer : Answer]
Idle == [for |-> "none", phase |-> "finished", answer |-> "failure"]

Init == request = Idle

isBusy == request.phase # "finished"

(* launchAction(): the caller sees an exception if isBusy. *)
Launch(purpose) ==
  /\ ~isBusy
  /\ request' = [for |-> purpose, phase |-> "sent", answer |-> "failure"]

(* The server's answer is on its way. *)
Answered(answer) ==
  /\ request.phase = "sent"
  /\ request' = [request EXCEPT !.phase = "answered", !.answer = answer]

(* No answer will come, or it is lost on the way. *)
Lost ==
  /\ isBusy
  /\ request' = [request EXCEPT !.phase = "answered", !.answer = "failure"]

(* httpClient().abort(): what has not been sent stays unsent, and an       *)
(* answer on its way may still be the faster one.                          *)
Abort ==
  \/ request.phase # "sent" /\ UNCHANGED request
  \/ Lost

(* handleHttpResponse(): setFinished(), and the callback is run. *)
Finish(purpose, answer) ==
  /\ request.phase = "answered"
  /\ request.for = purpose
  /\ request.answer = answer
  /\ request' = Idle

TypeOK == request \in Request \union {Idle}
=============================================================================
