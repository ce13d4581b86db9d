---------------------------- MODULE AnalysisJob ----------------------------
(***************************************************************************)
(* What the "analyze" server is to a client that polls it: one analysis    *)
(* job whose outcome, once announced, is neither changed nor withdrawn for *)
(* as long as the server answers.  The server may end before it announces  *)
(* anything; it never goes from one outcome to the other one.              *)
(*                                                                         *)
(* AnalyzeServer implements this specification (AnalyzeServerProofs); the  *)
(* workbench's side of a remote run is modelled against it (RemoteRun).    *)
(***************************************************************************)

VARIABLES
  job,      \* the server process and what it announces
  stopping  \* it was asked to stop

jobVars == <<job, stopping>>

(* "started": the process exists, requests are not (yet) accepted. *)
Answering == {"working", "results", "error"}
Alive     == {"started"} \union Answering
JobState  == {"absent", "gone"} \union Alive

Init == job = "absent" /\ stopping = FALSE

Start == job = "absent" /\ job' = "started" /\ UNCHANGED stopping

(* The port is open. *)
Accept == job = "started" /\ job' = "working" /\ UNCHANGED stopping

(* The outcome is announced: a result set or an error. *)
Announce == job = "working" /\ job' \in {"results", "error"} /\ UNCHANGED stopping

(* POST exit, or SIGTERM. *)
RequestStop == job \in Alive /\ stopping' = TRUE /\ UNCHANGED job

(* The server does what it was asked to. *)
End == stopping /\ job \in Alive /\ job' = "gone" /\ UNCHANGED stopping

(* It ends without having been asked: a fault, or an analysis that ends    *)
(* with neither a result set nor an insight::Exception.                    *)
Fail == job \in Alive /\ job' = "gone" /\ UNCHANGED stopping

Next == Start \/ Accept \/ Announce \/ RequestStop \/ End \/ Fail

Spec == Init /\ [][Next]_jobVars

(* A server that was asked to stop does so. *)
FairSpec == Spec /\ WF_jobVars(End)
=============================================================================
