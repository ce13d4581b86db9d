------------------------- MODULE StateRelayProofs -------------------------
(***************************************************************************)
(* What holds of StateRelay for every number of threads, requests and      *)
(* calls: with other clients and lost answers the order of what is shown,  *)
(* without them that all of it is; and what the locks do and do not give.  *)
(***************************************************************************)
EXTENDS StateRelay, FiniteSetTheorems, TLAPS

(* The locks are held where the code holds them, and only a call that has  *)
(* an entry of its own goes on to push it.                                 *)
LockInv ==
  \A p \in Producers :
    /\ mx = p <=> pc[p] \in {"pushLine", "push"}
    /\ mutex = p <=> pc[p] \in {"line", "pushLine", "printed"}
    /\ pc[p] \in {"lock", "push"} => call[p] # "print"

(* What is in a queue, in an answer or on display is in the order it was   *)
(* pushed in; what is still in the queue is newer than what was popped,    *)
(* and the answer that is waited for newer than what is on display.        *)
Increasing(s) == \A i, j \in 1 .. Len(s) : i < j => s[i] < s[j]
Older(s, t) == \A i \in 1 .. Len(s), j \in 1 .. Len(t) : s[i] < t[j]
UpTo(s, n) == \A i \in 1 .. Len(s) : s[i] <= n

OrderInv ==
  \A k \in Kinds :
    /\ Increasing(queue[k]) /\ UpTo(queue[k], produced[k])
    /\ Increasing(replayed[k]) /\ UpTo(replayed[k], produced[k])
    /\ Older(replayed[k], queue[k])
    /\ \A h \in Handlers :
         /\ Increasing(job[h].taken[k]) /\ UpTo(job[h].taken[k], produced[k])
         /\ Older(job[h].taken[k], queue[k])
         /\ awaits = h => Older(replayed[k], job[h].taken[k])

-----------------------------------------------------------------------------
(* What the operations on sequences do to the order. *)

LEMMA AppendOrder ==
  ASSUME NEW s \in Seq(Nat), NEW x \in Nat, Increasing(s),
         \A i \in 1 .. Len(s) : s[i] < x
  PROVE  Increasing(Append(s, x)) /\ UpTo(Append(s, x), x)
<1>1. /\ Len(Append(s, x)) = Len(s) + 1
      /\ \A j \in 1 .. Len(Append(s, x)) :
           IF j \in 1 .. Len(s) THEN Append(s, x)[j] = s[j] ELSE Append(s, x)[j] = x
  OBVIOUS
<1> QED BY <1>1 DEF Increasing, UpTo

LEMMA AppendOlder ==
  ASSUME NEW s \in Seq(Nat), NEW t \in Seq(Nat), NEW x \in Nat,
         Older(s, t), \A i \in 1 .. Len(s) : s[i] < x
  PROVE  Older(s, Append(t, x))
<1>1. \A j \in 1 .. Len(Append(t, x)) :
        IF j \in 1 .. Len(t) THEN Append(t, x)[j] = t[j] ELSE Append(t, x)[j] = x
  OBVIOUS
<1> QED BY <1>1 DEF Older

LEMMA TailOrder ==
  ASSUME NEW s \in Seq(Nat), s # <<>>, Increasing(s)
  PROVE  /\ Increasing(Tail(s)) /\ Tail(s) \in Seq(Nat)
         /\ \A n \in Nat : UpTo(s, n) => UpTo(Tail(s), n)
         /\ \A t \in Seq(Nat) : Older(t, s) => Older(t, Tail(s))
         /\ \A i \in 1 .. Len(Tail(s)) : Head(s) < Tail(s)[i]
BY DEF Increasing, UpTo, Older

(* The front of a queue is appended to what was taken from it. *)
LEMMA MoveOrder ==
  ASSUME NEW s \in Seq(Nat), NEW t \in Seq(Nat), NEW n \in Nat,
         s # <<>>, Increasing(s), Increasing(t), Older(t, s),
         UpTo(t, n), UpTo(s, n)
  PROVE  /\ Increasing(Append(t, Head(s))) /\ UpTo(Append(t, Head(s)), n)
         /\ Older(Append(t, Head(s)), Tail(s))
         /\ Append(t, Head(s)) \in Seq(Nat)
         /\ \A r \in Seq(Nat) :
              Older(r, t) /\ Older(r, s) => Older(r, Append(t, Head(s)))
<1>1. Head(s) \in Nat /\ Head(s) = s[1] /\ 1 \in 1 .. Len(s)
  OBVIOUS
<1>2. \A i \in 1 .. Len(t) : t[i] < Head(s)
  BY <1>1 DEF Older
<1>3. Head(s) <= n
  BY <1>1 DEF UpTo
<1>4. \A i \in 1 .. Len(Tail(s)) : Head(s) < Tail(s)[i] /\ i + 1 \in 1 .. Len(s) /\ Tail(s)[i] = s[i + 1]
  BY <1>1 DEF Increasing
<1>5. Older(Append(t, Head(s)), Tail(s))
  BY <1>1, <1>4 DEF Older
<1>6. Increasing(Append(t, Head(s))) /\ UpTo(Append(t, Head(s)), n)
  <2>1. Increasing(Append(t, Head(s))) /\ UpTo(Append(t, Head(s)), Head(s))
    BY <1>1, <1>2, AppendOrder
  <2> QED BY <1>1, <1>3, <2>1 DEF UpTo
<1>7. ASSUME NEW r \in Seq(Nat), Older(r, t), Older(r, s)
      PROVE  Older(r, Append(t, Head(s)))
  BY <1>1, <1>7 DEF Older
<1> QED BY <1>1, <1>5, <1>6, <1>7

LEMMA JoinOrder ==
  ASSUME NEW s \in Seq(Nat), NEW t \in Seq(Nat), NEW u \in Seq(Nat),
         NEW n \in Nat, Increasing(s), Increasing(t), Older(s, t),
         Older(s, u), Older(t, u), UpTo(s, n), UpTo(t, n)
  PROVE  /\ Increasing(s \o t) /\ Older(s \o t, u) /\ UpTo(s \o t, n)
         /\ s \o t \in Seq(Nat)
<1>1. /\ Len(s \o t) = Len(s) + Len(t)
      /\ \A i \in 1 .. Len(s \o t) :
           \/ i \in 1 .. Len(s) /\ (s \o t)[i] = s[i]
           \/ i - Len(s) \in 1 .. Len(t) /\ (s \o t)[i] = t[i - Len(s)]
  OBVIOUS
<1>2. Older(s \o t, u) /\ UpTo(s \o t, n)
  BY <1>1 DEF Older, UpTo
<1>3. Increasing(s \o t)
  <2> SUFFICES ASSUME NEW i \in 1 .. Len(s \o t), NEW j \in 1 .. Len(s \o t), i < j
               PROVE  (s \o t)[i] < (s \o t)[j]
    BY DEF Increasing
  <2>1. CASE i \in 1 .. Len(s) /\ j \in 1 .. Len(s)
    BY <2>1 DEF Increasing
  <2>2. CASE i \in 1 .. Len(s) /\ j \notin 1 .. Len(s)
    BY <1>1, <2>2 DEF Older
  <2>3. CASE i \notin 1 .. Len(s)
    <3>1. /\ i - Len(s) \in 1 .. Len(t) /\ (s \o t)[i] = t[i - Len(s)]
          /\ j - Len(s) \in 1 .. Len(t) /\ (s \o t)[j] = t[j - Len(s)]
      BY <1>1, <2>3
    <3>2. i - Len(s) < j - Len(s)
      BY <2>3
    <3> QED BY <3>1, <3>2 DEF Increasing
  <2> QED BY <2>1, <2>2, <2>3
<1> QED BY <1>2, <1>3

-----------------------------------------------------------------------------
(* The types. *)

LEMMA NothingType == Nothing \in [Kinds -> Seq(Nat)] /\ Idle \in Job
BY DEF Nothing, Idle, Job, Kinds

LEMMA AtType ==
  ASSUME TypeOK, LockInv, NEW p \in Producers,
         pc[p] \in {"line", "pushLine", "lock", "push"}
  PROVE  At(p) \in Kinds
<1>1. CASE pc[p] \in {"line", "pushLine"}
  BY <1>1 DEF At, Kinds
<1>2. CASE pc[p] \in {"lock", "push"}
  <2>1. call[p] \in {"update", "progress", "finish", "log"}
    BY <1>2 DEF TypeOK, LockInv, Calls
  <2> QED BY <1>2, <2>1 DEF At, Target, Kinds
<1> QED BY <1>1, <1>2

Inv == TypeOK /\ LockInv

LEMMA InvInit == Init => Inv
<1> SUFFICES ASSUME Init PROVE Inv
  OBVIOUS
<1>1. TypeOK
  BY NothingType, RelayAssumption DEF Init, TypeOK, Calls, Idle, Kinds
<1>2. LockInv
  BY RelayAssumption DEF Init, LockInv
<1> QED BY <1>1, <1>2 DEF Inv

(* A step of a producer. *)
LEMMA ProducerInv ==
  ASSUME Inv, NEW p \in Producers, Report(p) \/ Proceed(p)
  PROVE  Inv'
<1> USE DEF Inv
<1>0. /\ UNCHANGED <<outcome, memory, job, clientVars>>
      /\ p # Nobody
  BY RelayAssumption DEF Report, Proceed
<1>1. ASSUME NEW c \in Made, Call(p, c) PROVE Inv'
  <2>1. c \in Calls
    BY RelayAssumption
  <2>2. TypeOK'
    <3>1. /\ pc' = [pc EXCEPT ![p] = pc'[p]] /\ pc'[p] \in {"print", "lock"}
          /\ calls' \in 0 .. MaxCalls
      BY <1>1, RelayAssumption DEF Call, TypeOK
    <3> QED BY <1>0, <1>1, <2>1, <3>1 DEF TypeOK, Call, clientVars
  <2>3. LockInv'
    <3>1. /\ pc' = [pc EXCEPT ![p] = IF c = "log" \/ c = "finish" THEN "lock" ELSE "print"]
          /\ call' = [call EXCEPT ![p] = c] /\ UNCHANGED <<mutex, mx>>
          /\ pc[p] = "idle"
      BY <1>1, <2>1 DEF Call, Printing, Calls
    <3> QED BY <3>1 DEF TypeOK, LockInv
  <2> QED BY <2>2, <2>3
<1>2. CASE RedirectLine(p)
  <2>1. TypeOK'
    BY <1>0, <1>2 DEF TypeOK, RedirectLine, clientVars
  <2>2. LockInv'
    BY <1>0, <1>2, RelayAssumption DEF TypeOK, LockInv, RedirectLine
  <2> QED BY <2>1, <2>2
<1>3. CASE LockQueues(p)
  <2>1. TypeOK'
    BY <1>0, <1>3 DEF TypeOK, LockQueues, clientVars
  <2>2. LockInv'
    BY <1>0, <1>3, RelayAssumption DEF TypeOK, LockInv, LockQueues
  <2> QED BY <2>1, <2>2
<1>4. CASE Push(p)
  <2>1. At(p) \in Kinds
    BY <1>4, AtType DEF Push
  <2>2. queue' \in [Kinds -> Seq(Nat)] /\ produced' \in [Kinds -> Nat]
    BY <1>4, <2>1 DEF TypeOK, Push
  <2>3. TypeOK'
    BY <1>0, <1>4, <2>2 DEF TypeOK, Push, clientVars
  <2>4. LockInv'
    BY <1>0, <1>4, RelayAssumption DEF TypeOK, LockInv, Push
  <2> QED BY <2>3, <2>4
<1>5. CASE LineDone(p)
  <2>1. TypeOK'
    BY <1>0, <1>5 DEF TypeOK, LineDone, clientVars
  <2>2. LockInv'
    BY <1>0, <1>5, RelayAssumption DEF TypeOK, LockInv, LineDone
  <2> QED BY <2>1, <2>2
<1> QED BY <1>1, <1>2, <1>3, <1>4, <1>5 DEF Report, Proceed

(* A step of a handler. *)
LEMMA TakesType ==
  ASSUME TypeOK, NEW h \in Handlers
  PROVE  Takes(h) \in {"no", "take", "discard"}
BY DEF Takes

LEMMA TakeFrontJob ==
  ASSUME TypeOK, NEW h \in Handlers, TakeFront(h)
  PROVE  LET k == job[h].phase IN
         /\ k \in Kinds /\ queue[k] \in Seq(Nat) /\ queue[k] # <<>>
         /\ queue' = [queue EXCEPT ![k] = Tail(queue[k])]
         /\ job' = [job EXCEPT ![h] = [job[h] EXCEPT
              !.inside = "no",
              !.taken = [job[h].taken EXCEPT ![k] =
                IF job[h].inside = "take"
                THEN Append(job[h].taken[k], Head(queue[k]))
                ELSE job[h].taken[k]]]]
<1>1. job[h].phase \in Kinds /\ job[h] \in Job
  BY DEF TypeOK, TakeFront
<1> QED BY <1>1 DEF TypeOK, TakeFront, Job

LEMMA HandlerInv ==
  ASSUME Inv, NEW h \in Handlers, Handle(h)
  PROVE  Inv'
<1> USE DEF Inv
<1>0. /\ UNCHANGED <<producerVars, produced, outcome, memory, clientVars>>
      /\ job[h] \in Job /\ h # Nobody
      /\ job[h].inside # "no" => job[h].phase \in Kinds
  BY RelayAssumption DEF Handle, TypeOK
<1>1. LockInv'
  BY <1>0 DEF LockInv, producerVars
<1>2. ASSUME NEW j \in Job, job' = [job EXCEPT ![h] = j],
             queue' \in [Kinds -> Seq(Nat)],
             j.inside # "no" => j.phase \in Kinds,
             awaits = h => j.phase # "idle"
      PROVE  TypeOK'
  BY <1>0, <1>2 DEF TypeOK, producerVars, clientVars
<1>3. CASE CheckQueue(h)
  <2>1. CASE Takes(h) = "no"
    <3> DEFINE j == [job[h] EXCEPT !.phase = After[job[h].phase]]
    <3>0. After[job[h].phase] \in {"progressStates", "logLines", "flags"}
      BY <1>3 DEF CheckQueue, After, Kinds
    <3>1. j \in Job /\ j.inside = "no" /\ j.phase # "idle"
      BY <1>0, <1>3, <3>0 DEF Job, CheckQueue, Kinds
    <3>2. job' = [job EXCEPT ![h] = j] /\ queue' \in [Kinds -> Seq(Nat)]
      BY <1>3, <2>1 DEF CheckQueue, TypeOK, Job
    <3> QED BY <1>1, <1>2, <3>1, <3>2
  <2>2. CASE Takes(h) # "no"
    <3> DEFINE j == [job[h] EXCEPT !.inside = Takes(h)]
    <3>1. j \in Job /\ j.phase = job[h].phase /\ j.phase \in Kinds /\ j.phase # "idle"
      BY <1>0, <1>3, TakesType DEF Job, CheckQueue, Kinds
    <3>2. job' = [job EXCEPT ![h] = j] /\ queue' \in [Kinds -> Seq(Nat)]
      BY <1>3, <2>2 DEF CheckQueue, TypeOK, Job
    <3> QED BY <1>1, <1>2, <3>1, <3>2
  <2> QED BY <2>1, <2>2
<1>4. CASE TakeFront(h)
  <2> DEFINE k == job[h].phase
             tk == IF job[h].inside = "take"
                   THEN Append(job[h].taken[k], Head(queue[k]))
                   ELSE job[h].taken[k]
             j == [job[h] EXCEPT !.inside = "no",
                                 !.taken = [job[h].taken EXCEPT ![k] = tk]]
  <2>1. /\ k \in Kinds /\ queue[k] \in Seq(Nat) /\ queue[k] # <<>>
        /\ queue' = [queue EXCEPT ![k] = Tail(queue[k])]
        /\ job' = [job EXCEPT ![h] = j]
    BY <1>4, TakeFrontJob
  <2>2. tk \in Seq(Nat) /\ queue' \in [Kinds -> Seq(Nat)]
    BY <1>0, <2>1 DEF TypeOK, Job
  <2>3. j \in Job /\ j.inside = "no" /\ j.phase # "idle"
    BY <1>0, <2>1, <2>2 DEF Job, Kinds
  <2> HIDE DEF j, tk
  <2> QED BY <1>1, <1>2, <2>1, <2>2, <2>3
<1>5. CASE ReadFlags(h)
  <2> DEFINE j == [job[h] EXCEPT !.phase = "answered", !.outcome = outcome]
  <2>1. /\ j \in Job /\ j.phase = "answered"
        /\ j.inside = "no"
    BY <1>0, <1>5 DEF Job, ReadFlags, TypeOK, Kinds
  <2>2. job' = [job EXCEPT ![h] = j] /\ queue' \in [Kinds -> Seq(Nat)]
    BY <1>5 DEF ReadFlags, TypeOK, Job
  <2> QED BY <1>1, <1>2, <2>1, <2>2
<1>6. CASE DropAnswer(h)
  <2>1. /\ job' = [job EXCEPT ![h] = Idle] /\ queue' \in [Kinds -> Seq(Nat)]
        /\ awaits # h /\ Idle.inside = "no"
    BY <1>6 DEF DropAnswer, TypeOK, Idle
  <2> QED BY <1>1, <1>2, <2>1, NothingType
<1> QED BY <1>1, <1>3, <1>4, <1>5, <1>6 DEF Handle

(* A step of a client, of main(), or the outcome of a data race. *)
LEMMA BeginJob ==
  ASSUME TypeOK, NEW h \in Handlers, NEW selection \in {"Next", "All", "Latest"},
         Begin(h, selection)
  PROVE  \E j \in Job : /\ job' = [job EXCEPT ![h] = j]
                        /\ j.inside = "no" /\ j.phase = "states"
                        /\ j.taken = Nothing /\ j.outcome = "none"
<1> DEFINE j == [Idle EXCEPT !.phase = "states", !.selection = selection]
<1>1. /\ j \in Job /\ j.inside = "no" /\ j.phase = "states" /\ j.taken = Nothing
      /\ j.outcome = "none"
  BY NothingType DEF Job, Idle, Kinds
<1>2. job' = [job EXCEPT ![h] = j]
  BY DEF Begin
<1> QED BY <1>1, <1>2

LEMMA ClientInv ==
  ASSUME Inv, NEW h \in Handlers,
         ForeignQuery(h) \/ Query(h) \/ Replay(h) \/ LoseAnswer
  PROVE  Inv'
<1> USE DEF Inv
<1>0. UNCHANGED producerVars /\ h # Nobody
  BY RelayAssumption DEF ForeignQuery, Query, Replay, LoseAnswer
<1>1. LockInv'
  BY <1>0 DEF LockInv, producerVars
<1>2. CASE ForeignQuery(h)
  <2>1. PICK j \in Job : job' = [job EXCEPT ![h] = j] /\ j.inside = "no" /\ j.phase = "states"
    BY <1>2, BeginJob, RelayAssumption DEF ForeignQuery
  <2>2. TypeOK'
    BY <1>2, <2>1 DEF ForeignQuery, TypeOK, producerVars, clientVars
  <2> QED BY <1>1, <2>2
<1>3. CASE Query(h)
  <2>1. PICK j \in Job : job' = [job EXCEPT ![h] = j] /\ j.inside = "no" /\ j.phase = "states"
    BY <1>3, BeginJob DEF Query
  <2>2. TypeOK'
    BY <1>0, <1>3, <2>1 DEF Query, TypeOK, producerVars
  <2> QED BY <1>1, <2>2
<1>4. CASE Replay(h)
  <2>1. /\ replayed' \in [Kinds -> Seq(Nat)]
        /\ told' \in {"none", "results", "error"}
        /\ job' = [job EXCEPT ![h] = Idle] /\ Idle \in Job /\ Idle.inside = "no"
    BY <1>4, NothingType DEF Replay, TypeOK, Job, Idle
  <2>2. TypeOK'
    BY <1>0, <1>4, <2>1 DEF Replay, TypeOK, producerVars
  <2> QED BY <1>1, <2>2
<1>5. CASE LoseAnswer
  BY <1>1, <1>5 DEF LoseAnswer, TypeOK, producerVars
<1> QED BY <1>2, <1>3, <1>4, <1>5

LEMMA OtherInv == Inv /\ (SetOutcome \/ Race \/ LoseAnswer \/ UNCHANGED vars) => Inv'
<1> USE DEF Inv
<1>1. Inv /\ SetOutcome => Inv'
  BY DEF SetOutcome, TypeOK, LockInv, producerVars, clientVars
<1>2. Inv /\ Race => Inv'
  BY DEF Race, TypeOK, LockInv, producerVars, clientVars
<1>3. Inv /\ LoseAnswer => Inv'
  BY DEF LoseAnswer, TypeOK, LockInv, producerVars
<1>4. Inv /\ UNCHANGED vars => Inv'
  BY DEF vars, TypeOK, LockInv, producerVars, clientVars
<1> QED BY <1>1, <1>2, <1>3, <1>4

LEMMA InvNext == Inv /\ [Next]_vars => Inv'
<1> SUFFICES ASSUME Inv, [Next]_vars PROVE Inv'
  OBVIOUS
<1>1. ASSUME NEW p \in Producers, Report(p) \/ Proceed(p) PROVE Inv'
  BY <1>1, ProducerInv
<1>2. ASSUME NEW h \in Handlers, Handle(h) PROVE Inv'
  BY <1>2, HandlerInv
<1>3. ASSUME NEW h \in Handlers, ForeignQuery(h) \/ Query(h) \/ Replay(h) PROVE Inv'
  BY <1>3, ClientInv
<1>4. CASE SetOutcome \/ Race \/ LoseAnswer \/ UNCHANGED vars
  BY <1>4, OtherInv
<1> QED BY <1>1, <1>2, <1>3, <1>4 DEF Next

LEMMA Invariant == Spec => []Inv
BY InvInit, InvNext, PTL DEF Spec

(* The relay never leaves its states. *)
THEOREM TypeCorrect == Spec => []TypeOK
<1>1. Inv => TypeOK
  BY DEF Inv
<1> QED BY Invariant, <1>1, PTL

(* However many threads report at once, only one of them is inside a       *)
(* queue: the lock mx_ of restapi.cpp does what it is for among them.      *)
THEOREM Exclusive == Spec => []ProducersExclude
<1>1. Inv => ProducersExclude
  BY DEF Inv, LockInv, ProducersExclude
<1> QED BY Invariant, <1>1, PTL

-----------------------------------------------------------------------------
(* The order of what is shown. *)

LEMMA OrderInit == Init => OrderInv
<1> SUFFICES ASSUME Init PROVE OrderInv
  OBVIOUS
<1>1. \A k \in Kinds : queue[k] = <<>> /\ replayed[k] = <<>>
  BY DEF Init, Nothing
<1>2. \A k \in Kinds, h \in Handlers : job[h].taken[k] = <<>>
  BY DEF Init, Nothing, Idle
<1> QED BY <1>1, <1>2 DEF OrderInv, Increasing, UpTo, Older

LEMMA OrderProducer ==
  ASSUME Inv, OrderInv, NEW p \in Producers, Report(p) \/ Proceed(p)
  PROVE  OrderInv'
<1> USE DEF Inv
<1>1. UNCHANGED <<job, awaits, replayed>>
  BY DEF Report, Proceed, clientVars
<1>2. CASE UNCHANGED <<queue, produced>>
  BY <1>1, <1>2 DEF OrderInv
<1>3. CASE Push(p)
  <2> SUFFICES ASSUME NEW k \in Kinds
               PROVE  /\ Increasing(queue'[k]) /\ UpTo(queue'[k], produced'[k])
                      /\ UpTo(replayed[k], produced'[k])
                      /\ Older(replayed[k], queue'[k])
                      /\ \A h \in Handlers :
                           /\ UpTo(job[h].taken[k], produced'[k])
                           /\ Older(job[h].taken[k], queue'[k])
    BY <1>1 DEF OrderInv
  <2>0. /\ queue[k] \in Seq(Nat) /\ replayed[k] \in Seq(Nat) /\ produced[k] \in Nat
        /\ \A h \in Handlers : job[h].taken[k] \in Seq(Nat)
    BY DEF TypeOK, Job
  <2>1. CASE At(p) # k
    <3>1. queue'[k] = queue[k] /\ produced'[k] = produced[k]
      BY <1>3, <2>1 DEF Push, TypeOK
    <3> QED BY <3>1 DEF OrderInv
  <2>2. CASE At(p) = k
    <3> DEFINE n == produced[k] + 1
    <3>1. queue'[k] = Append(queue[k], n) /\ produced'[k] = n /\ n \in Nat
      BY <1>3, <2>0, <2>2 DEF Push, TypeOK
    <3>2. ASSUME NEW s \in Seq(Nat), UpTo(s, produced[k])
          PROVE  UpTo(s, n) /\ \A i \in 1 .. Len(s) : s[i] < n
      BY <2>0, <3>2 DEF UpTo
    <3> HIDE DEF n
    <3>3. Increasing(queue'[k]) /\ UpTo(queue'[k], n)
      BY <2>0, <3>1, <3>2, AppendOrder DEF OrderInv
    <3>4. ASSUME NEW s \in Seq(Nat), UpTo(s, produced[k]), Older(s, queue[k])
          PROVE  Older(s, queue'[k])
      BY <2>0, <3>1, <3>2, <3>4, AppendOlder
    <3> QED BY <2>0, <3>1, <3>2, <3>3, <3>4 DEF OrderInv
  <2> QED BY <2>1, <2>2
<1> QED BY <1>2, <1>3 DEF Report, Proceed, Call, RedirectLine, LockQueues, LineDone

(* Only what a handler has taken, and the queue, may change; if neither of *)
(* a kind does, the order of that kind is kept.                            *)
LEMMA OrderHandler ==
  ASSUME Inv, OrderInv, NEW h \in Handlers, Handle(h)
  PROVE  OrderInv'
<1> USE DEF Inv
<1>1. UNCHANGED <<produced, awaits, replayed>>
  BY DEF Handle, clientVars
<1>2. /\ queue \in [Kinds -> Seq(Nat)] /\ replayed \in [Kinds -> Seq(Nat)]
      /\ produced \in [Kinds -> Nat]
      /\ \A g \in Handlers : job[g] \in Job /\ job[g].taken \in [Kinds -> Seq(Nat)]
  BY DEF TypeOK, Job
<1>3. CASE CheckQueue(h) \/ ReadFlags(h)
  <2>1. queue' = queue /\ \A g \in Handlers : job'[g].taken = job[g].taken
    <3>1. job \in [Handlers -> Job] /\ queue' = queue
      BY <1>3 DEF TypeOK, CheckQueue, ReadFlags
    <3>2. \A g \in Handlers : g # h => job'[g] = job[g]
      BY <1>3, <3>1 DEF CheckQueue, ReadFlags
    <3>3. CASE job' = [job EXCEPT ![h].phase = After[job[h].phase]]
      BY <3>1, <3>3 DEF Job
    <3>4. CASE job' = [job EXCEPT ![h].inside = Takes(h)]
      BY <3>1, <3>4 DEF Job
    <3>5. CASE ReadFlags(h)
      <4>1. job'[h] = [job[h] EXCEPT !.phase = "answered", !.outcome = outcome]
        BY <3>1, <3>5 DEF ReadFlags
      <4>2. job[h] \in Job
        BY <1>2
      <4>3. job'[h].taken = job[h].taken
        BY <4>1, <4>2 DEF Job
      <4> QED BY <3>1, <3>2, <4>3
    <3> QED BY <1>3, <3>3, <3>4, <3>5 DEF CheckQueue
  <2> QED BY <1>1, <2>1 DEF OrderInv
<1>4. CASE DropAnswer(h)
  <2>1. /\ queue' = queue /\ awaits # h
        /\ \A g \in Handlers : g # h => job'[g] = job[g]
        /\ \A k \in Kinds : job'[h].taken[k] = <<>>
    <3>1. Idle.taken = Nothing /\ \A k \in Kinds : Nothing[k] = <<>>
      BY DEF Idle, Nothing
    <3> QED BY <1>4, <3>1 DEF DropAnswer, TypeOK
  <2>2. \A s, t : s = <<>> => Increasing(s) /\ Older(s, t) /\ \A n : UpTo(s, n)
    BY DEF Increasing, Older, UpTo
  <2>3. \A k \in Kinds, g \in Handlers :
          /\ Increasing(job'[g].taken[k]) /\ UpTo(job'[g].taken[k], produced[k])
          /\ Older(job'[g].taken[k], queue[k])
          /\ awaits = g => Older(replayed[k], job'[g].taken[k])
    BY <2>1, <2>2 DEF OrderInv
  <2> QED BY <1>1, <2>1, <2>3 DEF OrderInv
<1>5. CASE TakeFront(h)
  <2> DEFINE q == job[h].phase
             tk == IF job[h].inside = "take"
                   THEN Append(job[h].taken[q], Head(queue[q]))
                   ELSE job[h].taken[q]
  <2>1. /\ q \in Kinds /\ queue[q] \in Seq(Nat) /\ queue[q] # <<>>
        /\ queue' = [queue EXCEPT ![q] = Tail(queue[q])]
        /\ job' = [job EXCEPT ![h] = [job[h] EXCEPT !.inside = "no",
                     !.taken = [job[h].taken EXCEPT ![q] = tk]]]
    BY <1>5, TakeFrontJob
  <2>2. /\ \A k \in Kinds : k # q => queue'[k] = queue[k]
        /\ queue'[q] = Tail(queue[q])
        /\ \A g \in Handlers, k \in Kinds :
             (g # h \/ k # q) => job'[g].taken[k] = job[g].taken[k]
        /\ job'[h].taken[q] = tk
    BY <1>2, <2>1 DEF TypeOK, Job
  <2>3. /\ Increasing(queue'[q]) /\ UpTo(queue'[q], produced[q])
        /\ queue'[q] \in Seq(Nat)
        /\ \A s \in Seq(Nat) : Older(s, queue[q]) => Older(s, queue'[q])
    BY <1>2, <2>1, <2>2, TailOrder DEF OrderInv
  <2>4. /\ Increasing(tk) /\ UpTo(tk, produced[q]) /\ Older(tk, queue'[q])
        /\ awaits = h => Older(replayed[q], tk)
    <3>1. /\ job[h].taken[q] \in Seq(Nat) /\ replayed[q] \in Seq(Nat)
          /\ produced[q] \in Nat
      BY <1>2, <2>1
    <3>2. CASE job[h].inside = "take"
      <4>1. /\ Increasing(Append(job[h].taken[q], Head(queue[q])))
            /\ UpTo(Append(job[h].taken[q], Head(queue[q])), produced[q])
            /\ Older(Append(job[h].taken[q], Head(queue[q])), Tail(queue[q]))
            /\ \A r \in Seq(Nat) :
                 Older(r, job[h].taken[q]) /\ Older(r, queue[q])
                   => Older(r, Append(job[h].taken[q], Head(queue[q])))
        <5>1. /\ Increasing(queue[q]) /\ Increasing(job[h].taken[q])
              /\ Older(job[h].taken[q], queue[q])
              /\ UpTo(job[h].taken[q], produced[q]) /\ UpTo(queue[q], produced[q])
          BY <2>1 DEF OrderInv
        <5> QED BY <2>1, <3>1, <5>1, MoveOrder
      <4>2. awaits = h => Older(replayed[q], job[h].taken[q]) /\ Older(replayed[q], queue[q])
        BY <2>1 DEF OrderInv
      <4> QED BY <2>2, <3>1, <3>2, <4>1, <4>2
    <3>3. CASE job[h].inside # "take"
      BY <2>1, <2>3, <3>1, <3>3 DEF OrderInv
    <3> QED BY <3>2, <3>3
  <2> HIDE DEF tk
  <2>5. ASSUME NEW k \in Kinds
        PROVE  /\ Increasing(queue'[k]) /\ UpTo(queue'[k], produced[k])
               /\ Older(replayed[k], queue'[k])
               /\ \A g \in Handlers :
                    /\ Increasing(job'[g].taken[k]) /\ UpTo(job'[g].taken[k], produced[k])
                    /\ Older(job'[g].taken[k], queue'[k])
                    /\ awaits = g => Older(replayed[k], job'[g].taken[k])
    <3>1. CASE k # q
      BY <2>2, <3>1 DEF OrderInv
    <3>2. CASE k = q
      <4>1. Older(replayed[q], queue'[q])
        BY <1>2, <2>1, <2>3 DEF OrderInv
      <4>2. ASSUME NEW g \in Handlers, g # h
            PROVE  /\ Increasing(job'[g].taken[q]) /\ UpTo(job'[g].taken[q], produced[q])
                   /\ Older(job'[g].taken[q], queue'[q])
                   /\ awaits = g => Older(replayed[q], job'[g].taken[q])
        <5>1. job'[g].taken[q] = job[g].taken[q] /\ job[g].taken[q] \in Seq(Nat)
          BY <1>2, <2>1, <2>2, <4>2
        <5>2. /\ Increasing(job[g].taken[q]) /\ UpTo(job[g].taken[q], produced[q])
              /\ Older(job[g].taken[q], queue[q])
              /\ awaits = g => Older(replayed[q], job[g].taken[q])
          BY <2>1 DEF OrderInv
        <5>3. Older(job[g].taken[q], queue'[q])
          BY <2>3, <5>1, <5>2
        <5> QED BY <5>1, <5>2, <5>3
      <4>3. /\ Increasing(job'[h].taken[q]) /\ UpTo(job'[h].taken[q], produced[q])
            /\ Older(job'[h].taken[q], queue'[q])
            /\ awaits = h => Older(replayed[q], job'[h].taken[q])
        BY <2>2, <2>4
      <4>4. \A g \in Handlers :
              /\ Increasing(job'[g].taken[q]) /\ UpTo(job'[g].taken[q], produced[q])
              /\ Older(job'[g].taken[q], queue'[q])
              /\ awaits = g => Older(replayed[q], job'[g].taken[q])
        BY <4>2, <4>3
      <4> QED BY <2>3, <3>2, <4>1, <4>4
    <3> QED BY <3>1, <3>2
  <2> QED BY <1>1, <2>5 DEF OrderInv
<1> QED BY <1>3, <1>4, <1>5 DEF Handle

LEMMA OrderClient ==
  ASSUME Inv, OrderInv, NEW h \in Handlers,
         ForeignQuery(h) \/ Query(h) \/ Replay(h)
  PROVE  OrderInv'
<1> USE DEF Inv
<1>1. /\ UNCHANGED <<queue, produced>>
      /\ h # Nobody
  BY RelayAssumption DEF ForeignQuery, Query, Replay
<1>2. \A s, t : s = <<>> =>
        Increasing(s) /\ Older(s, t) /\ Older(t, s) /\ \A n : UpTo(s, n)
  BY DEF Increasing, Older, UpTo
<1>3. CASE ForeignQuery(h) \/ Query(h)
  <2>1. PICK j \in Job : job' = [job EXCEPT ![h] = j] /\ j.taken = Nothing
    BY <1>3, BeginJob, RelayAssumption DEF ForeignQuery, Query
  <2>2. /\ \A g \in Handlers : g # h => job'[g] = job[g]
        /\ \A k \in Kinds : job'[h].taken[k] = <<>>
    BY <2>1 DEF TypeOK, Nothing
  <2>3. replayed' = replayed /\ \A g \in Handlers : g # h /\ awaits' = g => awaits = g
    BY <1>3 DEF ForeignQuery, Query, clientVars
  <2>4. \A k \in Kinds, g \in Handlers :
          /\ Increasing(job'[g].taken[k]) /\ UpTo(job'[g].taken[k], produced[k])
          /\ Older(job'[g].taken[k], queue[k])
          /\ awaits' = g => Older(replayed[k], job'[g].taken[k])
    BY <1>2, <2>2, <2>3 DEF OrderInv
  <2> QED BY <1>1, <2>3, <2>4 DEF OrderInv
<1>4. CASE Replay(h)
  <2>1. /\ \A g \in Handlers : g # h => job'[g] = job[g]
        /\ \A k \in Kinds : job'[h].taken[k] = <<>>
        /\ \A k \in Kinds : replayed'[k] = replayed[k] \o job[h].taken[k]
        /\ awaits = h /\ awaits' = Nobody
    BY <1>4 DEF Replay, TypeOK, Idle, Nothing
  <2>2. \A k \in Kinds, g \in Handlers :
          /\ Increasing(job'[g].taken[k]) /\ UpTo(job'[g].taken[k], produced[k])
          /\ Older(job'[g].taken[k], queue[k])
    BY <1>2, <2>1 DEF OrderInv
  <2>3. ASSUME NEW k \in Kinds
        PROVE  /\ Increasing(replayed'[k]) /\ UpTo(replayed'[k], produced[k])
               /\ Older(replayed'[k], queue[k])
    <3>1. /\ queue[k] \in Seq(Nat) /\ replayed[k] \in Seq(Nat)
          /\ produced[k] \in Nat /\ job[h].taken[k] \in Seq(Nat)
      BY DEF TypeOK, Job
    <3>2. /\ Increasing(replayed[k]) /\ Increasing(job[h].taken[k])
          /\ Older(replayed[k], job[h].taken[k])
          /\ Older(replayed[k], queue[k]) /\ Older(job[h].taken[k], queue[k])
          /\ UpTo(replayed[k], produced[k]) /\ UpTo(job[h].taken[k], produced[k])
      BY <2>1 DEF OrderInv
    <3>3. /\ Increasing(replayed[k] \o job[h].taken[k])
          /\ UpTo(replayed[k] \o job[h].taken[k], produced[k])
          /\ Older(replayed[k] \o job[h].taken[k], queue[k])
      <4> HIDE DEF Inv
      <4> DEFINE s == replayed[k]  t == job[h].taken[k]  u == queue[k]
      <4>1. /\ s \in Seq(Nat) /\ t \in Seq(Nat) /\ u \in Seq(Nat)
            /\ produced[k] \in Nat
            /\ Increasing(s) /\ Increasing(t) /\ Older(s, t)
            /\ Older(s, u) /\ Older(t, u)
            /\ UpTo(s, produced[k]) /\ UpTo(t, produced[k])
        BY <3>1, <3>2
      <4> HIDE DEF s, t, u
      <4>2. Increasing(s \o t) /\ UpTo(s \o t, produced[k]) /\ Older(s \o t, u)
        BY <4>1, JoinOrder
      <4> QED BY <4>2 DEF s, t, u
    <3>4. replayed'[k] = replayed[k] \o job[h].taken[k]
      BY <2>1
    <3> QED BY <3>3, <3>4
  <2>4. \A g \in Handlers : awaits' # g
    BY <2>1, RelayAssumption
  <2> QED BY <1>1, <2>2, <2>3, <2>4 DEF OrderInv
<1> QED BY <1>3, <1>4

LEMMA OrderOther ==
  ASSUME Inv, OrderInv, SetOutcome \/ Race \/ LoseAnswer \/ UNCHANGED vars
  PROVE  OrderInv'
<1>1. UNCHANGED <<queue, produced, job, replayed>> /\ awaits' \in {awaits, Nobody}
  BY DEF SetOutcome, Race, LoseAnswer, vars, clientVars
<1>2. \A g \in Handlers : awaits' = g => awaits = g
  BY <1>1, RelayAssumption
<1> QED BY <1>1, <1>2 DEF OrderInv

LEMMA OrderNext == Inv /\ OrderInv /\ [Next]_vars => OrderInv'
<1> SUFFICES ASSUME Inv, OrderInv, [Next]_vars PROVE OrderInv'
  OBVIOUS
<1>1. ASSUME NEW p \in Producers, Report(p) \/ Proceed(p) PROVE OrderInv'
  BY <1>1, OrderProducer
<1>2. ASSUME NEW h \in Handlers, Handle(h) PROVE OrderInv'
  BY <1>2, OrderHandler
<1>3. ASSUME NEW h \in Handlers, ForeignQuery(h) \/ Query(h) \/ Replay(h)
      PROVE  OrderInv'
  BY <1>3, OrderClient
<1>4. CASE SetOutcome \/ Race \/ LoseAnswer \/ UNCHANGED vars
  BY <1>4, OrderOther
<1> QED BY <1>1, <1>2, <1>3, <1>4 DEF Next

(* The workbench shows states, progress and log lines in the order they    *)
(* were pushed in, and none twice, however many answers are lost and       *)
(* whoever else takes entries from the queues.                             *)
THEOREM InOrder == Spec => []ReplayedInOrder
<1>1. OrderInv => ReplayedInOrder
  BY DEF OrderInv, Increasing, ReplayedInOrder
<1> QED BY Invariant, OrderInit, OrderNext, <1>1, PTL DEF Spec
-----------------------------------------------------------------------------
(* What the workbench gets if it is the only client and no answer is lost. *)

Answer(k) == IF awaits = Nobody THEN <<>> ELSE job[awaits].taken[k]

(* A handler works only while its answer is awaited, and for "/all". *)
AloneInv ==
  \A h \in Handlers :
    /\ job[h].selection = "All" /\ job[h].inside # "discard"
    /\ h # awaits => job[h] = Idle

(* Display, answer and queue hold consecutive numbers, up to the last. *)
Follows(s, n) == \A i \in 1 .. Len(s) : s[i] = n + i

Consecutive(r, a, q, n) ==
  /\ Follows(r, 0)
  /\ Follows(a, Len(r))
  /\ Follows(q, Len(r) + Len(a))
  /\ n = Len(r) + Len(a) + Len(q)

CountInv ==
  \A k \in Kinds : Consecutive(replayed[k], Answer(k), queue[k], produced[k])

(* A handler leaves a queue only when it is empty, so that it then has     *)
(* everything that had been pushed before the query.                       *)
Left(k, phase) ==
  \/ phase \in {"flags", "answered"}
  \/ phase = "logLines" /\ k # "logLines"
  \/ phase = "progressStates" /\ k = "states"

CatchUpInv ==
  \A k \in Kinds :
    /\ asked[k] <= produced[k]
    /\ IF awaits = Nobody
       THEN asked[k] <= Len(replayed[k])
       ELSE Left(k, job[awaits].phase) => asked[k] <= Len(replayed[k]) + Len(Answer(k))

ShownInv == Inv /\ AloneInv /\ CountInv /\ CatchUpInv

LEMMA AppendFollows ==
  ASSUME NEW s \in Seq(Nat), NEW m \in Nat, NEW x \in Nat,
         Follows(s, m), x = m + Len(s) + 1
  PROVE  Follows(Append(s, x), m) /\ Len(Append(s, x)) = Len(s) + 1
<1>1. Len(Append(s, x)) = Len(s) + 1 /\ Len(s) \in Nat
  OBVIOUS
<1>2. \A i \in 1 .. Len(Append(s, x)) :
        IF i \in 1 .. Len(s) THEN Append(s, x)[i] = s[i] ELSE Append(s, x)[i] = x
  OBVIOUS
<1>3. ASSUME NEW i \in 1 .. Len(Append(s, x)) PROVE Append(s, x)[i] = m + i
  <2>1. CASE i \in 1 .. Len(s)
    BY <1>2, <2>1 DEF Follows
  <2>2. CASE i \notin 1 .. Len(s)
    BY <1>1, <1>2, <2>2
  <2> QED BY <2>1, <2>2
<1> QED BY <1>1, <1>3 DEF Follows

LEMMA PushedFollows ==
  ASSUME NEW r \in Seq(Nat), NEW a \in Seq(Nat), NEW q \in Seq(Nat),
         NEW n \in Nat, Consecutive(r, a, q, n)
  PROVE  Consecutive(r, a, Append(q, n + 1), n + 1)
<1>1. /\ Len(r) + Len(a) \in Nat /\ n + 1 \in Nat
      /\ Follows(q, Len(r) + Len(a)) /\ n = Len(r) + Len(a) + Len(q)
  BY DEF Consecutive
<1>2. /\ Follows(Append(q, n + 1), Len(r) + Len(a))
      /\ Len(Append(q, n + 1)) = Len(q) + 1
  BY <1>1, AppendFollows
<1> QED BY <1>1, <1>2 DEF Consecutive

LEMMA TakenFollows ==
  ASSUME NEW r \in Seq(Nat), NEW a \in Seq(Nat), NEW q \in Seq(Nat),
         NEW n \in Nat, q # <<>>, Consecutive(r, a, q, n)
  PROVE  /\ Consecutive(r, Append(a, Head(q)), Tail(q), n)
         /\ Len(Append(a, Head(q))) = Len(a) + 1
<1>1. /\ Len(r) \in Nat /\ Len(a) \in Nat /\ Len(q) \in Nat \ {0}
      /\ Head(q) = q[1] /\ Head(q) \in Nat
  OBVIOUS
<1>2. /\ Follows(a, Len(r)) /\ Follows(q, Len(r) + Len(a))
      /\ n = Len(r) + Len(a) + Len(q)
  BY DEF Consecutive
<1>3. Head(q) = Len(r) + Len(a) + 1
  BY <1>1, <1>2 DEF Follows
<1>4. Follows(Append(a, Head(q)), Len(r)) /\ Len(Append(a, Head(q))) = Len(a) + 1
  BY <1>1, <1>2, <1>3, AppendFollows
<1>5. /\ Len(Tail(q)) = Len(q) - 1
      /\ \A i \in 1 .. Len(Tail(q)) : i + 1 \in 1 .. Len(q) /\ Tail(q)[i] = q[i + 1]
  BY <1>1
<1>6. Follows(Tail(q), Len(r) + Len(a) + 1)
  BY <1>1, <1>2, <1>5 DEF Follows
<1> QED BY <1>1, <1>2, <1>4, <1>5, <1>6 DEF Consecutive

LEMMA ShownFollows ==
  ASSUME NEW r \in Seq(Nat), NEW a \in Seq(Nat), NEW q \in Seq(Nat),
         NEW n \in Nat, Consecutive(r, a, q, n)
  PROVE  /\ Consecutive(r \o a, <<>>, q, n)
         /\ Len(r \o a) = Len(r) + Len(a)
<1>1. /\ Len(r \o a) = Len(r) + Len(a)
      /\ \A i \in 1 .. Len(r \o a) :
           \/ i \in 1 .. Len(r) /\ (r \o a)[i] = r[i]
           \/ i - Len(r) \in 1 .. Len(a) /\ (r \o a)[i] = a[i - Len(r)]
      /\ Len(<<>>) = 0
  OBVIOUS
<1>2. Follows(r \o a, 0)
  BY <1>1 DEF Consecutive, Follows
<1>3. Follows(<<>>, Len(r \o a)) /\ Follows(q, Len(r \o a) + Len(<<>>))
  BY <1>1 DEF Consecutive, Follows
<1> QED BY <1>1, <1>2, <1>3 DEF Consecutive

LEMMA WholeFollows ==
  ASSUME NEW r \in Seq(Nat), NEW a \in Seq(Nat), NEW q \in Seq(Nat),
         NEW n \in Nat, Consecutive(r, a, q, n)
  PROVE  r \o a \o q = [i \in 1 .. n |-> i]
<1> DEFINE s == r \o a
<1>1. s \in Seq(Nat) /\ Consecutive(s, <<>>, q, n)
  BY ShownFollows
<1>2. n = Len(s) + Len(q) /\ Follows(s, 0) /\ Follows(q, Len(s))
  BY <1>1 DEF Consecutive, Follows
<1> HIDE DEF s
<1>3. /\ s \o q \in Seq(Nat) /\ Len(s \o q) = n
      /\ \A i \in 1 .. n :
           \/ i \in 1 .. Len(s) /\ (s \o q)[i] = s[i]
           \/ i - Len(s) \in 1 .. Len(q) /\ (s \o q)[i] = q[i - Len(s)]
  BY <1>1, <1>2
<1>4. \A i \in 1 .. n : (s \o q)[i] = i
  BY <1>1, <1>2, <1>3 DEF Follows
<1>5. s \o q = [i \in 1 .. Len(s \o q) |-> (s \o q)[i]]
  <2> DEFINE w == s \o q
  <2>1. w \in Seq(Nat)
    BY <1>3
  <2> HIDE DEF w
  <2>2. w = [i \in 1 .. Len(w) |-> w[i]]
    BY <2>1
  <2> QED BY <2>2 DEF w
<1>6. s \o q = [i \in 1 .. n |-> i]
  BY <1>3, <1>4, <1>5
<1> QED BY <1>6 DEF s

LEMMA AnswerType == Inv => \A k \in Kinds : Answer(k) \in Seq(Nat)
BY DEF Inv, TypeOK, Answer, Job

LEMMA ShownInit == Init => ShownInv
<1> SUFFICES ASSUME Init PROVE ShownInv
  OBVIOUS
<1>1. Inv
  BY InvInit
<1>2. AloneInv
  BY DEF Init, AloneInv, Idle
<1>3. \A k \in Kinds : /\ replayed[k] = <<>> /\ Answer(k) = <<>> /\ queue[k] = <<>>
                      /\ produced[k] = 0 /\ asked[k] = 0
  BY DEF Init, Answer, Nothing
<1>4. CountInv
  <2>1. Consecutive(<<>>, <<>>, <<>>, 0)
    BY DEF Consecutive, Follows
  <2> QED BY <1>3, <2>1 DEF CountInv
<1>5. CatchUpInv
  BY <1>3 DEF CatchUpInv, Init
<1> QED BY <1>1, <1>2, <1>4, <1>5 DEF ShownInv

LEMMA ShownProducer ==
  ASSUME ShownInv, NEW p \in Producers, Report(p) \/ Proceed(p)
  PROVE  ShownInv'
<1>0. Inv /\ Inv'
  BY ProducerInv DEF ShownInv
<1>1. UNCHANGED <<job, awaits, replayed, asked>> /\ AloneInv'
  BY DEF Report, Proceed, clientVars, ShownInv, AloneInv
<1>2. \A k \in Kinds : Answer(k)' = Answer(k)
  BY <1>1 DEF Answer
<1>3. ASSUME NEW k \in Kinds
      PROVE  \/ queue'[k] = queue[k] /\ produced'[k] = produced[k]
             \/ queue'[k] = Append(queue[k], produced[k] + 1) /\ produced'[k] = produced[k] + 1
  <2>1. CASE Push(p)
    BY <1>0, <2>1 DEF Push, Inv, TypeOK
  <2>2. CASE ~Push(p)
    BY <2>2 DEF Report, Proceed, Call, RedirectLine, LockQueues, LineDone
  <2> QED BY <2>1, <2>2
<1>4. CountInv'
  <2> SUFFICES ASSUME NEW k \in Kinds
               PROVE  Consecutive(replayed[k], Answer(k), queue'[k], produced'[k])
    BY <1>1, <1>2 DEF CountInv
  <2>1. /\ replayed[k] \in Seq(Nat) /\ queue[k] \in Seq(Nat) /\ produced[k] \in Nat
        /\ Answer(k) \in Seq(Nat)
    BY <1>0, AnswerType DEF Inv, TypeOK
  <2>2. Consecutive(replayed[k], Answer(k), queue[k], produced[k])
    BY DEF ShownInv, CountInv
  <2>3. Consecutive(replayed[k], Answer(k), Append(queue[k], produced[k] + 1), produced[k] + 1)
    BY <2>1, <2>2, PushedFollows
  <2> QED BY <1>3, <2>2, <2>3
<1>5. CatchUpInv'
  <2>1. \A k \in Kinds : produced[k] \in Nat /\ asked[k] \in Nat
    BY <1>0 DEF Inv, TypeOK
  <2>2. \A k \in Kinds : asked[k] <= produced'[k]
    BY <1>3, <2>1 DEF ShownInv, CatchUpInv
  <2> QED BY <1>1, <1>2, <2>2 DEF ShownInv, CatchUpInv
<1> QED BY <1>0, <1>1, <1>4, <1>5 DEF ShownInv

(* Only the handler that is awaited works, so that it is the answer that   *)
(* its steps change.                                                       *)
LEMMA ShownHandler ==
  ASSUME ShownInv, NEW h \in Handlers, Handle(h)
  PROVE  ShownInv'
<1>0. Inv /\ Inv' /\ h # Nobody
  BY HandlerInv, RelayAssumption DEF ShownInv
<1>1. UNCHANGED <<produced, awaits, replayed, asked>>
  BY DEF Handle, clientVars
<1>2. h = awaits
  <2>1. job[h].phase # "idle"
    BY <1>0 DEF Handle, CheckQueue, TakeFront, ReadFlags, DropAnswer, Inv, TypeOK, Kinds
  <2> QED BY <2>1 DEF ShownInv, AloneInv, Idle
<1>3. ~DropAnswer(h)
  BY <1>2 DEF DropAnswer
<1>4. /\ job[h] \in Job /\ job[h].taken \in [Kinds -> Seq(Nat)]
      /\ \A k \in Kinds : /\ replayed[k] \in Seq(Nat) /\ queue[k] \in Seq(Nat)
                          /\ produced[k] \in Nat /\ asked[k] \in Nat
  BY <1>0 DEF Inv, TypeOK, Job
<1>5. /\ job[h].selection = "All" /\ job[h].inside # "discard"
      /\ \A g \in Handlers \ {h} : job[g] = Idle
  BY <1>2 DEF ShownInv, AloneInv
<1>6. \A k \in Kinds : Answer(k) = job[h].taken[k] /\ Answer(k)' = job'[h].taken[k]
  BY <1>0, <1>1, <1>2 DEF Answer
<1>7. ASSUME NEW j \in Job, job' = [job EXCEPT ![h] = j],
             j.selection = "All", j.inside # "discard"
      PROVE  AloneInv' /\ job'[h] = j
  <2>1. job'[h] = j /\ \A g \in Handlers \ {h} : job'[g] = job[g]
    BY <1>0, <1>7 DEF Inv, TypeOK
  <2> QED BY <1>1, <1>2, <1>5, <1>7, <2>1 DEF AloneInv, Idle
<1>8. \A k \in Kinds : Consecutive(replayed[k], job[h].taken[k], queue[k], produced[k])
  BY <1>6 DEF ShownInv, CountInv
<1>9. \A k \in Kinds :
        /\ asked[k] <= produced[k]
        /\ Left(k, job[h].phase) => asked[k] <= Len(replayed[k]) + Len(job[h].taken[k])
  BY <1>0, <1>2, <1>6 DEF ShownInv, CatchUpInv
<1>10. ASSUME AloneInv',
              \A k \in Kinds :
                /\ Consecutive(replayed[k], job'[h].taken[k], queue'[k], produced[k])
                /\ Left(k, job'[h].phase) => asked[k] <= Len(replayed[k]) + Len(job'[h].taken[k])
       PROVE  ShownInv'
  <2>1. CountInv'
    BY <1>1, <1>6, <1>10 DEF CountInv
  <2>2. CatchUpInv'
    BY <1>0, <1>1, <1>2, <1>6, <1>9, <1>10 DEF CatchUpInv
  <2> QED BY <1>0, <1>10, <2>1, <2>2 DEF ShownInv
<1>11. CASE CheckQueue(h)
  <2>1. queue' = queue /\ job[h].phase \in Kinds
    BY <1>11 DEF CheckQueue
  <2>2. CASE Takes(h) = "no"
    <3> DEFINE j == [job[h] EXCEPT !.phase = After[job[h].phase]]
    <3>0. After[job[h].phase] \in {"progressStates", "logLines", "flags"}
      BY <2>1 DEF After, Kinds
    <3>1. /\ j \in Job /\ j.selection = "All" /\ j.inside # "discard"
          /\ j.taken = job[h].taken /\ j.phase = After[job[h].phase]
      BY <1>4, <1>5, <3>0 DEF Job, Kinds
    <3>2. job' = [job EXCEPT ![h] = j]
      BY <1>0, <1>11, <2>2 DEF CheckQueue, Inv, TypeOK, Job
    <3>3. AloneInv' /\ job'[h] = j
      BY <1>7, <3>1, <3>2
    <3>4. queue[job[h].phase] = <<>>
      BY <1>5, <2>1, <2>2 DEF Takes
    <3> HIDE DEF j
    <3>5. ASSUME NEW k \in Kinds, Left(k, j.phase)
          PROVE  asked[k] <= Len(replayed[k]) + Len(job[h].taken[k])
      <4>1. Left(k, job[h].phase) \/ k = job[h].phase
        BY <2>1, <3>1, <3>5 DEF Left, After, Kinds
      <4>2. CASE k = job[h].phase
        <5>1. produced[k] = Len(replayed[k]) + Len(job[h].taken[k]) + Len(queue[k])
          BY <1>8 DEF Consecutive
        <5>2. replayed[k] \in Seq(Nat) /\ job[h].taken[k] \in Seq(Nat)
          BY <1>4
        <5>3. Len(replayed[k]) \in Nat /\ Len(job[h].taken[k]) \in Nat
          BY <5>2
        <5>4. asked[k] <= produced[k] /\ asked[k] \in Nat /\ Len(queue[k]) = 0
          BY <1>4, <1>9, <3>4, <4>2
        <5>5. produced[k] = Len(replayed[k]) + Len(job[h].taken[k])
          BY <5>1, <5>3, <5>4
        <5> QED BY <5>4, <5>5
      <4> QED BY <1>9, <4>1, <4>2
    <3> QED BY <1>8, <1>10, <2>1, <3>1, <3>3, <3>5
  <2>3. CASE Takes(h) # "no"
    <3> DEFINE j == [job[h] EXCEPT !.inside = Takes(h)]
    <3>1. Takes(h) = "take"
      BY <1>5, <2>3 DEF Takes
    <3>2. /\ j \in Job /\ j.selection = "All" /\ j.inside # "discard"
          /\ j.taken = job[h].taken /\ j.phase = job[h].phase
      BY <1>4, <1>5, <3>1 DEF Job
    <3>3. job' = [job EXCEPT ![h] = j]
      BY <1>0, <1>11, <2>3 DEF CheckQueue, Inv, TypeOK, Job
    <3>4. AloneInv' /\ job'[h] = j
      BY <1>7, <3>2, <3>3
    <3> HIDE DEF j
    <3> QED BY <1>8, <1>9, <1>10, <2>1, <3>2, <3>4
  <2> QED BY <2>2, <2>3
<1>12. CASE TakeFront(h)
  <2> DEFINE q == job[h].phase
             j == [job[h] EXCEPT !.inside = "no", !.taken =
                    [job[h].taken EXCEPT ![q] = Append(job[h].taken[q], Head(queue[q]))]]
  <2>1. job[h].inside = "take"
    BY <1>4, <1>5, <1>12 DEF TakeFront, Job
  <2>2. /\ q \in Kinds /\ queue[q] \in Seq(Nat) /\ queue[q] # <<>>
        /\ queue' = [queue EXCEPT ![q] = Tail(queue[q])]
        /\ job' = [job EXCEPT ![h] = j]
    BY <1>0, <1>12, <2>1, TakeFrontJob DEF Inv
  <2>3. Append(job[h].taken[q], Head(queue[q])) \in Seq(Nat)
    BY <1>4, <2>2
  <2>4. /\ j \in Job /\ j.selection = "All" /\ j.inside # "discard" /\ j.phase = q
        /\ j.taken = [job[h].taken EXCEPT ![q] = Append(job[h].taken[q], Head(queue[q]))]
    BY <1>4, <1>5, <2>2, <2>3 DEF Job
  <2> HIDE DEF j
  <2>5. AloneInv' /\ job'[h] = j
    BY <1>7, <2>2, <2>4
  <2>6. /\ Consecutive(replayed[q], Append(job[h].taken[q], Head(queue[q])), Tail(queue[q]), produced[q])
        /\ Len(Append(job[h].taken[q], Head(queue[q]))) = Len(job[h].taken[q]) + 1
    BY <1>4, <1>8, <2>2, TakenFollows
  <2>7. ASSUME NEW k \in Kinds
        PROVE  /\ Consecutive(replayed[k], j.taken[k], queue'[k], produced[k])
               /\ Left(k, q) => asked[k] <= Len(replayed[k]) + Len(j.taken[k])
    <3>1. CASE k = q
      <4>1. /\ j.taken[k] = Append(job[h].taken[q], Head(queue[q]))
            /\ queue'[k] = Tail(queue[q])
        BY <1>0, <1>4, <2>2, <2>4, <3>1 DEF Inv, TypeOK
      <4>2. ~Left(q, q)
        BY <2>2 DEF Left, Kinds
      <4> QED BY <2>6, <3>1, <4>1, <4>2
    <3>2. CASE k # q
      <4>1. j.taken[k] = job[h].taken[k] /\ queue'[k] = queue[k]
        BY <1>0, <1>4, <2>2, <2>4, <3>2 DEF Inv, TypeOK
      <4> QED BY <1>8, <1>9, <4>1
    <3> QED BY <3>1, <3>2
  <2> QED BY <1>10, <2>4, <2>5, <2>7
<1>13. CASE ReadFlags(h)
  <2> DEFINE j == [job[h] EXCEPT !.phase = "answered", !.outcome = outcome]
  <2>1. /\ j \in Job /\ j.selection = "All" /\ j.inside # "discard"
        /\ j.taken = job[h].taken /\ j.phase = "answered"
    BY <1>0, <1>4, <1>5 DEF Job, Inv, TypeOK
  <2>2. job' = [job EXCEPT ![h] = j] /\ queue' = queue /\ job[h].phase = "flags"
    BY <1>0, <1>13 DEF ReadFlags, Inv, TypeOK, Job
  <2>3. AloneInv' /\ job'[h] = j
    BY <1>7, <2>1, <2>2
  <2>4. \A k \in Kinds : Left(k, job[h].phase)
    BY <2>2 DEF Left
  <2> HIDE DEF j
  <2> QED BY <1>8, <1>9, <1>10, <2>1, <2>2, <2>3, <2>4
<1> QED BY <1>3, <1>11, <1>12, <1>13 DEF Handle

LEMMA ShownClient ==
  ASSUME Others = {}, ShownInv, NEW h \in Handlers,
         ForeignQuery(h) \/ Query(h) \/ Replay(h)
  PROVE  ShownInv'
<1>0. Inv /\ Inv' /\ h # Nobody
  BY ClientInv, RelayAssumption DEF ShownInv
<1>1. ~ForeignQuery(h)
  BY DEF ForeignQuery
<1>2. /\ job \in [Handlers -> Job]
      /\ \A k \in Kinds : /\ replayed[k] \in Seq(Nat) /\ queue[k] \in Seq(Nat)
                          /\ produced[k] \in Nat /\ asked[k] \in Nat
  BY <1>0 DEF Inv, TypeOK
<1>3. \A k \in Kinds : Consecutive(replayed[k], Answer(k), queue[k], produced[k])
  BY DEF ShownInv, CountInv
<1>4. CASE Query(h)
  <2> DEFINE j == [Idle EXCEPT !.phase = "states", !.selection = "All"]
  <2>1. /\ job' = [job EXCEPT ![h] = j] /\ awaits = Nobody /\ awaits' = h
        /\ asked' = produced /\ UNCHANGED <<queue, produced, replayed>>
    BY <1>4 DEF Query, Begin
  <2>2. /\ job'[h] = j /\ \A g \in Handlers \ {h} : job'[g] = job[g]
        /\ j.selection = "All" /\ j.inside = "no" /\ j.phase = "states"
        /\ j.taken = Nothing
    BY <1>2, <2>1 DEF Idle
  <2> HIDE DEF j
  <2>3. AloneInv'
    <3>1. \A g \in Handlers : job[g] = Idle
      BY <1>0, <2>1, RelayAssumption DEF ShownInv, AloneInv
    <3> QED BY <1>0, <2>1, <2>2, <3>1 DEF AloneInv, Idle
  <2>4. \A k \in Kinds : Answer(k) = <<>> /\ Answer(k)' = <<>>
    BY <1>0, <2>1, <2>2 DEF Answer, Nothing
  <2>5. CountInv'
    BY <1>3, <2>1, <2>4 DEF CountInv
  <2>6. \A k \in Kinds : ~Left(k, job'[h].phase)
    BY <2>2 DEF Left
  <2>7. CatchUpInv'
    BY <1>0, <1>2, <2>1, <2>6 DEF CatchUpInv
  <2> QED BY <1>0, <2>3, <2>5, <2>7 DEF ShownInv
<1>5. CASE Replay(h)
  <2>1. /\ job' = [job EXCEPT ![h] = Idle] /\ awaits = h /\ awaits' = Nobody
        /\ job[h].phase = "answered"
        /\ UNCHANGED <<asked, queue, produced>>
        /\ \A k \in Kinds : replayed'[k] = replayed[k] \o job[h].taken[k]
    BY <1>5 DEF Replay
  <2>2. /\ job'[h] = Idle /\ \A g \in Handlers \ {h} : job'[g] = job[g]
    BY <1>2, <2>1
  <2>3. AloneInv'
    BY <1>0, <2>1, <2>2 DEF ShownInv, AloneInv, Idle
  <2>4. \A k \in Kinds : Answer(k) = job[h].taken[k] /\ Answer(k)' = <<>>
    BY <1>0, <2>1 DEF Answer
  <2>5. ASSUME NEW k \in Kinds
        PROVE  /\ Consecutive(replayed'[k], <<>>, queue[k], produced[k])
               /\ Len(replayed'[k]) = Len(replayed[k]) + Len(job[h].taken[k])
    <3>1. Answer(k) \in Seq(Nat)
      BY <1>0, AnswerType
    <3>2. /\ Consecutive(replayed[k] \o Answer(k), <<>>, queue[k], produced[k])
          /\ Len(replayed[k] \o Answer(k)) = Len(replayed[k]) + Len(Answer(k))
      BY <1>2, <1>3, <3>1, ShownFollows
    <3> QED BY <2>1, <2>4, <3>2
  <2>6. CountInv'
    BY <2>1, <2>4, <2>5 DEF CountInv
  <2>7. \A k \in Kinds : asked[k] <= produced[k] /\ asked[k] <= Len(replayed'[k])
    BY <1>0, <2>1, <2>4, <2>5 DEF ShownInv, CatchUpInv, Left
  <2>8. CatchUpInv'
    BY <2>1, <2>7 DEF CatchUpInv
  <2> QED BY <1>0, <2>3, <2>6, <2>8 DEF ShownInv
<1> QED BY <1>1, <1>4, <1>5

LEMMA ShownNext == Others = {} /\ Faults = FALSE /\ ShownInv /\ [Next]_vars => ShownInv'
<1> SUFFICES ASSUME Others = {}, Faults = FALSE, ShownInv, [Next]_vars PROVE ShownInv'
  OBVIOUS
<1>1. ASSUME NEW p \in Producers, Report(p) \/ Proceed(p) PROVE ShownInv'
  BY <1>1, ShownProducer
<1>2. ASSUME NEW h \in Handlers, Handle(h) PROVE ShownInv'
  BY <1>2, ShownHandler
<1>3. ASSUME NEW h \in Handlers, ForeignQuery(h) \/ Query(h) \/ Replay(h) PROVE ShownInv'
  BY <1>3, ShownClient
<1>4. CASE SetOutcome \/ Race \/ UNCHANGED vars
  <2>1. UNCHANGED <<queue, produced, job, replayed, awaits, asked>>
    BY <1>4 DEF SetOutcome, Race, vars, clientVars
  <2>2. Inv'
    BY <1>4, OtherInv DEF ShownInv
  <2>3. AloneInv' /\ CountInv' /\ CatchUpInv'
    BY <2>1 DEF ShownInv, AloneInv, CountInv, CatchUpInv, Answer
  <2> QED BY <2>2, <2>3 DEF ShownInv
<1>5. ~LoseAnswer
  BY DEF LoseAnswer
<1> QED BY <1>1, <1>2, <1>3, <1>4, <1>5 DEF Next

LEMMA ShownInvariant == Others = {} /\ Faults = FALSE => (Spec => []ShownInv)
<1> SUFFICES ASSUME Others = {}, Faults = FALSE PROVE Spec => []ShownInv
  OBVIOUS
<1>1. ShownInv /\ [Next]_vars => ShownInv'
  BY ShownNext
<1> QED BY ShownInit, <1>1, PTL DEF Spec

(* The display, the answer under way and the queue make up all that was    *)
(* pushed, in order, if the workbench is the only client of the server     *)
(* (restapi.cpp 405-444, analyzeclient.cpp 136-254) and loses no answer.   *)
THEOREM NothingLost == Others = {} /\ Faults = FALSE => (Spec => []NothingVanishes)
<1> SUFFICES ASSUME Others = {}, Faults = FALSE PROVE Spec => []NothingVanishes
  OBVIOUS
<1>1. ShownInv => NothingVanishes
  <2> SUFFICES ASSUME ShownInv, NEW k \in Kinds
               PROVE  replayed[k] \o Answer(k) \o queue[k] = [i \in 1 .. produced[k] |-> i]
    BY DEF NothingVanishes, Answer
  <2>1. /\ replayed[k] \in Seq(Nat) /\ queue[k] \in Seq(Nat) /\ produced[k] \in Nat
        /\ Answer(k) \in Seq(Nat)
    BY AnswerType DEF ShownInv, Inv, TypeOK
  <2> QED BY <2>1, WholeFollows DEF ShownInv, CountInv
<1> QED BY ShownInvariant, <1>1, PTL

(* An answer brings all that had been pushed when it was asked for, under  *)
(* the same conditions.                                                    *)
THEOREM CaughtUp == Others = {} /\ Faults = FALSE => (Spec => []AnswersCatchUp)
<1> SUFFICES ASSUME Others = {}, Faults = FALSE PROVE Spec => []AnswersCatchUp
  OBVIOUS
<1>1. ShownInv => AnswersCatchUp
  <2> SUFFICES ASSUME ShownInv, awaits = Nobody, NEW k \in Kinds
               PROVE  Len(replayed[k]) >= asked[k]
    BY DEF AnswersCatchUp
  <2>1. asked[k] <= Len(replayed[k]) /\ asked[k] \in Nat /\ Len(replayed[k]) \in Nat
    BY DEF ShownInv, CatchUpInv, Inv, TypeOK
  <2> QED BY <2>1
<1> QED BY ShownInvariant, <1>1, PTL
-----------------------------------------------------------------------------
(* The two locks, and the handlers without a lock. *)

(* A thread that the locks let wait: at the redirector's mutex_, or at the *)
(* server's mx_.                                                           *)
HeldUp(p) ==
  \/ pc[p] = "print" /\ mutex # Nobody
  \/ pc[p] \in {"line", "lock"} /\ mx # Nobody

(* A lock that holds up a thread of the analysis belongs to another one    *)
(* that is in a call and can go on: whatever is printed while the          *)
(* displayer is called, the two locks are never waited for in a circle     *)
(* (restapi.cpp 98-176, streamredirector.cpp 9-36).  CallsReturn adds that *)
(* the threads that can go on do.                                          *)
LocksComeFree ==
  \A p \in Producers : HeldUp(p) =>
    \E q \in {mutex, mx} \ {Nobody} :
      q \in Producers \ {p} /\ pc[q] # "idle" /\ ~HeldUp(q)

THEOREM NoCircularWait == Spec => []LocksComeFree
<1>1. Inv => LocksComeFree
  <2> SUFFICES ASSUME Inv, NEW p \in Producers, HeldUp(p)
               PROVE  \E q \in {mutex, mx} \ {Nobody} :
                        q \in Producers \ {p} /\ pc[q] # "idle" /\ ~HeldUp(q)
    BY DEF LocksComeFree
  <2>1. CASE pc[p] \in {"print", "line", "lock"} /\ mx # Nobody
    <3>1. mx \in Producers /\ pc[mx] \in {"pushLine", "push"}
      BY <2>1 DEF Inv, TypeOK, LockInv
    <3> QED BY <2>1, <3>1 DEF HeldUp
  <2>2. CASE pc[p] = "print" /\ mutex # Nobody /\ mx = Nobody
    <3>1. mutex \in Producers /\ pc[mutex] \in {"line", "pushLine", "printed"}
      BY <2>2 DEF Inv, TypeOK, LockInv
    <3> QED BY <2>2, <3>1 DEF HeldUp
  <2> QED BY <2>1, <2>2 DEF HeldUp
<1> QED BY Invariant, <1>1, PTL

(* progressdisplayer.h asks that its functions are "safe to be called from *)
(* different thread", and among the threads of the analysis they are: two  *)
(* threads in one queue take a handler that pops (restapi.cpp 405-444).    *)
NoPop == \A h \in Handlers : job[h].inside = "no"

THEOREM SafeWithoutHandlers == Spec => [](NoPop => SafeFromDifferentThread)
<1>1. Inv => (NoPop => SafeFromDifferentThread)
  <2> SUFFICES ASSUME Inv, NoPop, NEW k \in Kinds
               PROVE  Cardinality(Inside(k)) <= 1
    BY DEF SafeFromDifferentThread
  <2>1. Inside(k) \subseteq {p \in Producers : pc[p] \in {"pushLine", "push"}}
    BY DEF NoPop, Inside
  <2>2. \A p, q \in Inside(k) : p = q
    BY <2>1 DEF Inv, LockInv
  <2>3. CASE Inside(k) = {}
    BY <2>3, FS_EmptySet
  <2>4. CASE Inside(k) # {}
    <3>1. PICK p \in Inside(k) : TRUE
      BY <2>4
    <3>2. Inside(k) = {p}
      BY <2>2, <3>1
    <3>3. Cardinality({p}) = 1
      BY FS_Singleton
    <3> QED BY <3>2, <3>3
  <2> QED BY <2>3, <2>4
<1> QED BY Invariant, <1>1, PTL

(* What a handler is about to pop, while it is the only one, is there: it  *)
(* asked for the size, and the producers only add to the queue.            *)
PopsOf(h) == job[h].inside # "no" => queue[job[h].phase] # <<>>
PopInv == \A h \in Handlers : PopsOf(h)

LEMMA PopNext ==
  ASSUME Others = {}, Faults = FALSE, ShownInv, PopInv, [Next]_vars
  PROVE  PopInv'
<1>0. Inv /\ TypeOK /\ Inv' /\ TypeOK'
  BY InvNext DEF ShownInv, Inv
<1>1. ASSUME NEW p \in Producers, Report(p) \/ Proceed(p) PROVE PopInv'
  <2>1. job' = job
    BY <1>1 DEF Report, Proceed
  <2>2. CASE UNCHANGED queue
    BY <2>1, <2>2 DEF PopInv, PopsOf
  <2>3. CASE Push(p)
    <3>1. At(p) \in Kinds
      BY <1>0, <2>3, AtType DEF Push, Inv
    <3>2. \A k \in Kinds : queue[k] # <<>> => queue'[k] # <<>>
      <4> SUFFICES ASSUME NEW k \in Kinds, queue[k] # <<>> PROVE queue'[k] # <<>>
        OBVIOUS
      <4>1. CASE k = At(p)
        <5>1. queue[k] \in Seq(Nat) /\ produced[k] + 1 \in Nat
          BY <1>0 DEF TypeOK
        <5>2. queue'[k] = Append(queue[k], produced[k] + 1)
          BY <1>0, <2>3, <4>1 DEF Push, TypeOK
        <5> QED BY <5>1, <5>2
      <4>2. CASE k # At(p)
        BY <1>0, <2>3, <4>2 DEF Push, TypeOK
      <4> QED BY <4>1, <4>2
    <3> QED BY <1>0, <2>1, <3>2 DEF PopInv, PopsOf, TypeOK
  <2> QED BY <1>1, <2>2, <2>3 DEF Report, Proceed, Call, RedirectLine, LockQueues, LineDone
<1>2. ASSUME NEW h \in Handlers, Handle(h) PROVE PopInv'
  <2>1. h = awaits
    BY <1>2 DEF Handle, CheckQueue, TakeFront, ReadFlags, DropAnswer, ShownInv, AloneInv,
       Idle, Kinds
  <2>2. \A g \in Handlers \ {h} : job[g] = Idle /\ job'[g] = job[g]
    BY <1>0, <1>2, <2>1 DEF Handle, CheckQueue, TakeFront, ReadFlags, DropAnswer, ShownInv,
       AloneInv, TypeOK
  <2>3. PopsOf(h)'
    <3>1. job \in [Handlers -> Job]
      BY <1>0 DEF TypeOK
    <3>2. CASE CheckQueue(h)
      <4>1. queue' = queue /\ (Takes(h) # "no" => queue[job[h].phase] # <<>>)
        BY <3>2 DEF CheckQueue, Takes
      <4>2. job'[h].inside = "no" \/ (Takes(h) # "no" /\ job'[h].phase = job[h].phase)
        BY <3>1, <3>2 DEF CheckQueue, Job
      <4> QED BY <4>1, <4>2 DEF PopsOf
    <3>3. CASE TakeFront(h)
      BY <3>1, <3>3 DEF TakeFront, PopsOf, Job
    <3>4. CASE ReadFlags(h)
      BY <1>0, <3>1, <3>4 DEF ReadFlags, PopsOf, Job, TypeOK, Kinds
    <3>5. CASE DropAnswer(h)
      BY <2>1, <3>5 DEF DropAnswer
    <3> QED BY <1>2, <3>2, <3>3, <3>4, <3>5 DEF Handle
  <2> QED BY <2>2, <2>3 DEF PopInv, PopsOf, Idle
<1>3. ASSUME NEW h \in Handlers, Query(h) \/ Replay(h) PROVE PopInv'
  <2>1. PICK j \in Job : job' = [job EXCEPT ![h] = j] /\ j.inside = "no"
    <3>1. CASE Query(h)
      BY <1>0, <3>1, BeginJob DEF Query
    <3>2. CASE Replay(h)
      BY <3>2, NothingType DEF Replay, Idle
    <3> QED BY <1>3, <3>1, <3>2
  <2>2. queue' = queue
    BY <1>3 DEF Query, Replay
  <2>3. job'[h].inside = "no" /\ \A g \in Handlers \ {h} : job'[g] = job[g]
    BY <1>0, <2>1 DEF TypeOK
  <2> QED BY <2>2, <2>3 DEF PopInv, PopsOf
<1>4. \A h \in Handlers : ~ForeignQuery(h)
  BY DEF ForeignQuery
<1>5. CASE SetOutcome \/ Race \/ LoseAnswer \/ UNCHANGED vars
  BY <1>5 DEF SetOutcome, Race, LoseAnswer, vars, PopInv, PopsOf
<1> QED BY <1>1, <1>2, <1>3, <1>4, <1>5 DEF Next

(* If the workbench is the only client and loses no answer, no handler     *)
(* pops from an empty queue: only a pop beside a push can race.            *)
THEOREM NeverPopsEmpty == Others = {} /\ Faults = FALSE => (Spec => []PopInv)
<1> SUFFICES ASSUME Others = {}, Faults = FALSE PROVE Spec => []PopInv
  OBVIOUS
<1>1. Init => PopInv
  BY DEF Init, PopInv, PopsOf, Idle
<1>2. ShownInv /\ PopInv /\ [Next]_vars => PopInv'
  BY PopNext
<1> QED BY ShownInvariant, <1>1, <1>2, PTL DEF Spec

(* The outcome a handler has read, or the workbench was told, is the       *)
(* outcome of the analysis, however long the answer was under way.         *)
ToldOutcome ==
  /\ \A h \in Handlers : job[h].outcome \in {"none", outcome}
  /\ told \in {"none", outcome}

THEOREM ToldTruly == Spec => []ToldOutcome
<1>1. Init => ToldOutcome
  BY DEF Init, ToldOutcome, Idle
<1>2. Inv /\ ToldOutcome /\ [Next]_vars => ToldOutcome'
  <2> SUFFICES ASSUME TypeOK, ToldOutcome, [Next]_vars PROVE ToldOutcome'
    BY DEF Inv
  <2>1. CASE SetOutcome
    <3>1. outcome = "none" /\ job' = job /\ told' = told
      BY <2>1 DEF SetOutcome, clientVars
    <3> QED BY <3>1 DEF ToldOutcome
  <2>2. CASE Race \/ LoseAnswer \/ UNCHANGED vars \/ \E p \in Producers : Report(p) \/ Proceed(p)
    <3>1. outcome' = outcome /\ job' = job /\ told' = told
      BY <2>2 DEF Race, LoseAnswer, vars, Report, Proceed, clientVars
    <3> QED BY <3>1 DEF ToldOutcome
  <2>3. ASSUME NEW h \in Handlers, Handle(h) \/ ForeignQuery(h) \/ Query(h) \/ Replay(h)
        PROVE  ToldOutcome'
    <3>1. outcome' = outcome /\ \A g \in Handlers \ {h} : job'[g] = job[g]
      BY <2>3 DEF TypeOK, Handle, CheckQueue, TakeFront, ReadFlags, DropAnswer,
         ForeignQuery, Query, Replay, Begin
    <3>2. job \in [Handlers -> Job]
      BY DEF TypeOK
    <3>3. job'[h].outcome \in {"none", outcome}
      <4>1. CASE CheckQueue(h)
        BY <3>2, <4>1 DEF CheckQueue, ToldOutcome, Job
      <4>2. CASE TakeFront(h)
        <5>1. job[h].phase \in Kinds /\ job[h] \in Job
          BY <4>2 DEF TypeOK, TakeFront
        <5>2. job'[h].outcome = job[h].outcome
          BY <3>2, <4>2, <5>1 DEF TakeFront, Job
        <5> QED BY <5>2 DEF ToldOutcome
      <4>3. CASE ReadFlags(h)
        <5>1. job' = [job EXCEPT ![h] = [job[h] EXCEPT !.phase = "answered",
                                                       !.outcome = outcome]]
          BY <3>2, <4>3 DEF ReadFlags, Job
        <5>2. job[h] \in Job
          BY <3>2
        <5>3. job'[h].outcome = outcome
          BY <3>2, <5>1, <5>2 DEF Job
        <5> QED BY <5>3
      <4>4. CASE DropAnswer(h) \/ Replay(h)
        <5>1. job' = [job EXCEPT ![h] = Idle]
          BY <4>4 DEF DropAnswer, Replay
        <5>2. job'[h] = Idle
          BY <3>2, <5>1
        <5>3. Idle.outcome = "none"
          BY DEF Idle
        <5> QED BY <5>2, <5>3
      <4>5. CASE ForeignQuery(h) \/ Query(h)
        <5>1. PICK j \in Job : job' = [job EXCEPT ![h] = j] /\ j.outcome = "none"
          BY <4>5, BeginJob, RelayAssumption DEF ForeignQuery, Query
        <5>2. job'[h] = j
          BY <3>2, <5>1
        <5> QED BY <5>1, <5>2
      <4> QED BY <2>3, <4>1, <4>2, <4>3, <4>4, <4>5 DEF Handle
    <3>4. told' \in {told, job[h].outcome}
      BY <2>3 DEF Handle, ForeignQuery, Query, Replay, clientVars
    <3> QED BY <3>1, <3>3, <3>4 DEF ToldOutcome
  <2> QED BY <2>1, <2>2, <2>3 DEF Next
<1> QED BY Invariant, <1>1, <1>2, PTL DEF Spec
=============================================================================
