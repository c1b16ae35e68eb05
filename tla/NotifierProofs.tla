--------------------------- MODULE NotifierProofs ----------------------------
(***************************************************************************)
(* Who is told what of a task, for any number of tasks, users, tiers and   *)
(* requests.  What a request knows of its task was read before its change  *)
(* committed; the proofs rest on what of it cannot have become wrong: a    *)
(* doer is never replaced, a payment released or a dispute raised stays so. *)
(* History is read off the rows, so that every event has to be matched with *)
(* a change of its row, and every change with an event.                    *)
(***************************************************************************)
EXTENDS Notifier, TLAPS

\* A request names its task, and holds events only to tell them.
Equipped(r) ==
    /\ r.pc # "idle" => r.task \in Tasks
    /\ r.pc = "idle" => r.by = NoUser /\ r.seen = NoUser
    /\ r.pc = "acceptWrite" => r.by \in Users
    /\ r.pc # "tell" => r.events = {}

\* All but the history, which follows from the step (RecordTyped).
Formed ==
    /\ task \in [Tasks -> TaskRow]
    /\ req \in [Reqs -> Request]
    /\ fanouts \subseteq Tasks
    /\ sends \cup over \subseteq Send
    /\ \A p \in Reqs : Equipped(req[p])

Typed == Formed /\ changes \subseteq Change /\ told \in [Tasks \X Once -> Nat]

-----------------------------------------------------------------------------
(* What the rows, the requests about to write, and the history say of each *)
(* other.                                                                  *)

Hired(t) == task[t].doer # NoUser

\* The mark of a change that can be made only once: it stays.
Done(t, k) ==
    /\ k = "TASK_POSTED" => task[t].status # "UNPAID"
    /\ k = "TASK_ACCEPTED" => Hired(t)
    /\ k = "PAYMENT_RELEASED" => task[t].escrow \in {"RELEASED", "DISPUTED"}
    /\ k = "TASK_DISPUTED" => task[t].disputed

RowSound(t) ==
    /\ task[t].status = "UNPAID" => ~Hired(t) /\ task[t].escrow \in {"NONE", "PENDING"}
    /\ task[t].status \in {"ASSIGNED", "COMPLETED"} => Hired(t)
    /\ task[t].confirmed \/ task[t].escrow = "RELEASED" => Hired(t)

\* What a request has read of the doer is still right, or was null.
ReqSound(p) ==
    LET t == req[p].task IN
    /\ req[p].pc \in {"startWrite", "completeWrite", "release", "confirmWrite", "disputeTx"} =>
         Hired(t)
    /\ req[p].pc \in {"release", "confirmWrite", "disputeTx"} => req[p].seen = task[t].doer
    /\ req[p].pc = "cancelTx" => req[p].seen \in {NoUser, task[t].doer}

RowsInv == (\A t \in Tasks : RowSound(t)) /\ (\A p \in Reqs : ReqSound(p))

\* What the payload or the history of a change knows of its doer.
SeenRight(k, seen, doer) ==
    /\ k \in {"TASK_CONFIRMED", "PAYMENT_RELEASED", "TASK_DISPUTED"} =>
         seen = doer /\ doer # NoUser
    /\ k = "TASK_CANCELLED" => seen \in {NoUser, doer}

\* What a row says, the history contains.
Happened(t, k) ==
    \E c \in changes : /\ c.type = k /\ c.task = t
                       /\ k \in {"TASK_CONFIRMED", "PAYMENT_RELEASED"} => c.doer = task[t].doer

HistoryInv ==
    /\ \A t \in Tasks : \A k \in News(task[t]) : Happened(t, k)
    /\ \A c \in changes : SeenRight(c.type, c.seen, c.doer)

\* A change is behind an event, or behind a send.
Backed(e) ==
    \E c \in changes : c.type = e.type /\ c.task = e.task /\ Recipients(e) \subseteq Concerned(c)

Answered(c) == SendsOf(EventOf(c)) \subseteq sends \cup over \/ Pending(c)

\* Every event and every send has its change, and every change its sends, but
\* for those that a request or a fan-out still holds.
SendsInv ==
    /\ \A p \in Reqs : \A e \in req[p].events : Backed(e)
    /\ \A t \in fanouts : \E c \in changes : Announces(c) /\ c.task = t
    /\ TaskNoticesAreTrue
    /\ \A c \in changes : Answered(c)

\* Who tells of a change that can be made only once has left its mark.
OnceInv == \A t \in Tasks, k \in Once :
              /\ told[<<t, k>>] <= 1
              /\ told[<<t, k>>] = 1 => Done(t, k)

-----------------------------------------------------------------------------
(* Types                                                                   *)

StepOf(p) == \/ \E t \in Tasks : TaskRequest(p, t)
             \/ RequestStep(p) \/ Fail(p)

Delivers == \/ \E t \in Tasks : FanOut(t) \/ FanOutFails(t)
            \/ \E s \in sends : SendEnds(s)

LEMMA ReqTyped ==
    ASSUME Formed, NEW p \in Reqs, NEW r \in Request, Equipped(r),
           req' = [req EXCEPT ![p] = r]
    PROVE  req' \in [Reqs -> Request] /\ \A q \in Reqs : Equipped(req'[q])
<1>1. \A q \in Reqs : req'[q] \in {r, req[q]}
  BY DEF Formed
<1>2. \A q \in Reqs : Equipped(req'[q])
  BY <1>1 DEF Formed
<1> QED
  BY <1>2 DEF Formed

LEMMA IdleTyped == Idle \in Request /\ Equipped(Idle)
BY DEF Idle, Request, Equipped, UserOrNull

LEMMA BeginTyped ==
    ASSUME Formed, NEW p \in Reqs, NEW l \in {"acceptWrite", "startWrite", "completeWrite", "release",
                                              "confirmWrite", "cancelTx", "disputeTx"},
           NEW t \in Tasks, NEW by \in UserOrNull \cup {Admin}, NEW seen \in UserOrNull,
           NEW c \in BOOLEAN, l = "acceptWrite" => by \in Users,
           Begin(p, l, t, by, seen, c)
    PROVE  Formed'
<1> DEFINE r == [Idle EXCEPT !.pc = l, !.task = t, !.by = by, !.seen = seen, !.confirms = c]
<1>1. r \in Request /\ Equipped(r)
  BY DEF Request, Equipped, Idle, UserOrNull
<1>2. req' = [req EXCEPT ![p] = r]
  BY DEF Begin
<1> HIDE DEF r
<1>3. req' \in [Reqs -> Request] /\ \A q \in Reqs : Equipped(req'[q])
  BY <1>1, <1>2, ReqTyped
<1> QED
  BY <1>3 DEF Begin, delivery, Formed, Equipped

LEMMA CommitTyped ==
    ASSUME Formed, NEW p \in Reqs, ~At(p, "idle"), NEW events \in SUBSET Payload,
           Commit(p, events), task' \in [Tasks -> TaskRow]
    PROVE  Formed'
<1> DEFINE r == [req[p] EXCEPT !.pc = "tell", !.events = events]
<1>1. req[p] \in Request /\ Equipped(req[p])
  BY DEF Formed
<1>2. r \in Request /\ Equipped(r)
  BY <1>1 DEF Request, Equipped, At
<1>3. req' = [req EXCEPT ![p] = r]
  BY DEF Commit, Formed
<1> HIDE DEF r
<1>4. req' \in [Reqs -> Request] /\ \A q \in Reqs : Equipped(req'[q])
  BY <1>2, <1>3, ReqTyped
<1> QED
  BY <1>4 DEF Commit, delivery, Formed, Equipped

LEMMA LoseTyped ==
    ASSUME Formed, NEW p \in Reqs, Lose(p)
    PROVE  Formed'
<1>1. req' \in [Reqs -> Request] /\ \A q \in Reqs : Equipped(req'[q])
  BY IdleTyped, ReqTyped DEF Lose, Finish
<1> QED
  BY <1>1 DEF Lose, delivery, Formed, Equipped

LEMMA RecipientsAreUsers ==
    ASSUME NEW e \in Payload
    PROVE  Recipients(e) \subseteq Users /\ SendsOf(e) \subseteq Send
<1>1. Eligible(e.task) \subseteq Users
  BY NotifierAssumption DEF Eligible
<1>2. PosterOf[e.task] \in Users /\ e.seen \in Users \cup {NoUser} /\ e.type \in EventType
  BY NotifierAssumption DEF Payload, UserOrNull
<1>3. Recipients(e) \subseteq Users
  BY <1>1, <1>2 DEF Recipients, EventType
<1> QED
  BY <1>3 DEF SendsOf, Send, Payload

LEMMA EventTyped ==
    ASSUME Formed, NEW p \in Reqs, ~At(p, "idle"), NEW type \in EventType
    PROVE  Event(p, type) \in Payload
BY DEF Formed, At, Equipped, Event, Payload, Request

LEMMA TaskRequestTyped ==
    ASSUME Formed, NEW p \in Reqs, NEW t \in Tasks, TaskRequest(p, t)
    PROVE  Formed'
<1>1. task[t].doer \in UserOrNull /\ PosterOf[t] \in UserOrNull \cup {Admin}
  BY NotifierAssumption DEF Formed, TaskRow, UserOrNull
<1>2. CASE Promote(p, t)
  <2> DEFINE e == [type |-> "TASK_POSTED", task |-> t, by |-> NoUser, seen |-> NoUser]
             r == [Idle EXCEPT !.pc = "tell", !.task = t, !.events = {e}]
  <2>1. e \in Payload
    BY DEF Payload, EventType, UserOrNull
  <2>2. r \in Request /\ Equipped(r)
    BY <2>1 DEF Request, Equipped, Idle, UserOrNull
  <2>3. req' = [req EXCEPT ![p] = r]
    BY <1>2 DEF Promote
  <2> HIDE DEF r, e
  <2>4. req' \in [Reqs -> Request] /\ \A q \in Reqs : Equipped(req'[q])
    BY <2>2, <2>3, ReqTyped
  <2>5. task' \in [Tasks -> TaskRow]
    <3> DEFINE row == [task[t] EXCEPT !.status = "OPEN",
                                      !.escrow = IF t \in CashTasks THEN @ ELSE "HELD"]
    <3>1. task' = [task EXCEPT ![t] = row]
      BY <1>2 DEF Promote, Formed
    <3>2. row \in TaskRow
      BY DEF Formed, TaskRow
    <3> HIDE DEF row
    <3> QED BY <3>1, <3>2 DEF Formed
  <2> QED BY <1>2, <2>1, <2>3, <2>4, <2>5 DEF Promote, delivery, Formed, Equipped
<1>3. CASE Start(p, t)
  BY <1>1, <1>3, BeginTyped DEF Start
<1>4. CASE Complete(p, t)
  BY <1>1, <1>4, BeginTyped DEF Complete
<1>5. ASSUME NEW u \in Users, Accept(p, t, u) PROVE Formed'
  BY <1>5, BeginTyped DEF Accept, UserOrNull
<1>6. ASSUME NEW u \in Users, RaiseDispute(p, t, u) PROVE Formed'
  BY <1>1, <1>6, BeginTyped DEF RaiseDispute, UserOrNull
<1>7. ASSUME NEW by \in Users \cup {Admin}, Cancel(p, t, by) PROVE Formed'
  BY <1>1, <1>7, BeginTyped DEF Cancel, UserOrNull
<1>8. ASSUME NEW by \in {PosterOf[t], NoUser}, Confirm(p, t, by) PROVE Formed'
  <2>1. by \in UserOrNull \cup {Admin} /\ (by # NoUser) \in BOOLEAN /\ TRUE \in BOOLEAN
    BY <1>1 DEF UserOrNull
  <2>2. CASE Begin(p, "confirmWrite", t, by, task[t].doer, TRUE)
    BY <1>1, <2>1, <2>2, BeginTyped
  <2>3. CASE Begin(p, "release", t, by, task[t].doer, by # NoUser)
    BY <1>1, <2>1, <2>3, BeginTyped
  <2> QED BY <1>8, <2>2, <2>3 DEF Confirm
<1> QED
  BY <1>2, <1>3, <1>4, <1>5, <1>6, <1>7, <1>8 DEF TaskRequest

LEMMA RequestStepTyped ==
    ASSUME Formed, NEW p \in Reqs, RequestStep(p)
    PROVE  Formed'
<1>1. req[p] \in Request /\ Equipped(req[p])
  BY DEF Formed
<1>2. ~At(p, "idle") /\ req[p].task \in Tasks
  BY <1>1
     DEF RequestStep, AcceptWrite, StartWrite, CompleteWrite, Release, ConfirmWrite,
         CancelTx, DisputeTx, Tell, At, Equipped
<1>3. \A type \in EventType : Event(p, type) \in Payload
  BY <1>2, EventTyped
<1>5. CASE AcceptWrite(p)
  <2>1. req[p].by \in Users
    BY <1>1, <1>5 DEF AcceptWrite, At, Equipped
  <2>2. CASE task[req[p].task].status = "OPEN" /\ task[req[p].task].doer = NoUser
    <3>1. task' \in [Tasks -> TaskRow]
      BY <1>5, <2>1, <2>2 DEF AcceptWrite, Formed, TaskRow, UserOrNull
    <3>2. Commit(p, {Event(p, "TASK_ACCEPTED")})
      BY <1>5, <2>2 DEF AcceptWrite
    <3>3. {Event(p, "TASK_ACCEPTED")} \in SUBSET Payload
      BY <1>3 DEF EventType
    <3> QED BY <1>2, <3>1, <3>2, <3>3, CommitTyped
  <2>3. CASE ~(task[req[p].task].status = "OPEN" /\ task[req[p].task].doer = NoUser)
    BY <1>5, <2>3, LoseTyped DEF AcceptWrite
  <2> QED BY <2>2, <2>3
<1>6. CASE StartWrite(p)
  <2>1. req' \in [Reqs -> Request] /\ \A q \in Reqs : Equipped(req'[q])
    BY <1>6, IdleTyped, ReqTyped DEF StartWrite, Finish
  <2>2. task' \in [Tasks -> TaskRow]
    BY ZenonT(40), <1>6 DEF StartWrite, Formed, TaskRow
  <2> QED BY <1>6, <2>1, <2>2 DEF StartWrite, delivery, Formed, Equipped
<1>7. CASE CompleteWrite(p)
  <2>1. task' \in [Tasks -> TaskRow]
    BY ZenonT(40), <1>7 DEF CompleteWrite, Formed, TaskRow
  <2>2. {Event(p, "TASK_COMPLETED")} \in SUBSET Payload
    BY <1>3 DEF EventType
  <2> QED BY <1>2, <1>7, <2>1, <2>2, CommitTyped DEF CompleteWrite
<1>8. CASE Release(p)
  <2> DEFINE events ==
        (IF task[req[p].task].escrow = "HELD" THEN {Event(p, "PAYMENT_RELEASED")} ELSE {})
          \cup (IF req[p].confirms THEN {Event(p, "TASK_CONFIRMED")} ELSE {})
  <2>1. events \in SUBSET Payload
    BY <1>3 DEF EventType
  <2>2. task' \in [Tasks -> TaskRow]
    <3>1. PICK e, c : /\ e = IF task[req[p].task].escrow = "HELD" THEN "RELEASED"
                             ELSE task[req[p].task].escrow
                      /\ c = (task[req[p].task].confirmed \/ req[p].confirms)
      OBVIOUS
    <3>2. task' = [task EXCEPT ![req[p].task].escrow = e, ![req[p].task].confirmed = c]
      BY <1>8, <3>1 DEF Release
    <3>3. e \in {"NONE", "PENDING", "HELD", "RELEASED", "REFUND_PENDING", "DISPUTED"}
      BY <1>2, <3>1 DEF Formed, TaskRow
    <3>4. c \in BOOLEAN
      BY Zenon, <3>1
    <3> QED BY <1>2, <3>2, <3>3, <3>4 DEF Formed, TaskRow
  <2>3. CASE Finish(p) /\ UNCHANGED delivery
    <3>1. req' \in [Reqs -> Request] /\ \A q \in Reqs : Equipped(req'[q])
      BY <2>3, IdleTyped, ReqTyped DEF Finish
    <3> QED BY <2>2, <2>3, <3>1 DEF delivery, Formed, Equipped
  <2>4. CASE Commit(p, events)
    <3> HIDE DEF events
    <3> QED BY <1>2, <2>1, <2>2, <2>4, CommitTyped
  <2> QED BY <1>8, <2>3, <2>4 DEF Release
<1>12. CASE ConfirmWrite(p)
  <2>1. task' \in [Tasks -> TaskRow]
    BY ZenonT(40), <1>12 DEF ConfirmWrite, Formed, TaskRow
  <2>2. {Event(p, "TASK_CONFIRMED")} \in SUBSET Payload
    BY <1>3 DEF EventType
  <2> QED BY <1>2, <1>12, <2>1, <2>2, CommitTyped DEF ConfirmWrite
<1>9. CASE CancelTx(p)
  <2>1. CASE task[req[p].task].status \in {"UNPAID", "OPEN", "ASSIGNED"}
    <3>1. task' \in [Tasks -> TaskRow]
      BY <1>9, <2>1 DEF CancelTx, Formed, TaskRow
    <3>2. Commit(p, {Event(p, "TASK_CANCELLED")})
      BY <1>9, <2>1 DEF CancelTx
    <3>3. {Event(p, "TASK_CANCELLED")} \in SUBSET Payload
      BY <1>3 DEF EventType
    <3> QED BY <1>2, <3>1, <3>2, <3>3, CommitTyped
  <2>2. CASE task[req[p].task].status \notin {"UNPAID", "OPEN", "ASSIGNED"}
    BY <1>9, <2>2, LoseTyped DEF CancelTx
  <2> QED BY <2>1, <2>2
<1>10. CASE DisputeTx(p)
  <2>1. CASE ~task[req[p].task].disputed
    <3>1. task' \in [Tasks -> TaskRow]
      BY <1>10, <2>1 DEF DisputeTx, Formed, TaskRow
    <3>2. Commit(p, {Event(p, "TASK_DISPUTED")})
      BY <1>10, <2>1 DEF DisputeTx
    <3>3. {Event(p, "TASK_DISPUTED")} \in SUBSET Payload
      BY <1>3 DEF EventType
    <3> QED BY <1>2, <3>1, <3>2, <3>3, CommitTyped
  <2>2. CASE task[req[p].task].disputed
    BY <1>10, <2>2, LoseTyped DEF DisputeTx
  <2> QED BY <2>1, <2>2
<1>11. CASE Tell(p)
  <2>1. req' \in [Reqs -> Request] /\ \A q \in Reqs : Equipped(req'[q])
    BY <1>11, IdleTyped, ReqTyped DEF Tell, Finish
  <2>2. req[p].events \subseteq Payload
    BY <1>1 DEF Request
  <2>3. fanouts' \subseteq Tasks
    BY <1>11, <2>2 DEF Tell, Formed, Payload
  <2>4. sends' \subseteq Send
    BY <1>11, <2>2, RecipientsAreUsers DEF Tell, Formed
  <2> QED BY <1>11, <2>1, <2>3, <2>4 DEF Tell, Formed, Equipped
<1> QED
  BY <1>5, <1>6, <1>7, <1>8, <1>9, <1>10, <1>11, <1>12 DEF RequestStep

LEMMA FailTyped ==
    ASSUME Formed, NEW p \in Reqs, Fail(p)
    PROVE  Formed'
<1>1. req' \in [Reqs -> Request] /\ \A q \in Reqs : Equipped(req'[q])
  BY IdleTyped, ReqTyped DEF Fail, Finish
<1>2. req[p].events \subseteq Payload
  BY DEF Formed, Request
<1>3. over' \subseteq Send
  BY <1>2, RecipientsAreUsers DEF Fail, Formed
<1> QED
  BY <1>1, <1>3 DEF Fail, Formed, Equipped

LEMMA DeliversTyped ==
    ASSUME Formed, Delivers
    PROVE  Formed'
<1>1. \A t \in Tasks : Posted(t) \subseteq Send
  BY NotifierAssumption DEF Posted, Send, EventType, Eligible
<1> QED
  BY <1>1 DEF Delivers, FanOut, FanOutFails, SendEnds, Formed, Equipped

LEMMA RecordTyped ==
    ASSUME Typed, Formed', NEW p \in Reqs, Record(p)
    PROVE  Typed'
<1>1. req[p] \in Request /\ task' \in [Tasks -> TaskRow]
  BY DEF Typed, Formed
<1>2. \A t \in Tasks, k \in EventType :
        [type |-> k, task |-> t, by |-> req[p].by, seen |-> req[p].seen,
         doer |-> task'[t].doer] \in Change
  BY <1>1 DEF Change, Request, TaskRow
<1>3. changes' \subseteq Change
  BY <1>2 DEF Record, Typed, News
<1>4. told' \in [Tasks \X Once -> Nat]
  BY DEF Record, Typed
<1> QED
  BY <1>3, <1>4 DEF Typed

LEMMA TypedStep == Typed /\ [Next]_vars => Typed'
<1> SUFFICES ASSUME Typed, [Next]_vars PROVE Typed'
  OBVIOUS
<1>1. CASE UNCHANGED vars
  BY <1>1 DEF vars, delivery, Typed, Formed, Equipped
<1>2. ASSUME NEW p \in Reqs, StepOf(p), Record(p) PROVE Typed'
  <2>1. Formed'
    BY <1>2, TaskRequestTyped, RequestStepTyped, FailTyped DEF StepOf, Typed
  <2> QED BY <1>2, <2>1, RecordTyped
<1>3. CASE Delivers
  <2>1. Formed' /\ UNCHANGED <<changes, told>>
    BY <1>3, DeliversTyped DEF Delivers, FanOut, FanOutFails, SendEnds, Typed
  <2> QED BY <2>1 DEF Typed
<1> QED
  BY <1>1, <1>2, <1>3 DEF Next, StepOf, Delivers

LEMMA TypedInit == Init => Typed
BY IdleTyped DEF Init, Typed, Formed, TaskRow, UserOrNull

\* Every row, request, event and send keeps its type.
THEOREM NotifierTyped == Spec => []TypeOK
<1>1. Typed => TypeOK
  BY DEF Typed, Formed, TypeOK
<1> QED
  BY <1>1, TypedInit, TypedStep, PTL DEF Spec

LEMMA TypedAlways == Spec => []Typed
BY TypedInit, TypedStep, PTL DEF Spec

-----------------------------------------------------------------------------
(* What every step leaves as it was                                        *)

LEMMA OthersWait ==
    ASSUME Typed, NEW p \in Reqs, StepOf(p)
    PROVE  \A q \in Reqs \ {p} : req'[q] = req[q]
<1>1. req \in [Reqs -> Request]
  BY DEF Typed, Formed
<1> QED
  BY <1>1
     DEF StepOf, TaskRequest, RequestStep, Fail, Promote, Start, Complete, Accept,
         RaiseDispute, Cancel, Confirm, AcceptWrite, StartWrite, CompleteWrite, Release,
         ConfirmWrite, CancelTx, DisputeTx, Tell, Begin, Commit, Lose, Finish

\* The steps that write a row, and the others.
LEMMA RowSteps ==
    ASSUME Next
    PROVE  \/ UNCHANGED task
           \/ \E p \in Reqs : \/ \E t \in Tasks : Promote(p, t)
                              \/ AcceptWrite(p) \/ StartWrite(p) \/ CompleteWrite(p)
                              \/ Release(p) \/ ConfirmWrite(p) \/ CancelTx(p) \/ DisputeTx(p)
<1>1. ASSUME NEW p \in Reqs, NEW t \in Tasks, TaskRequest(p, t) PROVE Promote(p, t) \/ UNCHANGED task
  BY <1>1 DEF TaskRequest, Start, Complete, Accept, RaiseDispute, Cancel, Confirm, Begin
<1>2. ASSUME NEW p \in Reqs, Tell(p) \/ Fail(p) PROVE UNCHANGED task
  BY <1>2 DEF Tell, Fail
<1>3. Delivers => UNCHANGED task
  BY DEF Delivers, FanOut, FanOutFails, SendEnds
<1> QED
  BY Zenon, <1>1, <1>2, <1>3 DEF Next, RequestStep, Delivers

\* A doer stays, and what was posted, released or disputed stays so.
LEMMA MarksStay ==
    ASSUME Typed, RowsInv, Next, NEW t \in Tasks
    PROVE  /\ Hired(t) => task'[t].doer = task[t].doer
           /\ \A k \in Once : Done(t, k) => Done(t, k)'
           /\ RowSound(t)'
<1> DEFINE Goal == /\ Hired(t) => task'[t].doer = task[t].doer
                   /\ \A k \in Once : Done(t, k) => Done(t, k)'
                   /\ RowSound(t)'
<1>1. task \in [Tasks -> TaskRow] /\ RowSound(t)
  BY DEF Typed, Formed, RowsInv
<1>2. \A p \in Reqs : ReqSound(p) /\ (req[p].pc # "idle" => req[p].task \in Tasks)
                      /\ (req[p].pc = "acceptWrite" => req[p].by # NoUser)
  BY NotifierAssumption DEF RowsInv, Typed, Formed, Equipped
<1>3. CASE UNCHANGED task
  BY <1>1, <1>3 DEF RowSound, Done, Hired
<1>4. ASSUME NEW p \in Reqs, NEW s \in Tasks, Promote(p, s) PROVE Goal
  BY <1>1, <1>4 DEF Promote, TaskRow, RowSound, Done, Hired
<1>5. ASSUME NEW p \in Reqs, AcceptWrite(p) PROVE Goal
  <2>1. CASE Lose(p)
    BY <1>3, <2>1 DEF Lose
  <2>2. CASE task' = [task EXCEPT ![req[p].task].status = "ASSIGNED",
                                  ![req[p].task].doer = req[p].by]
             /\ task[req[p].task].status = "OPEN" /\ task[req[p].task].doer = NoUser
    BY <1>1, <1>2, <1>5, <2>2 DEF AcceptWrite, At, TaskRow, RowSound, Done, Hired
  <2> QED BY <1>5, <2>1, <2>2 DEF AcceptWrite
<1>6. ASSUME NEW p \in Reqs, StartWrite(p) \/ CompleteWrite(p) PROVE Goal
  BY SMTT(60), <1>1, <1>2, <1>6
     DEF StartWrite, CompleteWrite, At, ReqSound, TaskRow, RowSound, Done, Hired
<1>7. ASSUME NEW p \in Reqs, Release(p) \/ ConfirmWrite(p) PROVE Goal
  BY SMTT(60), <1>1, <1>2, <1>7
     DEF Release, ConfirmWrite, At, ReqSound, TaskRow, RowSound, Done, Hired
<1>8. ASSUME NEW p \in Reqs, CancelTx(p) PROVE Goal
  BY <1>1, <1>2, <1>8 DEF CancelTx, Lose, At, TaskRow, RowSound, Done, Hired
<1>9. ASSUME NEW p \in Reqs, DisputeTx(p) PROVE Goal
  BY <1>1, <1>2, <1>9 DEF DisputeTx, Lose, At, ReqSound, TaskRow, RowSound, Done, Hired
<1> QED
  BY <1>3, <1>4, <1>5, <1>6, <1>7, <1>8, <1>9, RowSteps

LEMMA ReqLasts ==
    ASSUME Typed, RowsInv, Next, NEW q \in Reqs, req'[q] = req[q]
    PROVE  ReqSound(q)'
<1>1. ReqSound(q)
  BY DEF RowsInv
<1>2. CASE req[q].pc = "idle"
  BY <1>1, <1>2 DEF ReqSound
<1>3. CASE req[q].pc # "idle"
  <2>1. req[q].task \in Tasks
    BY <1>3 DEF Typed, Formed, Equipped
  <2> QED BY <1>1, <2>1, MarksStay DEF ReqSound, Hired
<1> QED
  BY <1>2, <1>3

\* A request that begins has just read its task; one that goes on writes or tells.
LEMMA OwnReqSound ==
    ASSUME Typed, RowsInv, NEW p \in Reqs, StepOf(p)
    PROVE  ReqSound(p)'
<1>1. req \in [Reqs -> Request] /\ task \in [Tasks -> TaskRow] /\ req[p] \in Request
  BY DEF Typed, Formed
<1>2. \A t \in Tasks : RowSound(t)
  BY DEF RowsInv
<1>3. ASSUME NEW t \in Tasks, Promote(p, t) PROVE ReqSound(p)'
  BY <1>1, <1>3 DEF Promote, ReqSound, Idle
<1>4. ASSUME NEW t \in Tasks, NEW l, NEW by, NEW seen, NEW c,
             Begin(p, l, t, by, seen, c),
             l \in {"startWrite", "completeWrite", "release", "confirmWrite", "disputeTx"} =>
               Hired(t),
             l \in {"release", "confirmWrite", "disputeTx", "cancelTx"} => seen = task[t].doer
      PROVE  ReqSound(p)'
  <2>1. req'[p].pc = l /\ req'[p].task = t /\ req'[p].seen = seen /\ task' = task
    BY <1>1, <1>4 DEF Begin, Idle
  <2> QED BY <1>4, <2>1 DEF ReqSound, Hired
<1>5. ASSUME NEW t \in Tasks, TaskRequest(p, t), ~Promote(p, t) PROVE ReqSound(p)'
  <2>1. CASE Start(p, t) \/ Complete(p, t)
    BY <1>4, <2>1 DEF Start, Complete, Hired
  <2>2. CASE \E u \in Users : Accept(p, t, u)
    BY <1>4, <2>2 DEF Accept
  <2>3. CASE \E u \in Users : RaiseDispute(p, t, u)
    BY <1>2, <1>4, <2>3 DEF RaiseDispute, RowSound
  <2>4. CASE \E by \in Users \cup {Admin} : Cancel(p, t, by)
    BY <1>4, <2>4 DEF Cancel
  <2>5. CASE \E by \in {PosterOf[t], NoUser} : Confirm(p, t, by)
    BY <1>2, <1>4, <2>5 DEF Confirm, RowSound
  <2> QED BY <1>5, <2>1, <2>2, <2>3, <2>4, <2>5 DEF TaskRequest
<1>6. ASSUME RequestStep(p) \/ Fail(p) PROVE ReqSound(p)'
  <2>1. \/ Finish(p)
        \/ \E events : Commit(p, events)
    BY <1>6 DEF RequestStep, AcceptWrite, StartWrite, CompleteWrite, Release, ConfirmWrite,
           CancelTx, DisputeTx, Tell, Fail, Lose
  <2>2. req'[p].pc \in {"idle", "tell"}
    BY <1>1, <2>1 DEF Finish, Commit, Idle, Request
  <2> QED BY <2>2 DEF ReqSound
<1> QED
  BY <1>3, <1>5, <1>6 DEF StepOf

LEMMA RowsStep == Typed /\ RowsInv /\ [Next]_vars => RowsInv'
<1> SUFFICES ASSUME Typed, RowsInv, [Next]_vars PROVE RowsInv'
  OBVIOUS
<1>1. CASE UNCHANGED vars
  BY <1>1 DEF vars, RowsInv, RowSound, ReqSound, Hired
<1>2. CASE Next
  <2>1. \A t \in Tasks : RowSound(t)'
    BY <1>2, MarksStay
  <2>2. ASSUME NEW q \in Reqs PROVE ReqSound(q)'
    <3>1. ASSUME NEW p \in Reqs, StepOf(p) PROVE ReqSound(q)'
      BY <1>2, <3>1, OwnReqSound, OthersWait, ReqLasts
    <3>2. CASE Delivers
      BY <1>2, <3>2, ReqLasts DEF Delivers, FanOut, FanOutFails, SendEnds
    <3> QED BY <1>2, <3>1, <3>2 DEF Next, StepOf, Delivers
  <2> QED BY <2>1, <2>2 DEF RowsInv
<1> QED
  BY <1>1, <1>2

LEMMA RowsInit == Init => RowsInv
BY DEF Init, RowsInv, RowSound, ReqSound, Hired, Idle

LEMMA RowsAlways == Spec => []RowsInv
BY RowsInit, RowsStep, TypedAlways, PTL DEF Spec

-----------------------------------------------------------------------------
(* What a step makes of a row, and what it leaves the request to tell       *)

\* The request holds an event for everything its step made of a row, and its step,
\* or one before that cannot be undone, made the row say what each event says.
Tells(p) ==
    /\ \A t \in Tasks : \A k \in News(task'[t]) \ News(task[t]) :
         [type |-> k, task |-> t, by |-> req[p].by, seen |-> req[p].seen] \in req'[p].events
    /\ \A e \in req'[p].events :
         /\ e.task \in Tasks /\ e.by = req[p].by /\ e.seen = req[p].seen
         /\ e.type \in News(task'[e.task])
         /\ SeenRight(e.type, e.seen, task'[e.task].doer)
         /\ e.type \in Once => ~Done(e.task, e.type)
         /\ e.type \in {"TASK_CANCELLED", "TASK_DISPUTED"} => e.type \notin News(task[e.task])

\* A step that writes one row, of which it makes K at most, and tells K.
LEMMA OneRowTells ==
    ASSUME NEW p \in Reqs, NEW t \in Tasks, NEW K \in SUBSET EventType,
           \A s \in Tasks \ {t} : task'[s] = task[s],
           News(task'[t]) \ News(task[t]) \subseteq K, K \subseteq News(task'[t]),
           req'[p].events = {[type |-> k, task |-> t, by |-> req[p].by,
                              seen |-> req[p].seen] : k \in K},
           \A k \in K : /\ SeenRight(k, req[p].seen, task'[t].doer)
                        /\ k \in Once => ~Done(t, k)
                        /\ k \in {"TASK_CANCELLED", "TASK_DISPUTED"} => k \notin News(task[t])
    PROVE  Tells(p)
<1>1. ASSUME NEW s \in Tasks, NEW k \in News(task'[s]) \ News(task[s])
      PROVE  [type |-> k, task |-> s, by |-> req[p].by, seen |-> req[p].seen] \in req'[p].events
  <2>1. s = t
    BY <1>1
  <2> QED BY <1>1, <2>1
<1>2. ASSUME NEW e \in req'[p].events
      PROVE  /\ e.task \in Tasks /\ e.by = req[p].by /\ e.seen = req[p].seen
             /\ e.type \in News(task'[e.task])
             /\ SeenRight(e.type, e.seen, task'[e.task].doer)
             /\ e.type \in Once => ~Done(e.task, e.type)
             /\ e.type \in {"TASK_CANCELLED", "TASK_DISPUTED"} => e.type \notin News(task[e.task])
  <2>1. PICK k \in K : e = [type |-> k, task |-> t, by |-> req[p].by, seen |-> req[p].seen]
    BY <1>2
  <2>2. e.type = k /\ e.task = t /\ e.by = req[p].by /\ e.seen = req[p].seen
    BY <2>1
  <2> QED BY <2>2
<1> QED
  BY <1>1, <1>2 DEF Tells

LEMMA OneEventTells ==
    ASSUME NEW p \in Reqs, NEW t \in Tasks, NEW k \in EventType,
           \A s \in Tasks \ {t} : task'[s] = task[s],
           News(task'[t]) \ News(task[t]) \subseteq {k}, {k} \subseteq News(task'[t]),
           req'[p].events = {[type |-> k, task |-> t, by |-> req[p].by, seen |-> req[p].seen]},
           SeenRight(k, req[p].seen, task'[t].doer), k \in Once => ~Done(t, k),
           k \in {"TASK_CANCELLED", "TASK_DISPUTED"} => k \notin News(task[t])
    PROVE  Tells(p)
<1>1. PICK K \in SUBSET EventType : K = {k}
  OBVIOUS
<1>2. req'[p].events = {[type |-> j, task |-> t, by |-> req[p].by, seen |-> req[p].seen] : j \in K}
  BY <1>1
<1>3. \A j \in K : /\ SeenRight(j, req[p].seen, task'[t].doer)
                   /\ j \in Once => ~Done(t, j)
                   /\ j \in {"TASK_CANCELLED", "TASK_DISPUTED"} => j \notin News(task[t])
  BY <1>1
<1>4. News(task'[t]) \ News(task[t]) \subseteq K /\ K \subseteq News(task'[t])
  BY <1>1
<1> QED
  BY <1>2, <1>3, <1>4, OneRowTells

LEMMA SilentStepTells ==
    ASSUME NEW p \in Reqs, UNCHANGED task, req'[p].events = {}
    PROVE  Tells(p)
BY DEF Tells

LEMMA FinishTellsNothing ==
    ASSUME Typed, NEW p \in Reqs, Finish(p)
    PROVE  req'[p].events = {}
BY DEF Typed, Formed, Finish, Idle

LEMMA CommitHolds ==
    ASSUME Typed, NEW p \in Reqs, NEW events, Commit(p, events)
    PROVE  req'[p].events = events
BY DEF Typed, Formed, Commit, Request

LEMMA RequestTells ==
    ASSUME Typed, RowsInv, NEW p \in Reqs, NEW t \in Tasks, TaskRequest(p, t)
    PROVE  Tells(p)
<1>1. req \in [Reqs -> Request] /\ task \in [Tasks -> TaskRow]
  BY DEF Typed, Formed
<1>2. CASE Promote(p, t)
  <2>1. \A s \in Tasks \ {t} : task'[s] = task[s]
    BY <1>1, <1>2 DEF Promote
  <2>2. /\ task'[t].status = "OPEN" /\ task[t].status = "UNPAID"
        /\ task'[t].doer = task[t].doer /\ task'[t].confirmed = task[t].confirmed
        /\ task'[t].disputed = task[t].disputed
        /\ task'[t].escrow = "RELEASED" => task[t].escrow = "RELEASED"
    BY <1>1, <1>2 DEF Promote, TaskRow
  <2>3. /\ req[p].pc = "idle"
        /\ req'[p].events = {[type |-> "TASK_POSTED", task |-> t, by |-> NoUser, seen |-> NoUser]}
    BY <1>1, <1>2 DEF Promote, At, Idle
  <2>4. req[p].by = NoUser /\ req[p].seen = NoUser
    BY <2>3 DEF Typed, Formed, Equipped
  <2>5. /\ News(task'[t]) \ News(task[t]) \subseteq {"TASK_POSTED"}
        /\ {"TASK_POSTED"} \subseteq News(task'[t])
    BY <2>2 DEF News, EventType
  <2>6. ~Done(t, "TASK_POSTED") /\ SeenRight("TASK_POSTED", req[p].seen, task'[t].doer)
    BY <2>2 DEF Done, SeenRight
  <2> QED BY <2>1, <2>3, <2>4, <2>5, <2>6, OneEventTells DEF EventType
<1>3. ASSUME NEW l, NEW by, NEW seen, NEW c, Begin(p, l, t, by, seen, c) PROVE Tells(p)
  BY <1>1, <1>3, SilentStepTells DEF Begin, Idle
<1> QED
  BY <1>2, <1>3 DEF TaskRequest, Start, Complete, Accept, RaiseDispute, Cancel, Confirm

LEMMA StepTells ==
    ASSUME Typed, RowsInv, NEW p \in Reqs, RequestStep(p) \/ Fail(p)
    PROVE  Tells(p)
<1> DEFINE t == req[p].task
           Ev(k) == [type |-> k, task |-> t, by |-> req[p].by, seen |-> req[p].seen]
<1>1. req \in [Reqs -> Request] /\ task \in [Tasks -> TaskRow]
  BY DEF Typed, Formed
<1>2. ReqSound(p) /\ (req[p].pc # "idle" => t \in Tasks)
        /\ (req[p].pc = "acceptWrite" => req[p].by # NoUser)
  BY NotifierAssumption DEF RowsInv, Typed, Formed, Equipped
<1>3. ASSUME Lose(p) \/ Tell(p) \/ Fail(p) PROVE Tells(p)
  BY <1>3, FinishTellsNothing, SilentStepTells DEF Lose, Tell, Fail
<1>4. CASE AcceptWrite(p)
  <2>1. t \in Tasks /\ req[p].by # NoUser
    BY <1>2, <1>4 DEF AcceptWrite, At
  <2>2. CASE task[t].status = "OPEN" /\ task[t].doer = NoUser
    <3>1. \A s \in Tasks \ {t} : task'[s] = task[s]
      BY <1>1, <1>4, <2>2 DEF AcceptWrite
    <3>2. /\ task'[t].status = "ASSIGNED" /\ task'[t].doer = req[p].by
          /\ task'[t].confirmed = task[t].confirmed /\ task'[t].disputed = task[t].disputed
          /\ task'[t].escrow = task[t].escrow
      BY <1>1, <1>4, <2>1, <2>2 DEF AcceptWrite, TaskRow
    <3>3. req'[p].events = {Ev("TASK_ACCEPTED")}
      BY <1>4, <2>2, CommitHolds DEF AcceptWrite, Event
    <3>4. /\ News(task'[t]) \ News(task[t]) \subseteq {"TASK_ACCEPTED"}
          /\ {"TASK_ACCEPTED"} \subseteq News(task'[t])
      BY <2>1, <3>2 DEF News, EventType
    <3>5. ~Done(t, "TASK_ACCEPTED") /\ SeenRight("TASK_ACCEPTED", req[p].seen, task'[t].doer)
      BY <2>2 DEF Done, Hired, SeenRight
    <3> QED BY <2>1, <3>1, <3>3, <3>4, <3>5, OneEventTells DEF EventType
  <2> QED BY <1>3, <1>4, <2>2 DEF AcceptWrite
<1>5. CASE StartWrite(p)
  <2>1. t \in Tasks /\ Hired(t)
    BY <1>2, <1>5 DEF StartWrite, At, ReqSound
  <2>2. \A s \in Tasks \ {t} : task'[s] = task[s]
    BY <1>1, <1>5 DEF StartWrite
  <2>3. /\ task'[t].status = "ASSIGNED" /\ task'[t].doer = task[t].doer
        /\ task'[t].confirmed = task[t].confirmed /\ task'[t].disputed = task[t].disputed
        /\ task'[t].escrow = task[t].escrow
    BY <1>1, <1>5, <2>1 DEF StartWrite, TaskRow
  <2>4. News(task'[t]) \ News(task[t]) \subseteq {}
    BY <2>3 DEF News
  <2>5. req'[p].events = {Ev(k) : k \in {}}
    BY <1>5, FinishTellsNothing DEF StartWrite
  <2> QED BY <2>1, <2>2, <2>4, <2>5, OneRowTells
<1>6. CASE CompleteWrite(p)
  <2>1. t \in Tasks /\ Hired(t)
    BY <1>2, <1>6 DEF CompleteWrite, At, ReqSound
  <2>2. \A s \in Tasks \ {t} : task'[s] = task[s]
    BY <1>1, <1>6 DEF CompleteWrite
  <2>3. /\ task'[t].status = "COMPLETED" /\ task'[t].doer = task[t].doer
        /\ task'[t].confirmed = task[t].confirmed /\ task'[t].disputed = task[t].disputed
        /\ task'[t].escrow = task[t].escrow
    BY <1>1, <1>6, <2>1 DEF CompleteWrite, TaskRow
  <2>4. /\ News(task'[t]) \ News(task[t]) \subseteq {"TASK_COMPLETED"}
        /\ {"TASK_COMPLETED"} \subseteq News(task'[t])
    BY <2>3 DEF News, EventType
  <2>5. req'[p].events = {Ev("TASK_COMPLETED")}
    BY <1>6, CommitHolds DEF CompleteWrite, Event
  <2>6. "TASK_COMPLETED" \notin Once /\ SeenRight("TASK_COMPLETED", req[p].seen, task'[t].doer)
    BY DEF Once, SeenRight
  <2> QED BY <2>1, <2>2, <2>4, <2>5, <2>6, OneEventTells DEF EventType
<1>7. CASE Release(p)
  <2> DEFINE held == task[t].escrow = "HELD"
             K == (IF held THEN {"PAYMENT_RELEASED"} ELSE {})
                    \cup (IF req[p].confirms THEN {"TASK_CONFIRMED"} ELSE {})
  <2>1. t \in Tasks /\ Hired(t) /\ req[p].seen = task[t].doer
    BY <1>2, <1>7 DEF Release, At, ReqSound
  <2>2. \A s \in Tasks \ {t} : task'[s] = task[s]
    BY <1>1, <1>7 DEF Release
  <2>3. /\ task'[t].status = task[t].status /\ task'[t].doer = task[t].doer
        /\ task'[t].confirmed = (task[t].confirmed \/ req[p].confirms)
        /\ task'[t].disputed = task[t].disputed
        /\ task'[t].escrow = IF held THEN "RELEASED" ELSE task[t].escrow
    BY <1>1, <1>7, <2>1 DEF Release, TaskRow
  <2>4. News(task'[t]) \ News(task[t]) \subseteq K /\ K \subseteq News(task'[t])
    BY <2>3 DEF News, EventType
  <2>5. req'[p].events = {Ev(k) : k \in K}
    <3> DEFINE events == (IF held THEN {Event(p, "PAYMENT_RELEASED")} ELSE {})
                           \cup (IF req[p].confirms THEN {Event(p, "TASK_CONFIRMED")} ELSE {})
    <3>1. events = {Ev(k) : k \in K}
      BY DEF Event
    <3>2. req'[p].events = events
      <4>1. CASE events = {} /\ Finish(p)
        BY <4>1, FinishTellsNothing
      <4>2. CASE Commit(p, events)
        <5> HIDE DEF events
        <5> QED BY <4>2, CommitHolds
      <4> QED BY <1>7, <4>1, <4>2 DEF Release
    <3> QED BY <3>1, <3>2
  <2>6. ASSUME NEW k \in K
        PROVE  /\ SeenRight(k, req[p].seen, task'[t].doer) /\ (k \in Once => ~Done(t, k))
               /\ k \notin {"TASK_CANCELLED", "TASK_DISPUTED"}
    <3>1. SeenRight(k, req[p].seen, task'[t].doer)
      BY <2>1, <2>3 DEF SeenRight, Hired
    <3>2. k = "PAYMENT_RELEASED" => ~Done(t, k)
      BY <2>6 DEF Done
    <3> QED BY <2>6, <3>1, <3>2 DEF Once
  <2>7. K \in SUBSET EventType
    BY DEF EventType
  <2> HIDE DEF K
  <2> QED BY <2>1, <2>2, <2>4, <2>5, <2>6, <2>7, OneRowTells
<1>8. CASE ConfirmWrite(p)
  <2>1. t \in Tasks /\ Hired(t) /\ req[p].seen = task[t].doer
    BY <1>2, <1>8 DEF ConfirmWrite, At, ReqSound
  <2>2. \A s \in Tasks \ {t} : task'[s] = task[s]
    BY <1>1, <1>8 DEF ConfirmWrite
  <2>3. /\ task'[t].status = task[t].status /\ task'[t].doer = task[t].doer
        /\ task'[t].confirmed /\ task'[t].disputed = task[t].disputed
        /\ task'[t].escrow = task[t].escrow
    BY <1>1, <1>8, <2>1 DEF ConfirmWrite, TaskRow
  <2>4. /\ News(task'[t]) \ News(task[t]) \subseteq {"TASK_CONFIRMED"}
        /\ {"TASK_CONFIRMED"} \subseteq News(task'[t])
    BY <2>3 DEF News, EventType
  <2>5. req'[p].events = {Ev("TASK_CONFIRMED")}
    BY <1>8, CommitHolds DEF ConfirmWrite, Event
  <2>6. "TASK_CONFIRMED" \notin Once /\ SeenRight("TASK_CONFIRMED", req[p].seen, task'[t].doer)
    BY <2>1, <2>3 DEF Once, SeenRight, Hired
  <2> QED BY <2>1, <2>2, <2>4, <2>5, <2>6, OneEventTells DEF EventType
<1>9. CASE CancelTx(p)
  <2>1. t \in Tasks /\ req[p].seen \in {NoUser, task[t].doer}
    BY <1>2, <1>9 DEF CancelTx, At, ReqSound
  <2>2. CASE task[t].status \in {"UNPAID", "OPEN", "ASSIGNED"}
    <3>1. \A s \in Tasks \ {t} : task'[s] = task[s]
      BY <1>1, <1>9, <2>2 DEF CancelTx
    <3>2. /\ task'[t].status = "CANCELLED" /\ task'[t].doer = task[t].doer
          /\ task'[t].confirmed = task[t].confirmed /\ task'[t].disputed = task[t].disputed
          /\ task'[t].escrow = "RELEASED" => task[t].escrow = "RELEASED"
      BY <1>1, <1>9, <2>1, <2>2 DEF CancelTx, TaskRow
    <3>3. req'[p].events = {Ev("TASK_CANCELLED")}
      BY <1>9, <2>2, CommitHolds DEF CancelTx, Event
    <3>4. /\ News(task'[t]) \ News(task[t]) \subseteq {"TASK_CANCELLED"}
          /\ {"TASK_CANCELLED"} \subseteq News(task'[t])
          /\ "TASK_CANCELLED" \notin News(task[t])
      BY <2>2, <3>2 DEF News, EventType
    <3>5. "TASK_CANCELLED" \notin Once /\ SeenRight("TASK_CANCELLED", req[p].seen, task'[t].doer)
      BY <2>1, <3>2 DEF Once, SeenRight
    <3> QED BY <2>1, <3>1, <3>3, <3>4, <3>5, OneEventTells DEF EventType
  <2> QED BY <1>3, <1>9, <2>2 DEF CancelTx
<1>10. CASE DisputeTx(p)
  <2>1. t \in Tasks /\ Hired(t) /\ req[p].seen = task[t].doer
    BY <1>2, <1>10 DEF DisputeTx, At, ReqSound
  <2>2. CASE ~task[t].disputed
    <3>1. \A s \in Tasks \ {t} : task'[s] = task[s]
      BY <1>1, <1>10, <2>2 DEF DisputeTx
    <3>2. /\ task'[t].status = "DISPUTED" /\ task'[t].doer = task[t].doer
          /\ task'[t].confirmed = task[t].confirmed /\ task'[t].disputed
          /\ task'[t].escrow = "RELEASED" => task[t].escrow = "RELEASED"
      BY <1>1, <1>10, <2>1, <2>2 DEF DisputeTx, TaskRow
    <3>3. req'[p].events = {Ev("TASK_DISPUTED")}
      BY <1>10, <2>2, CommitHolds DEF DisputeTx, Event
    <3>4. /\ News(task'[t]) \ News(task[t]) \subseteq {"TASK_DISPUTED"}
          /\ {"TASK_DISPUTED"} \subseteq News(task'[t])
          /\ "TASK_DISPUTED" \notin News(task[t])
      BY <2>2, <3>2 DEF News, EventType
    <3>5. ~Done(t, "TASK_DISPUTED") /\ SeenRight("TASK_DISPUTED", req[p].seen, task'[t].doer)
      BY <2>1, <2>2, <3>2 DEF Done, SeenRight, Hired
    <3> QED BY <2>1, <3>1, <3>3, <3>4, <3>5, OneEventTells DEF EventType
  <2> QED BY <1>3, <1>10, <2>2 DEF DisputeTx
<1> QED
  BY <1>3, <1>4, <1>5, <1>6, <1>7, <1>8, <1>9, <1>10 DEF RequestStep

LEMMA EveryStepTells ==
    ASSUME Typed, RowsInv, NEW p \in Reqs, StepOf(p)
    PROVE  Tells(p)
BY RequestTells, StepTells DEF StepOf

-----------------------------------------------------------------------------
(* What the rows say, the history contains                                  *)

LEMMA HistoryGrows ==
    ASSUME Next
    PROVE  changes \subseteq changes'
BY DEF Next, Record, FanOut, FanOutFails, SendEnds

\* What a row newly says is recorded, and its event is with the request.
LEMMA NewIsRecorded ==
    ASSUME NEW p \in Reqs, Record(p), Tells(p), NEW t \in Tasks,
           NEW k \in News(task'[t]) \ News(task[t])
    PROVE  \E c \in changes' :
             /\ c.type = k /\ c.task = t /\ c.by = req[p].by /\ c.doer = task'[t].doer
             /\ EventOf(c) \in req'[p].events
<1> DEFINE c == [type |-> k, task |-> t, by |-> req[p].by, seen |-> req[p].seen,
                 doer |-> task'[t].doer]
<1>1. c \in changes'
  <2> DEFINE New(s) == {[type |-> j, task |-> s, by |-> req[p].by, seen |-> req[p].seen,
                         doer |-> task'[s].doer] : j \in News(task'[s]) \ News(task[s])}
  <2>1. c \in New(t)
    OBVIOUS
  <2>2. changes' = changes \cup UNION {New(s) : s \in Tasks}
    BY DEF Record
  <2> HIDE DEF New, c
  <2> QED BY <2>1, <2>2
<1>2. EventOf(c) = [type |-> k, task |-> t, by |-> req[p].by, seen |-> req[p].seen]
  BY DEF EventOf
<1>3. EventOf(c) \in req'[p].events
  BY <1>2 DEF Tells
<1> QED
  BY <1>1, <1>3

LEMMA RecordedIsNew ==
    ASSUME NEW p \in Reqs, Record(p), Tells(p), NEW c \in changes' \ changes
    PROVE  EventOf(c) \in req'[p].events /\ SeenRight(c.type, c.seen, c.doer)
<1>0. PICK t \in Tasks : c \in {[type |-> k, task |-> t, by |-> req[p].by, seen |-> req[p].seen,
                                 doer |-> task'[t].doer] : k \in News(task'[t]) \ News(task[t])}
  BY DEF Record
<1>1. PICK k \in News(task'[t]) \ News(task[t]) :
        c = [type |-> k, task |-> t, by |-> req[p].by, seen |-> req[p].seen,
             doer |-> task'[t].doer]
  BY <1>0
<1>2. EventOf(c) = [type |-> k, task |-> t, by |-> req[p].by, seen |-> req[p].seen]
  BY <1>1 DEF EventOf
<1>3. EventOf(c) \in req'[p].events
  BY <1>2 DEF Tells
<1>4. SeenRight(k, req[p].seen, task'[t].doer)
  BY <1>2, <1>3 DEF Tells
<1> QED
  BY <1>1, <1>3, <1>4

LEMMA HistoryStep == Typed /\ RowsInv /\ HistoryInv /\ [Next]_vars => HistoryInv'
<1> SUFFICES ASSUME Typed, RowsInv, HistoryInv, [Next]_vars PROVE HistoryInv'
  OBVIOUS
<1>1. CASE UNCHANGED vars \/ Delivers
  <2>1. UNCHANGED <<task, changes>>
    BY <1>1 DEF vars, Delivers, FanOut, FanOutFails, SendEnds
  <2> QED BY <2>1 DEF HistoryInv, Happened
<1>2. ASSUME NEW p \in Reqs, StepOf(p), Record(p) PROVE HistoryInv'
  <2>1. Tells(p) /\ Next
    BY <1>2, EveryStepTells DEF Next, StepOf
  <2>2. ASSUME NEW t \in Tasks, NEW k \in News(task'[t]) PROVE Happened(t, k)'
    <3>1. CASE k \notin News(task[t])
      BY <1>2, <2>1, <2>2, <3>1, NewIsRecorded DEF Happened
    <3>2. CASE k \in News(task[t])
      <4>1. PICK c \in changes : /\ c.type = k /\ c.task = t
                                 /\ k \in {"TASK_CONFIRMED", "PAYMENT_RELEASED"} =>
                                      c.doer = task[t].doer
        BY <3>2 DEF HistoryInv, Happened
      <4>2. k \in {"TASK_CONFIRMED", "PAYMENT_RELEASED"} => Hired(t)
        BY <3>2 DEF News, RowsInv, RowSound
      <4>3. Hired(t) => task'[t].doer = task[t].doer
        BY <2>1, MarksStay
      <4> QED BY <2>1, <4>1, <4>2, <4>3, HistoryGrows DEF Happened
    <3> QED BY <3>1, <3>2
  <2>3. \A c \in changes' : SeenRight(c.type, c.seen, c.doer)
    BY <1>2, <2>1, RecordedIsNew DEF HistoryInv
  <2> QED BY <2>2, <2>3 DEF HistoryInv, SeenRight
<1> QED
  BY <1>1, <1>2 DEF Next, StepOf, Delivers

LEMMA HistoryInit == Init => HistoryInv
BY DEF Init, HistoryInv, News

LEMMA HistoryAlways == Spec => []HistoryInv
BY HistoryInit, HistoryStep, RowsAlways, TypedAlways, PTL DEF Spec

-----------------------------------------------------------------------------
(* Who is concerned, and who is told                                        *)

\* The tiers of the listener's query are those that accept lets pass.
LEMMA TiersAgreeOnAccept ==
    ASSUME NEW t \in Tasks, NEW u \in DOMAIN TierOf
    PROVE  /\ TierOf[u] \in Tiers /\ RequiredTier[t] \in Tiers
           /\ TierOf[u] \in tiersAtOrAbove(RequiredTier[t]) <=>
                TIER_RANK[TierOf[u]] >= TIER_RANK[RequiredTier[t]]
           /\ RequiredTier[t] \in tiersUpTo(TierOf[u]) <=>
                TIER_RANK[TierOf[u]] >= TIER_RANK[RequiredTier[t]]
BY NotifierAssumption DEF Tiers, tiersAtOrAbove, tiersUpTo, TIER_RANK

LEMMA EligibleMayAccept ==
    ASSUME NEW t \in Tasks
    PROVE  Eligible(t) = {u \in Users \ Banned : MayAccept(t, u)}
BY TiersAgreeOnAccept, NotifierAssumption DEF Eligible, MayAccept

\* An event of a change of its row goes to those whom the change concerns.
LEMMA RecipientsConcerned ==
    ASSUME NEW e \in Payload, NEW c, c.type = e.type, c.task = e.task,
           SeenRight(e.type, e.seen, c.doer),
           e.type \in {"TASK_CANCELLED", "TASK_DISPUTED"} => c.by = e.by
    PROVE  Recipients(e) \subseteq Concerned(c)
<1>1. e.type \in EventType /\ e.task \in Tasks
  BY DEF Payload
<1>2. CASE e.type = "TASK_POSTED"
  BY <1>1, <1>2, EligibleMayAccept DEF Recipients, Concerned
<1>3. CASE e.type \in {"TASK_ACCEPTED", "TASK_COMPLETED"}
  BY <1>1, <1>3 DEF Recipients, Concerned
<1>4. CASE e.type \in {"TASK_CONFIRMED", "PAYMENT_RELEASED"}
  BY <1>1, <1>4 DEF Recipients, Concerned, SeenRight
<1>5. CASE e.type \in {"TASK_CANCELLED", "TASK_DISPUTED"}
  BY <1>1, <1>5 DEF Recipients, Concerned, SeenRight
<1> QED
  BY <1>1, <1>2, <1>3, <1>4, <1>5 DEF EventType

LEMMA EventOfTyped ==
    ASSUME NEW c \in Change
    PROVE  /\ EventOf(c) \in Payload
           /\ EventOf(c).type = c.type /\ EventOf(c).task = c.task
           /\ EventOf(c).by = c.by /\ EventOf(c).seen = c.seen
BY DEF EventOf, Change, Payload

LEMMA ConcernedRecipients ==
    ASSUME NEW c \in Change, SeenRight(c.type, c.seen, c.doer), NEW u \in Concerned(c)
    PROVE  \/ u \in Recipients(EventOf(c))
           \/ c.type = "TASK_CANCELLED" /\ u = c.doer /\ c.seen = NoUser
<1>1. c.type \in EventType /\ c.task \in Tasks
  BY DEF Change
<1>2. PICK e : e = EventOf(c)
  OBVIOUS
<1>0. e.type = c.type /\ e.task = c.task /\ e.by = c.by /\ e.seen = c.seen
  BY <1>2, EventOfTyped
<1> SUFFICES u \in Recipients(e) \/ (c.type = "TASK_CANCELLED" /\ u = c.doer /\ c.seen = NoUser)
  BY <1>2
<1>3. CASE c.type = "TASK_POSTED"
  BY <1>0, <1>1, <1>3, EligibleMayAccept DEF Recipients, Concerned
<1>4. CASE c.type \in {"TASK_ACCEPTED", "TASK_COMPLETED"}
  BY <1>0, <1>1, <1>4 DEF Recipients, Concerned
<1>5. CASE c.type \in {"TASK_CONFIRMED", "PAYMENT_RELEASED"}
  BY <1>0, <1>1, <1>5 DEF Recipients, Concerned, SeenRight
<1>6. CASE c.type \in {"TASK_CANCELLED", "TASK_DISPUTED"}
  BY <1>0, <1>1, <1>6 DEF Recipients, Concerned, SeenRight
<1> QED
  BY <1>1, <1>3, <1>4, <1>5, <1>6 DEF EventType

\* Behind an event stands the change that the row still shows: for a cancel and a
\* dispute the request's own, for the others the first of its kind.
LEMMA NewEventsAreBacked ==
    ASSUME Typed', HistoryInv', NEW p \in Reqs, Record(p), Tells(p), NEW e \in req'[p].events
    PROVE  Backed(e)'
<1>1. /\ e.task \in Tasks /\ e.by = req[p].by /\ e.seen = req[p].seen
      /\ e.type \in News(task'[e.task]) /\ SeenRight(e.type, e.seen, task'[e.task].doer)
      /\ e.type \in {"TASK_CANCELLED", "TASK_DISPUTED"} => e.type \notin News(task[e.task])
  BY DEF Tells
<1>2. e \in Payload
  BY DEF Typed, Formed, Request
<1>3. CASE e.type \in {"TASK_CANCELLED", "TASK_DISPUTED"}
  <2>1. PICK c \in changes' : /\ c.type = e.type /\ c.task = e.task
                              /\ c.by = req[p].by /\ c.doer = task'[e.task].doer
    BY <1>1, <1>3, NewIsRecorded
  <2>2. Recipients(e) \subseteq Concerned(c)
    BY <1>1, <1>2, <2>1, RecipientsConcerned
  <2> QED BY <2>1, <2>2 DEF Backed
<1>4. CASE e.type \notin {"TASK_CANCELLED", "TASK_DISPUTED"}
  <2>1. PICK c \in changes' : /\ c.type = e.type /\ c.task = e.task
                              /\ e.type \in {"TASK_CONFIRMED", "PAYMENT_RELEASED"} =>
                                   c.doer = task'[e.task].doer
    BY <1>1 DEF HistoryInv, Happened
  <2>2. SeenRight(e.type, e.seen, c.doer)
    BY <1>1, <1>4, <2>1 DEF SeenRight
  <2>3. Recipients(e) \subseteq Concerned(c)
    BY <1>2, <1>4, <2>1, <2>2, RecipientsConcerned
  <2> QED BY <2>1, <2>3 DEF Backed
<1> QED
  BY <1>3, <1>4

-----------------------------------------------------------------------------
(* A change and its sends                                                   *)

LEMMA AnnouncedSends ==
    ASSUME NEW e, Announces(e)
    PROVE  SendsOf(e) = Posted(e.task)
BY DEF Announces, SendsOf, Posted, Recipients

\* Most steps tell of nothing.
LEMMA StepKinds ==
    ASSUME NEW p \in Reqs, StepOf(p)
    PROVE  UNCHANGED <<fanouts, sends, over>> \/ Tell(p) \/ Fail(p)
<1>1. ASSUME NEW t \in Tasks, TaskRequest(p, t) PROVE UNCHANGED <<fanouts, sends, over>>
  BY <1>1 DEF TaskRequest, Promote, Start, Complete, Accept, RaiseDispute, Cancel, Confirm,
              Begin, delivery
<1>2. ASSUME RequestStep(p) PROVE UNCHANGED <<fanouts, sends, over>> \/ Tell(p)
  BY <1>2 DEF RequestStep, AcceptWrite, StartWrite, CompleteWrite, Release, ConfirmWrite,
              CancelTx, DisputeTx, Commit, Lose, delivery
<1> QED
  BY <1>1, <1>2 DEF StepOf

LEMMA SendsStay ==
    ASSUME Next
    PROVE  sends \cup over \subseteq sends' \cup over'
<1>1. ASSUME NEW p \in Reqs, StepOf(p) PROVE sends \cup over \subseteq sends' \cup over'
  BY <1>1, StepKinds DEF Tell, Fail
<1>2. CASE Delivers
  BY <1>2 DEF Delivers, FanOut, FanOutFails, SendEnds
<1> QED
  BY <1>1, <1>2 DEF Next, StepOf, Delivers

\* An event is told when the request or the fan-out that holds it moves on.
LEMMA AnsweredLasts ==
    ASSUME Typed, Next, NEW c \in changes, Answered(c)
    PROVE  Answered(c)'
<1>1. CASE SendsOf(EventOf(c)) \subseteq sends \cup over
  BY <1>1, SendsStay DEF Answered
<1>0. EventOf(c).type = c.type /\ EventOf(c).task = c.task
  BY EventOfTyped DEF Typed
<1>2. ASSUME NEW q \in Reqs, EventOf(c) \in req[q].events PROVE Answered(c)'
  <2>1. req[q].pc = "tell"
    BY <1>2 DEF Typed, Formed, Equipped
  <2>2. CASE req'[q] = req[q]
    BY <1>2, <2>2 DEF Answered, Pending
  <2>3. CASE StepOf(q)
    <3>1. Tell(q) \/ Fail(q)
      BY <2>1, <2>3
         DEF StepOf, TaskRequest, RequestStep, Promote, Start, Complete, Accept,
             RaiseDispute, Cancel, Confirm, AcceptWrite, StartWrite, CompleteWrite, Release,
             ConfirmWrite, CancelTx, DisputeTx, Begin, At
    <3>2. CASE Tell(q) /\ Announces(c)
      <4>1. c.task \in fanouts'
        BY <1>0, <1>2, <3>2 DEF Tell, Announces
      <4> QED BY <3>2, <4>1 DEF Answered, Pending
    <3>3. CASE Tell(q) /\ ~Announces(c)
      BY <1>0, <1>2, <3>3 DEF Tell, Answered, Announces
    <3>4. CASE Fail(q)
      BY <1>2, <3>4 DEF Fail, Answered
    <3> QED BY <3>1, <3>2, <3>3, <3>4
  <2>4. ASSUME NEW p \in Reqs, StepOf(p), p # q PROVE req'[q] = req[q]
    BY <2>4, OthersWait
  <2>5. CASE Delivers
    BY <2>2, <2>5 DEF Delivers, FanOut, FanOutFails, SendEnds
  <2> QED BY <2>2, <2>3, <2>4, <2>5 DEF Next, StepOf, Delivers
<1>3. CASE Announces(c) /\ c.task \in fanouts
  <2>1. CASE c.task \in fanouts'
    BY <1>3, <2>1 DEF Answered, Pending
  <2>2. CASE FanOut(c.task) \/ FanOutFails(c.task)
    <3>1. SendsOf(EventOf(c)) = Posted(c.task)
      BY <1>0, <1>3, AnnouncedSends DEF Announces
    <3> QED BY <2>2, <3>1 DEF FanOut, FanOutFails, Answered
  <2>3. c.task \in fanouts' \/ FanOut(c.task) \/ FanOutFails(c.task)
    <3>1. ASSUME NEW p \in Reqs, StepOf(p) PROVE c.task \in fanouts'
      BY <1>3, <3>1, StepKinds DEF Tell, Fail
    <3> QED BY <1>3, <3>1 DEF Next, StepOf, FanOut, FanOutFails, SendEnds
  <2> QED BY <2>1, <2>2, <2>3
<1> QED
  BY <1>1, <1>2, <1>3 DEF Answered, Pending

\* A send that is new comes from an event that a change stands behind.
LEMMA NewSendsAreTrue ==
    ASSUME Typed, SendsInv, Next, NEW s \in (sends' \cup over') \ (sends \cup over)
    PROVE  \E c \in changes : c.type = s.type /\ c.task = s.task /\ s.to \in Concerned(c)
<1>1. ASSUME NEW p \in Reqs, Tell(p) \/ Fail(p)
      PROVE  \E c \in changes : c.type = s.type /\ c.task = s.task /\ s.to \in Concerned(c)
  <2>1. PICK e \in req[p].events : s \in SendsOf(e)
    BY <1>1 DEF Tell, Fail
  <2>2. s.type = e.type /\ s.task = e.task /\ s.to \in Recipients(e)
    BY <2>1 DEF SendsOf
  <2> QED BY <2>2 DEF SendsInv, Backed
<1>2. ASSUME NEW t \in Tasks, FanOut(t) \/ FanOutFails(t)
      PROVE  \E c \in changes : c.type = s.type /\ c.task = s.task /\ s.to \in Concerned(c)
  <2>1. s \in Posted(t) /\ t \in fanouts
    BY <1>2 DEF FanOut, FanOutFails
  <2>2. PICK c \in changes : c.type = "TASK_POSTED" /\ c.task = t
    BY <2>1 DEF SendsInv, Announces
  <2>3. s.type = "TASK_POSTED" /\ s.task = t /\ s.to \in Eligible(t)
    BY <2>1 DEF Posted
  <2>4. s.to \in Concerned(c)
    BY <2>2, <2>3, EligibleMayAccept DEF Concerned
  <2> QED BY <2>2, <2>3, <2>4
<1>3. ASSUME NEW p \in Reqs, StepOf(p) PROVE Tell(p) \/ Fail(p)
  BY <1>3, StepKinds
<1>4. ~\E r \in sends : SendEnds(r)
  BY DEF SendEnds
<1> QED
  BY <1>1, <1>2, <1>3, <1>4 DEF Next, StepOf

LEMMA SendsStep ==
    ASSUME Typed, Typed', RowsInv, HistoryInv', SendsInv, [Next]_vars
    PROVE  SendsInv'
<1>1. CASE UNCHANGED vars
  BY <1>1 DEF vars, delivery, SendsInv, TaskNoticesAreTrue, Backed, Answered, Pending
<1>2. CASE Next
  <2>0. changes \subseteq changes'
    BY <1>2, HistoryGrows
  <2>1. ASSUME NEW q \in Reqs, NEW e \in req'[q].events PROVE Backed(e)'
    <3>1. CASE e \in req[q].events
      BY <2>0, <3>1 DEF SendsInv, Backed
    <3>2. ASSUME NEW p \in Reqs, StepOf(p), Record(p), e \notin req[q].events PROVE Backed(e)'
      <4>1. p = q
        BY <2>1, <3>2, OthersWait
      <4> QED BY <2>1, <3>2, <4>1, EveryStepTells, NewEventsAreBacked
    <3>3. CASE Delivers
      BY <2>1, <3>1, <3>3 DEF Delivers, FanOut, FanOutFails, SendEnds
    <3> QED BY <1>2, <3>1, <3>2, <3>3 DEF Next, StepOf, Delivers
  <2>2. ASSUME NEW t \in fanouts' PROVE \E c \in changes' : Announces(c) /\ c.task = t
    <3>1. CASE t \in fanouts
      BY <2>0, <3>1 DEF SendsInv
    <3>2. ASSUME NEW p \in Reqs, Tell(p), t \notin fanouts
          PROVE  \E c \in changes' : Announces(c) /\ c.task = t
      <4>1. PICK e \in req[p].events : Announces(e) /\ e.task = t
        BY <2>2, <3>2 DEF Tell
      <4>2. Backed(e)
        BY DEF SendsInv
      <4> QED BY <2>0, <4>1, <4>2 DEF Backed, Announces
    <3>3. ASSUME NEW p \in Reqs, StepOf(p) PROVE Tell(p) \/ fanouts' \subseteq fanouts
      BY <3>3, StepKinds DEF Fail
    <3>4. CASE Delivers
      BY <2>2, <3>1, <3>4 DEF Delivers, FanOut, FanOutFails, SendEnds
    <3> QED BY <1>2, <2>2, <3>1, <3>2, <3>3, <3>4 DEF Next, StepOf, Delivers
  <2>3. TaskNoticesAreTrue'
    BY <1>2, <2>0, NewSendsAreTrue DEF SendsInv, TaskNoticesAreTrue
  <2>4. ASSUME NEW c \in changes' PROVE Answered(c)'
    <3>1. CASE c \in changes
      BY <1>2, <3>1, AnsweredLasts DEF SendsInv
    <3>2. ASSUME NEW p \in Reqs, StepOf(p), Record(p), c \notin changes PROVE Answered(c)'
      BY <2>4, <3>2, EveryStepTells, RecordedIsNew DEF Answered, Pending
    <3>3. CASE Delivers
      BY <2>4, <3>1, <3>3 DEF Delivers, FanOut, FanOutFails, SendEnds
    <3> QED BY <1>2, <3>1, <3>2, <3>3 DEF Next, StepOf, Delivers
  <2> QED BY <2>1, <2>2, <2>3, <2>4 DEF SendsInv
<1> QED
  BY <1>1, <1>2

LEMMA SendsInit == Init => SendsInv
BY DEF Init, SendsInv, TaskNoticesAreTrue, Idle

LEMMA SendsAlways == Spec => []SendsInv
<1>1. Typed /\ Typed' /\ RowsInv /\ HistoryInv' /\ SendsInv /\ [Next]_vars => SendsInv'
  BY SendsStep
<1> QED
  BY <1>1, SendsInit, HistoryAlways, RowsAlways, TypedAlways, PTL DEF Spec

\* Whoever is told of something, the row really came to say so, and it concerns him
\* (the listener over what TasksService and PaymentsService read before they committed).
THEOREM NoticesConcern == Spec => []TaskNoticesAreTrue
<1>1. SendsInv => TaskNoticesAreTrue
  BY DEF SendsInv
<1> QED
  BY <1>1, SendsAlways, PTL

\* Whatever became of a row, whoever is concerned is told, or will be by the request
\* that still holds the event, but for the doer hired while the cancel was past its
\* read (executeCancel).
THEOREM ConcernedAreTold == Spec => []PartiesTold
<1>1. Typed /\ HistoryInv /\ SendsInv => PartiesTold
  <2> SUFFICES ASSUME Typed, HistoryInv, SendsInv, NEW c \in changes, NEW u \in Concerned(c)
               PROVE  \/ About(c, u) \in sends \cup over
                      \/ Pending(c)
                      \/ c.type = "TASK_CANCELLED" /\ u = c.doer /\ c.seen = NoUser
    BY DEF PartiesTold
  <2>1. c \in Change /\ SeenRight(c.type, c.seen, c.doer) /\ Answered(c)
    BY DEF Typed, HistoryInv, SendsInv
  <2>2. \/ u \in Recipients(EventOf(c))
        \/ c.type = "TASK_CANCELLED" /\ u = c.doer /\ c.seen = NoUser
    BY <2>1, ConcernedRecipients
  <2>3. EventOf(c).type = c.type /\ EventOf(c).task = c.task
    BY <2>1, EventOfTyped
  <2>4. u \in Recipients(EventOf(c)) => About(c, u) \in SendsOf(EventOf(c))
    BY <2>3 DEF About, SendsOf
  <2> QED BY <2>1, <2>2, <2>4 DEF Answered
<1> QED
  BY <1>1, SendsAlways, HistoryAlways, TypedAlways, PTL

\* Nobody approved is told of, or shown, a task that accept would refuse him for his
\* tier, for any tiers of tasks and users (listener, search and accept).
THEOREM TiersAlwaysAgree == Spec => []TiersAgree
<1>1. TiersAgree
  BY TiersAgreeOnAccept, NotifierAssumption DEF TiersAgree, Shows, MayAccept, Eligible
<1> QED
  BY <1>1, PTL

-----------------------------------------------------------------------------
(* One of many tells                                                        *)

\* A request that sets out to tell found no mark in the row, and left one.
LEMMA OnceStep == Typed /\ RowsInv /\ OnceInv /\ [Next]_vars => OnceInv'
<1> SUFFICES ASSUME Typed, RowsInv, OnceInv, [Next]_vars, NEW t \in Tasks, NEW k \in Once
             PROVE  told'[<<t, k>>] <= 1 /\ (told'[<<t, k>>] = 1 => Done(t, k)')
  BY DEF OnceInv
<1>1. told[<<t, k>>] \in Nat /\ told[<<t, k>>] <= 1 /\ (told[<<t, k>>] = 1 => Done(t, k))
  BY DEF Typed, OnceInv
<1>2. CASE UNCHANGED vars
  BY <1>1, <1>2 DEF vars, Done, Hired
<1>3. CASE Next
  <2>1. Done(t, k) => Done(t, k)'
    BY <1>3, MarksStay
  <2>2. CASE Delivers
    BY <1>1, <2>1, <2>2 DEF Delivers, FanOut, FanOutFails, SendEnds
  <2>3. ASSUME NEW p \in Reqs, StepOf(p), Record(p)
        PROVE  told'[<<t, k>>] <= 1 /\ (told'[<<t, k>>] = 1 => Done(t, k)')
    <3>1. told'[<<t, k>>] = IF \E e \in req'[p].events \ req[p].events : <<t, k>> = <<e.task, e.type>>
                            THEN told[<<t, k>>] + 1 ELSE told[<<t, k>>]
      BY <2>3 DEF Record
    <3>2. CASE \E e \in req'[p].events \ req[p].events : <<t, k>> = <<e.task, e.type>>
      <4>1. PICK e \in req'[p].events : e.task = t /\ e.type = k
        BY <3>2
      <4>2. ~Done(t, k) /\ k \in News(task'[t])
        BY <2>3, <4>1, EveryStepTells DEF Tells
      <4>3. Done(t, k)'
        BY <4>2 DEF News, Done, Hired
      <4>4. told[<<t, k>>] = 0
        BY <1>1, <4>2
      <4> QED BY <3>1, <3>2, <4>3, <4>4
    <3>3. CASE ~\E e \in req'[p].events \ req[p].events : <<t, k>> = <<e.task, e.type>>
      BY <1>1, <2>1, <3>1, <3>3
    <3> QED BY <3>2, <3>3
  <2> QED BY <1>3, <2>2, <2>3 DEF Next, StepOf, Delivers
<1> QED
  BY <1>2, <1>3

LEMMA OnceInit == Init => OnceInv
BY DEF Init, OnceInv

\* Of any number of requests that race to post, take, pay or dispute a task one sets
\* out to tell of it, once (accept, releaseEscrow, raiseDispute, the webhook).
THEOREM NewsOnce == Spec => []ToldOnce
<1>1. OnceInv => ToldOnce
  BY DEF OnceInv, ToldOnce
<1> QED
  BY <1>1, OnceInit, OnceStep, RowsAlways, TypedAlways, PTL DEF Spec
=============================================================================
