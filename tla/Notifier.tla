------------------------------ MODULE Notifier ------------------------------
(***************************************************************************)
(* How the users of a task are told what became of it: the events that     *)
(* TasksService and PaymentsService emit after they committed, with the    *)
(* values they read before, the listener that picks the recipients, and    *)
(* NotificationsService, which persists and pushes to each of them.        *)
(* Nothing of this is in the transaction, and nothing is ever retried.     *)
(* What happened is read off the rows (Record), what is told comes from    *)
(* the code that emits (Commit): neither is made from the other.           *)
(***************************************************************************)
EXTENDS Naturals, FiniteSets

CONSTANTS
    Tasks, Users,
    NoTask, NoUser,     \* the null of a task id and of a user id
    PosterOf,           \* the user that posts a task
    RequiredTier,       \* Task.requiredTier
    CashTasks,          \* the tasks of paymentMode CASH: a posting fee, no escrow
    TierOf,             \* the tier of the users whose KYC is APPROVED
    Banned,             \* the users with isBanned
    Admin,              \* "admin:<phone>": not a user id
    Reqs                \* slots for requests being served concurrently

Tiers == {"BRONZE", "SILVER", "GOLD"}

ASSUME NotifierAssumption ==
    /\ PosterOf \in [Tasks -> Users]
    /\ RequiredTier \in [Tasks -> Tiers]
    /\ CashTasks \subseteq Tasks
    /\ DOMAIN TierOf \subseteq Users
    /\ \A u \in DOMAIN TierOf : TierOf[u] \in Tiers
    /\ Banned \subseteq Users
    /\ NoTask \notin Tasks
    /\ NoUser \notin Users
    /\ Admin \notin Users \cup {NoUser}

VARIABLES
    task,       \* Task rows, with what matters of the escrow and the dispute
    req,        \* the requests in flight
    changes,    \* history: what became of the rows, whoever tells of it
    fanouts,    \* the handlers of TASK_POSTED that look for doers
    sends,      \* the sends in flight
    over,       \* history: the sends that ended, well or with an error, and those
                \* given up with a request or a fan-out that failed; the
                \* Notification rows are among them
    told        \* history: how many requests set out to tell of it

delivery == <<fanouts, sends, over>>
vars == <<task, req, changes, told, delivery>>

-----------------------------------------------------------------------------
UserOrNull == Users \cup {NoUser}

\* IN_PROGRESS counts as ASSIGNED; before the payment the task is "UNPAID".
\* escrow is Escrow.status, "NONE" for a CASH task; confirmed: confirmedAt is set;
\* disputed: there is a Dispute.
TaskRow == [status : {"UNPAID", "OPEN", "ASSIGNED", "COMPLETED", "CANCELLED", "DISPUTED"},
            doer : UserOrNull,
            escrow : {"NONE", "PENDING", "HELD", "RELEASED", "REFUND_PENDING", "DISPUTED"},
            confirmed : BOOLEAN, disputed : BOOLEAN]

EventType == {"TASK_POSTED", "TASK_ACCEPTED", "TASK_COMPLETED", "TASK_CONFIRMED",
              "PAYMENT_RELEASED", "TASK_CANCELLED", "TASK_DISPUTED"}

\* The events of changes that can be made only once.
Once == {"TASK_POSTED", "TASK_ACCEPTED", "PAYMENT_RELEASED", "TASK_DISPUTED"}

\* A payload: seen is the doer that it names, as the request read him.
Payload == [type : EventType, task : Tasks, by : UserOrNull \cup {Admin},
            seen : UserOrNull]

Send == [type : EventType, task : Tasks, to : Users]

Request == [pc : {"idle", "acceptWrite", "startWrite", "completeWrite", "release",
                  "confirmWrite", "cancelTx", "disputeTx", "tell"},
            task : Tasks \cup {NoTask},
            by : UserOrNull \cup {Admin},
            seen : UserOrNull,          \* task.doerId as it was read
            confirms : BOOLEAN,         \* confirm, not the auto-release
            events : SUBSET Payload]    \* what it will emit

Idle == [pc |-> "idle", task |-> NoTask, by |-> NoUser, seen |-> NoUser,
         confirms |-> FALSE, events |-> {}]

At(p, l) == req[p].pc = l

Begin(p, l, t, by, seen, confirms) ==
    /\ At(p, "idle")
    /\ req' = [req EXCEPT ![p] = [Idle EXCEPT !.pc = l, !.task = t, !.by = by,
                                              !.seen = seen, !.confirms = confirms]]
    /\ UNCHANGED <<task, delivery>>

Finish(p) == req' = [req EXCEPT ![p] = Idle]

\* The statement or transaction has committed, and the request goes on to emit.
Commit(p, events) ==
    /\ req' = [req EXCEPT ![p].pc = "tell", ![p].events = events]
    /\ UNCHANGED delivery

Lose(p) == Finish(p) /\ UNCHANGED <<task, delivery>>

Event(p, type) == [type |-> type, task |-> req[p].task, by |-> req[p].by,
                   seen |-> req[p].seen]

-----------------------------------------------------------------------------
(* History: what happens to a row.                                         *)

\* What a row says has happened to its task.
News(row) ==
    {k \in EventType :
        \/ k = "TASK_POSTED" /\ row.status = "OPEN"
        \/ k = "TASK_ACCEPTED" /\ row.doer # NoUser
        \/ k = "TASK_COMPLETED" /\ row.status = "COMPLETED"
        \/ k = "TASK_CONFIRMED" /\ row.confirmed
        \/ k = "PAYMENT_RELEASED" /\ row.escrow = "RELEASED"
        \/ k = "TASK_CANCELLED" /\ row.status = "CANCELLED"
        \/ k = "TASK_DISPUTED" /\ row.disputed}

\* by whom, for whom he took the doer, and who is the doer after the change
Change == [type : EventType, task : Tasks, by : UserOrNull \cup {Admin},
           seen : UserOrNull, doer : UserOrNull]

\* Whatever a step of the request made of the rows that they did not say before,
\* and whatever it left the request to tell.
Record(p) ==
    /\ changes' = changes \cup
         UNION {{[type |-> k, task |-> t, by |-> req[p].by, seen |-> req[p].seen,
                  doer |-> task'[t].doer] : k \in News(task'[t]) \ News(task[t])} : t \in Tasks}
    /\ told' = [x \in Tasks \X Once |->
                  IF \E e \in req'[p].events \ req[p].events : x = <<e.task, e.type>>
                  THEN told[x] + 1 ELSE told[x]]

-----------------------------------------------------------------------------
(* Tiers: accept's check, and the listener's query.                        *)

TIER_RANK == [BRONZE |-> 0, SILVER |-> 1, GOLD |-> 2]

MayAccept(t, u) ==
    /\ u # PosterOf[t]
    /\ u \in DOMAIN TierOf
    /\ TIER_RANK[TierOf[u]] >= TIER_RANK[RequiredTier[t]]

\* The fan-out without the tiers (mutant).
EligibleAnyTier(t) == {u \in DOMAIN TierOf \ Banned : u # PosterOf[t]}

tiersAtOrAbove(tier) == {r \in Tiers : TIER_RANK[r] >= TIER_RANK[tier]}

Eligible(t) ==
    {u \in DOMAIN TierOf \ Banned :
        TierOf[u] \in tiersAtOrAbove(RequiredTier[t]) /\ u # PosterOf[t]}

\* tiersUpTo: the tiers of the tasks that the search shows to a user, as it
\* takes one without an approved profile for BRONZE.
tiersUpTo(tier) ==
    CASE tier = "GOLD" -> {"BRONZE", "SILVER", "GOLD"}
      [] tier = "SILVER" -> {"BRONZE", "SILVER"}
      [] OTHER -> {"BRONZE"}

Shows(t, u) ==
    /\ task[t].status = "OPEN"
    /\ RequiredTier[t] \in tiersUpTo(IF u \in DOMAIN TierOf THEN TierOf[u] ELSE "BRONZE")
    /\ PosterOf[t] # u

-----------------------------------------------------------------------------
(* The requests: what they check, what they commit, what they emit.        *)

\* A webhook promotes the task, paid for in escrow or its fee, and goes on to
\* announceTask.
\* The webhook that does not look at the count of its CAS (mutant).
PromoteUncounted(p, t) ==
    /\ At(p, "idle")
    /\ task' = IF task[t].status = "UNPAID"
               THEN [task EXCEPT ![t].status = "OPEN",
                                 ![t].escrow = IF t \in CashTasks THEN @ ELSE "HELD"]
               ELSE task
    /\ req' = [req EXCEPT ![p] =
                 [Idle EXCEPT !.pc = "tell", !.task = t,
                              !.events = {[type |-> "TASK_POSTED", task |-> t, by |-> NoUser,
                                           seen |-> NoUser]}]]
    /\ UNCHANGED delivery

Promote(p, t) ==
    /\ At(p, "idle")
    /\ task[t].status = "UNPAID"
    /\ task' = [task EXCEPT ![t].status = "OPEN",
                            ![t].escrow = IF t \in CashTasks THEN @ ELSE "HELD"]
    /\ req' = [req EXCEPT ![p] =
                 [Idle EXCEPT !.pc = "tell", !.task = t,
                              !.events = {[type |-> "TASK_POSTED", task |-> t, by |-> NoUser,
                                           seen |-> NoUser]}]]
    /\ UNCHANGED delivery

\* A request of a banned user does not get past the JWT guard.
Accept(p, t, d) ==
    /\ task[t].status = "OPEN"
    /\ MayAccept(t, d)
    /\ d \notin Banned
    /\ t \in CashTasks \/ task[t].escrow = "HELD"
    /\ Begin(p, "acceptWrite", t, d, d, FALSE)

\* accept that does not look at the count of its CAS (mutant).
AcceptUncounted(p) ==
    LET t == req[p].task IN
    /\ At(p, "acceptWrite")
    /\ task' = IF task[t].status = "OPEN" /\ task[t].doer = NoUser
               THEN [task EXCEPT ![t].status = "ASSIGNED", ![t].doer = req[p].by]
               ELSE task
    /\ Commit(p, {Event(p, "TASK_ACCEPTED")})

AcceptWrite(p) ==
    LET t == req[p].task IN
    /\ At(p, "acceptWrite")
    /\ IF task[t].status = "OPEN" /\ task[t].doer = NoUser
       THEN /\ task' = [task EXCEPT ![t].status = "ASSIGNED", ![t].doer = req[p].by]
            /\ Commit(p, {Event(p, "TASK_ACCEPTED")})
       ELSE Lose(p)

Start(p, t) ==
    /\ task[t].status = "ASSIGNED"
    /\ task[t].doer # NoUser
    /\ Begin(p, "startWrite", t, task[t].doer, task[t].doer, FALSE)

StartWrite(p) ==
    /\ At(p, "startWrite")
    /\ task' = [task EXCEPT ![req[p].task].status = "ASSIGNED"]
    /\ Finish(p)
    /\ UNCHANGED delivery

Complete(p, t) ==
    /\ task[t].status = "ASSIGNED"
    /\ task[t].doer # NoUser
    /\ Begin(p, "completeWrite", t, task[t].doer, task[t].doer, FALSE)

CompleteWrite(p) ==
    /\ At(p, "completeWrite")
    /\ task' = [task EXCEPT ![req[p].task].status = "COMPLETED"]
    /\ Commit(p, {Event(p, "TASK_COMPLETED")})

\* confirm, or the auto-release on behalf of nobody, which finds escrows only.
Confirm(p, t, by) ==
    /\ task[t].status = "COMPLETED"
    /\ IF t \in CashTasks
       THEN by # NoUser /\ Begin(p, "confirmWrite", t, by, task[t].doer, TRUE)
       ELSE task[t].escrow = "HELD" /\ Begin(p, "release", t, by, task[t].doer, by # NoUser)

\* releaseEscrow that does not look at the count of its CAS (mutant).
ReleaseUncounted(p) ==
    LET t == req[p].task IN
    /\ At(p, "release")
    /\ task' = [task EXCEPT ![t].escrow = IF @ = "HELD" THEN "RELEASED" ELSE @,
                            ![t].confirmed = @ \/ req[p].confirms]
    /\ Commit(p, {Event(p, "PAYMENT_RELEASED")} \cup
                 (IF req[p].confirms THEN {Event(p, "TASK_CONFIRMED")} ELSE {}))

\* confirm tells of the confirmation even when another one has released.
Release(p) ==
    LET t == req[p].task
        events == (IF task[t].escrow = "HELD" THEN {Event(p, "PAYMENT_RELEASED")} ELSE {})
                    \cup (IF req[p].confirms THEN {Event(p, "TASK_CONFIRMED")} ELSE {})
    IN
    /\ At(p, "release")
    /\ task' = [task EXCEPT ![t].escrow = IF @ = "HELD" THEN "RELEASED" ELSE @,
                            ![t].confirmed = @ \/ req[p].confirms]
    /\ IF events = {} THEN Finish(p) /\ UNCHANGED delivery
       ELSE Commit(p, events)

\* confirm of a CASH task, which moves no money and can be repeated.
ConfirmWrite(p) ==
    /\ At(p, "confirmWrite")
    /\ task' = [task EXCEPT ![req[p].task].confirmed = TRUE]
    /\ Commit(p, {Event(p, "TASK_CONFIRMED")})

\* cancel by the poster or the doer, forceCancel by an admin.
Cancel(p, t, by) ==
    /\ by \in {PosterOf[t], task[t].doer, Admin} \ {NoUser}
    /\ task[t].status \in {"UNPAID", "OPEN", "ASSIGNED"}
    /\ Begin(p, "cancelTx", t, by, task[t].doer, FALSE)

CancelTx(p) ==
    LET t == req[p].task IN
    /\ At(p, "cancelTx")
    /\ IF task[t].status \in {"UNPAID", "OPEN", "ASSIGNED"}
       THEN /\ task' = [task EXCEPT ![t].status = "CANCELLED",
                                    ![t].escrow = IF @ = "HELD" THEN "REFUND_PENDING" ELSE @]
            /\ Commit(p, {Event(p, "TASK_CANCELLED")})
       ELSE Lose(p)

RaiseDispute(p, t, by) ==
    /\ by \in {PosterOf[t], task[t].doer} \ {NoUser}
    /\ task[t].status \in {"ASSIGNED", "COMPLETED"}
    /\ Begin(p, "disputeTx", t, by, task[t].doer, FALSE)

DisputeTx(p) ==
    LET t == req[p].task IN
    /\ At(p, "disputeTx")
    /\ IF ~task[t].disputed
       THEN /\ task' = [task EXCEPT ![t].status = "DISPUTED", ![t].disputed = TRUE,
                                    ![t].escrow = IF t \in CashTasks THEN @ ELSE "DISPUTED"]
            /\ Commit(p, {Event(p, "TASK_DISPUTED")})
       ELSE Lose(p)

-----------------------------------------------------------------------------
(* The listener and the service.                                           *)

\* TASK_CANCELLED and TASK_DISPUTED to whoever did it, too (mutant).
RecipientsActorToo(e) ==
    CASE e.type = "TASK_POSTED" -> Eligible(e.task)
      [] e.type \in {"TASK_ACCEPTED", "TASK_COMPLETED"} -> {PosterOf[e.task]}
      [] OTHER -> {PosterOf[e.task], e.seen} \ {NoUser}

\* TASK_CANCELLED of a task without a doer, to null (mutant).
RecipientsNull(e) ==
    CASE e.type = "TASK_POSTED" -> Eligible(e.task)
      [] e.type \in {"TASK_ACCEPTED", "TASK_COMPLETED"} -> {PosterOf[e.task]}
      [] e.type \in {"TASK_CONFIRMED", "PAYMENT_RELEASED"} -> {e.seen} \ {NoUser}
      [] OTHER -> {PosterOf[e.task], e.seen} \ {e.by}

Recipients(e) ==
    CASE e.type = "TASK_POSTED" -> Eligible(e.task)
      [] e.type \in {"TASK_ACCEPTED", "TASK_COMPLETED"} -> {PosterOf[e.task]}
      [] e.type \in {"TASK_CONFIRMED", "PAYMENT_RELEASED"} -> {e.seen} \ {NoUser}
      [] e.type \in {"TASK_CANCELLED", "TASK_DISPUTED"} ->
           {PosterOf[e.task], e.seen} \ {NoUser, e.by}

SendsOf(e) == {[type |-> e.type, task |-> e.task, to |-> u] : u \in Recipients(e)}
Announces(e) == e.type = "TASK_POSTED"

\* The request emits; each handler starts at once, the one of TASK_POSTED with
\* a query.
Tell(p) ==
    /\ At(p, "tell")
    /\ fanouts' = fanouts \cup {e.task : e \in {f \in req[p].events : Announces(f)}}
    /\ sends' = sends \cup UNION {SendsOf(e) : e \in {f \in req[p].events : ~Announces(f)}}
    /\ Finish(p)
    /\ UNCHANGED <<task, over>>

Posted(t) == {[type |-> "TASK_POSTED", task |-> t, to |-> u] : u \in Eligible(t)}

FanOut(t) ==
    /\ t \in fanouts
    /\ fanouts' = fanouts \ {t}
    /\ sends' = sends \cup Posted(t)
    /\ UNCHANGED <<task, req, changes, told, over>>

\* A send whose failure takes the others of its event with it (mutant).
SendEndsAll(s) ==
    /\ s \in sends
    /\ sends' = {r \in sends : r.type # s.type \/ r.task # s.task}
    /\ over' = over \cup {s}
    /\ UNCHANGED <<task, req, changes, told, fanouts>>

\* send: the row is created, then the push goes out, whose errors are
\* swallowed; an error of the row is logged.  Either way the send has ended.
SendEnds(s) ==
    /\ s \in sends
    /\ sends' = sends \ {s}
    /\ over' = over \cup {s}
    /\ UNCHANGED <<task, req, changes, told, fanouts>>

FanOutFails(t) ==
    /\ t \in fanouts
    /\ fanouts' = fanouts \ {t}
    /\ over' = over \cup Posted(t)
    /\ UNCHANGED <<task, req, changes, told, sends>>

\* A statement of the request is rejected or the process dies.
Fail(p) ==
    /\ ~At(p, "idle")
    /\ over' = over \cup UNION {SendsOf(e) : e \in req[p].events}
    /\ Finish(p)
    /\ UNCHANGED <<task, fanouts, sends>>

-----------------------------------------------------------------------------
Init ==
    /\ task = [t \in Tasks |-> [status |-> "UNPAID", doer |-> NoUser,
                                escrow |-> IF t \in CashTasks THEN "NONE" ELSE "PENDING",
                                confirmed |-> FALSE, disputed |-> FALSE]]
    /\ req = [p \in Reqs |-> Idle]
    /\ changes = {} /\ fanouts = {} /\ sends = {} /\ over = {}
    /\ told = [x \in Tasks \X Once |-> 0]

TaskRequest(p, t) ==
    \/ Promote(p, t) \/ Start(p, t) \/ Complete(p, t)
    \/ \E u \in Users : Accept(p, t, u) \/ RaiseDispute(p, t, u)
    \/ \E by \in Users \cup {Admin} : Cancel(p, t, by)
    \/ \E by \in {PosterOf[t], NoUser} : Confirm(p, t, by)

RequestStep(p) ==
    \/ AcceptWrite(p) \/ StartWrite(p) \/ CompleteWrite(p) \/ Release(p)
    \/ ConfirmWrite(p) \/ CancelTx(p) \/ DisputeTx(p) \/ Tell(p)

Next ==
    \/ \E p \in Reqs : /\ \/ \E t \in Tasks : TaskRequest(p, t)
                          \/ RequestStep(p) \/ Fail(p)
                       /\ Record(p)
    \/ \E t \in Tasks : FanOut(t) \/ FanOutFails(t)
    \/ \E s \in sends : SendEnds(s)

Spec == Init /\ [][Next]_vars

-----------------------------------------------------------------------------
\* Every row, request and send has its type.
TypeOK ==
    /\ task \in [Tasks -> TaskRow]
    /\ req \in [Reqs -> Request]
    /\ changes \subseteq Change
    /\ fanouts \subseteq Tasks
    /\ sends \cup over \subseteq Send
    /\ told \in [Tasks \X Once -> Nat]

\* Whom a change concerns: who may accept a new task, the poster of an accepted
\* or completed one, the doer of a confirmed or paid one, and of a cancelled or
\* disputed one the participant that did not do it, or both.
Concerned(c) ==
    CASE c.type = "TASK_POSTED" -> {u \in Users \ Banned : MayAccept(c.task, u)}
      [] c.type \in {"TASK_ACCEPTED", "TASK_COMPLETED"} -> {PosterOf[c.task]}
      [] c.type \in {"TASK_CONFIRMED", "PAYMENT_RELEASED"} -> {c.doer}
      [] c.type \in {"TASK_CANCELLED", "TASK_DISPUTED"} ->
           {PosterOf[c.task], c.doer} \ {NoUser, c.by}

About(c, u) == [type |-> c.type, task |-> c.task, to |-> u]

\* Whoever is told of something, the row really came to say so, and it concerns
\* him: no poster is told of a doer when a cancel came first, no doer of a payment
\* that a dispute or a cancel kept back, nobody of a task above his tier, of what
\* he did himself, or of another's task (the listener over the payloads that
\* TasksService and PaymentsService made of what they read before the commit).
TaskNoticesAreTrue ==
    \A s \in sends \cup over : \E c \in changes :
        c.type = s.type /\ c.task = s.task /\ s.to \in Concerned(c)

EventOf(c) == [type |-> c.type, task |-> c.task, by |-> c.by, seen |-> c.seen]

Pending(c) ==
    \/ \E p \in Reqs : EventOf(c) \in req[p].events
    \/ Announces(c) /\ c.task \in fanouts

\* Whatever became of a row, whoever is concerned is told, or will be by the
\* request that still holds the event, or the request itself failed: one
\* recipient's failure stops no other.  Excepted is the doer who was hired while
\* the cancel was already past its read of the task (executeCancel).
PartiesTold ==
    \A c \in changes : \A u \in Concerned(c) :
        \/ About(c, u) \in sends \cup over
        \/ Pending(c)
        \/ c.type = "TASK_CANCELLED" /\ u = c.doer /\ c.seen = NoUser

\* Of any number of requests that race to post, take, pay or dispute a task one
\* sets out to tell of it, once: the loser of a CAS, a webhook that comes again, a
\* release after another stay silent (accept, releaseEscrow, raiseDispute, the
\* webhook).
ToldOnce == \A x \in Tasks \X Once : told[x] <= 1

\* What the search shows, what the listener announces and what accept takes
\* agree on the tiers: nobody approved is told of, or shown, a task that accept
\* would refuse him for his tier.
TiersAgree ==
    \A t \in Tasks, u \in DOMAIN TierOf \ Banned :
        /\ Shows(t, u) => MayAccept(t, u)
        /\ u \in Eligible(t) /\ task[t].status = "OPEN" => Shows(t, u)
=============================================================================
