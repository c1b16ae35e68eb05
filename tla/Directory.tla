----------------------------- MODULE Directory ------------------------------
(***************************************************************************)
(* What the people of the marketplace know of each other: doer profiles    *)
(* and their reviews, ratings, messages and notifications, and the         *)
(* requests in flight over these rows.  Of a task only its status and its  *)
(* doer matter here.                                                       *)
(***************************************************************************)
EXTENDS Integers, Sequences, FiniteSets

CONSTANTS
    Tasks, Users,
    PosterOf,       \* the user that posts a task
    Applicants,     \* the users that submit KYC
    NoTask, NoUser, \* the null of a task id and of a user id
    Reqs,           \* slots for requests being served concurrently
    MaxMessages     \* bound: messages begun

ASSUME DirectoryAssumption ==
    /\ PosterOf \in [Tasks -> Users]
    /\ Applicants \subseteq Users
    /\ NoTask \notin Tasks
    /\ NoUser \notin Users
    /\ MaxMessages \in Nat

VARIABLES
    task,      \* Task rows: status and doerId
    profile,   \* DoerProfile rows: kycStatus and the averages
    reviews,   \* KycReview rows: which verdicts a user ever had on record
    ratings,   \* Rating rows
    messages,  \* Message rows
    notices,   \* the notifications attempted; the Notification rows are among them
    req,       \* the requests in flight
    shown,     \* history: the messages that getMessages listed to the counterpart,
               \* or failed to with an error
    disturbed  \* history: whose review was lost in a failure, and whose ratings were
               \* half done, raced, or came before the profile

vars == <<task, profile, reviews, ratings, messages, notices, req,
          shown, disturbed>>

-----------------------------------------------------------------------------
\* IN_PROGRESS and DISPUTED count as ASSIGNED: no guard here tells them apart.
TaskRow == [status : {"OPEN", "ASSIGNED", "COMPLETED", "CANCELLED"},
            doer : Users \cup {NoUser}]

Rating == [task : Tasks, rater : Users, ratee : Users]

\* avgRating and onTimeRate stand for the set of ratings they average.
Profile == [kyc : {"NONE", "PENDING", "APPROVED", "REJECTED"}, stats : SUBSET Rating]

Review == [user : Users, action : {"APPROVED", "REJECTED"}]
Message == [task : Tasks, sender : Users, read : BOOLEAN]

\* of is the position of a message, 0 else.
Notice == [type : {"KYC_APPROVED", "KYC_REJECTED", "RATING_RECEIVED", "NEW_MESSAGE"},
           to : Users, by : Users \cup {NoUser}, task : Tasks \cup {NoTask}, of : Nat]

Request == [pc : {"idle", "assign", "upsert", "recordReview", "insertRating",
                  "readRatings", "writeStats", "insertMessage", "list"},
            user : Users \cup {NoUser},   \* whom it is about
            task : Tasks \cup {NoTask},
            by : Users \cup {NoUser},     \* who rates, or who gets the message
            action : {"NONE", "APPROVED", "REJECTED"},
            stats : SUBSET Rating]        \* the ratings it read

Idle == [pc |-> "idle", user |-> NoUser, task |-> NoTask, by |-> NoUser,
         action |-> "NONE", stats |-> {}]

At(p, l) == req[p].pc = l

Begin(p, l, u, t, by, action) ==
    /\ At(p, "idle")
    /\ req' = [req EXCEPT ![p] = [pc |-> l, user |-> u, task |-> t, by |-> by,
                                  action |-> action, stats |-> {}]]

Goto(p, l) == req' = [req EXCEPT ![p].pc = l]
Finish(p) == req' = [req EXCEPT ![p] = Idle]

Participants(t) == {PosterOf[t], task[t].doer} \ {NoUser}
HasProfile(u) == profile[u].kyc # "NONE"
RatingsOf(u) == {r \in ratings : r.ratee = u}

\* An event starts a handler of the listener, which persists a notification
\* and pushes it.  Nobody waits for it and nothing reads the row but its
\* owner, so the attempt is part of the step that emits; send catches and
\* logs any error, so an attempt may have left no row.
Notify(type, to, by, t, of) ==
    notices' = notices \cup
        {[type |-> type, to |-> to, by |-> by, task |-> t, of |-> of]}

\* Where a failure leaves a row written whose companion is missing.
HalfDone(p) ==
    {<<"review", u>> : u \in {v \in {req[p].user} : At(p, "recordReview")}} \cup
    {<<"ratings", u>> : u \in {v \in {req[p].user} : req[p].pc \in {"readRatings", "writeStats"}}}

\* What the other participant wrote on the task.
ForReader(u, t, i) == messages[i].task = t /\ messages[i].sender # u
Listed(p) == {i \in DOMAIN messages : ForReader(req[p].user, req[p].task, i)}

\* A statement is rejected, or the process dies.
Fail(p) ==
    /\ ~At(p, "idle")
    /\ Finish(p)
    /\ disturbed' = disturbed \cup HalfDone(p)
    /\ shown' = IF At(p, "list") THEN shown \cup Listed(p) ELSE shown
    /\ UNCHANGED <<task, profile, reviews, ratings, messages, notices>>

-----------------------------------------------------------------------------
DirectoryInit ==
    /\ task = [t \in Tasks |-> [status |-> "OPEN", doer |-> NoUser]]
    /\ profile = [u \in Users |-> [kyc |-> "NONE", stats |-> {}]]
    /\ reviews = {}
    /\ ratings = {}
    /\ messages = <<>>
    /\ notices = {}
    /\ req = [p \in Reqs |-> Idle]
    /\ shown = {}
    /\ disturbed = {}

\* Every row and every request in flight has its type.
TypeOK ==
    /\ task \in [Tasks -> TaskRow]
    /\ profile \in [Users -> Profile]
    /\ reviews \subseteq Review
    /\ ratings \subseteq Rating
    /\ messages \in Seq(Message)
    /\ notices \subseteq Notice
    /\ req \in [Reqs -> Request]
    /\ shown \subseteq DOMAIN messages
    /\ disturbed \subseteq {"review", "ratings"} \X Users
=============================================================================
