-------------------------- MODULE CommunityProofs ---------------------------
(***************************************************************************)
(* What the rows of the community say of each other, for any number of     *)
(* tasks, users, requests and messages: who was hired was approved, the    *)
(* averages are exact, what is marked read was shown, and every notice is  *)
(* true.  Each statement is handed from row to request and from request to *)
(* row, so each invariant has a part about the requests in flight.         *)
(***************************************************************************)
EXTENDS Community, TLAPS

\* A request has the values that its next statement needs.
Equipped(r) ==
    /\ r.pc # "idle" => r.user \in Users
    /\ r.pc \in RatingPc \cup {"assign", "insertMessage", "list"} => r.task \in Tasks
    /\ r.pc \in RatingPc => r.by \in Users
    /\ r.pc = "recordReview" => r.action \in {"APPROVED", "REJECTED"}

ReqsTyped == req \in [Reqs -> Request] /\ \A p \in Reqs : Equipped(req[p])
Typed == TypeOK /\ ReqsTyped

-----------------------------------------------------------------------------
(* Hiring: an approval is on record, about to be, or lost in a failure,    *)
(* from the moment a profile shows it.                                     *)

Vouched(u) == Approved(u) \/ <<"review", u>> \in disturbed

HireInv ==
    /\ \A u \in Users : profile[u].kyc = "APPROVED" => Vouched(u)
    /\ \A p \in Reqs : At(p, "assign") => Vouched(req[p].user)
    /\ HiredWereApproved

-----------------------------------------------------------------------------
(* Averages: of a user whose ratings were not disturbed, one request at    *)
(* most has a rating under way, and what it read is still all there is.    *)

Exact(u) == profile[u].stats = RatingsOf(u)
Rates(p, u) == req[p].pc \in RatingPc /\ req[p].user = u

StatsSound(u) ==
    /\ \A p, q \in Reqs : Rates(p, u) /\ Rates(q, u) => p = q
    /\ \A p \in Reqs : /\ At(p, "insertRating") /\ req[p].user = u => Exact(u)
                       /\ At(p, "writeStats") /\ req[p].user = u =>
                            req[p].stats = RatingsOf(u)
    /\ ~RatingInFlight(u) => Exact(u)

StatsInv == \A u \in Users : <<"ratings", u>> \notin disturbed => StatsSound(u)

-----------------------------------------------------------------------------
(* Notices: a doer is no poster, so the counterpart of a participant is    *)
(* the other one, and a rating is there when it is told of.                *)

Hirable(t, u) == u # PosterOf[t]

Truthful(p) ==
    /\ At(p, "assign") => Hirable(req[p].task, req[p].user)
    /\ At(p, "insertMessage") /\ req[p].by # NoUser =>
         req[p].by \in Participants(req[p].task) \ {req[p].user}
    /\ req[p].pc \in {"readRatings", "writeStats"} =>
         [task |-> req[p].task, rater |-> req[p].by, ratee |-> req[p].user] \in ratings

NoticeInv ==
    /\ \A t \in Tasks : Hirable(t, task[t].doer)
    /\ \A p \in Reqs : Truthful(p)
    /\ NoticesAreTrue

-----------------------------------------------------------------------------
(* How a request moves                                                     *)

LEMMA MoveTyped ==
    ASSUME ReqsTyped, NEW p \in Reqs, NEW r \in Request, Equipped(r),
           req' = [req EXCEPT ![p] = r]
    PROVE  ReqsTyped'
<1>1. \A q \in Reqs : req'[q] \in {r, req[q]}
  BY DEF ReqsTyped
<1>2. \A q \in Reqs : Equipped(req'[q])
  BY <1>1 DEF ReqsTyped
<1>3. req' \in [Reqs -> Request]
  BY DEF ReqsTyped
<1> QED
  BY <1>2, <1>3 DEF ReqsTyped, Equipped

LEMMA FinishTyped ==
    ASSUME ReqsTyped, NEW p \in Reqs, Finish(p)
    PROVE  ReqsTyped'
<1>1. Idle \in Request /\ Equipped(Idle)
  BY DEF Idle, Request, Equipped, RatingPc
<1> QED
  BY <1>1, MoveTyped DEF Finish

LEMMA BeginTyped ==
    ASSUME ReqsTyped, NEW p \in Reqs, NEW l, NEW u \in Users, NEW t \in Tasks \cup {NoTask},
           NEW by \in Users \cup {NoUser}, NEW a \in {"NONE", "APPROVED", "REJECTED"},
           \/ l = "upsert"
           \/ l = "recordReview" /\ a # "NONE"
           \/ l \in {"assign", "insertMessage", "list"} /\ t \in Tasks
           \/ l = "insertRating" /\ t \in Tasks /\ by \in Users,
           Begin(p, l, u, t, by, a)
    PROVE  ReqsTyped'
<1> DEFINE r == [pc |-> l, user |-> u, task |-> t, by |-> by, action |-> a, stats |-> {}]
<1>1. r \in Request /\ Equipped(r)
  BY DEF Request, Equipped, RatingPc
<1>2. req' = [req EXCEPT ![p] = r]
  BY DEF Begin
<1> HIDE DEF r
<1> QED
  BY <1>1, <1>2, MoveTyped

-----------------------------------------------------------------------------
(* Types                                                                   *)

LEMMA ProfileRequestTyped ==
    ASSUME Typed, NEW p \in Reqs, ProfileRequest(p)
    PROVE  Typed'
<1> USE DEF Typed, TypeOK
<1>1. PICK u \in Users :
        \/ SubmitKyc(p, u)
        \/ \E action \in {"APPROVED", "REJECTED"} : ReviewKyc(p, u, action)
        \/ \E t \in Tasks : Accept(p, t, u) \/ Rate(p, t, u)
  BY DEF ProfileRequest
<1>2. CASE SubmitKyc(p, u)
  BY <1>2, BeginTyped DEF SubmitKyc, ReqsTyped
<1>3. ASSUME NEW action \in {"APPROVED", "REJECTED"}, ReviewKyc(p, u, action)
      PROVE  Typed'
  <2>1. ReqsTyped'
    BY <1>3, BeginTyped DEF ReviewKyc
  <2> QED BY <1>3, <2>1 DEF ReviewKyc, Profile, ReqsTyped
<1>4. ASSUME NEW t \in Tasks, Accept(p, t, u) PROVE Typed'
  BY <1>4, BeginTyped DEF Accept, ReqsTyped
<1>5. ASSUME NEW t \in Tasks, Rate(p, t, u) PROVE Typed'
  <2>1. PICK v \in Participants(t) \ {u} :
          /\ Begin(p, "insertRating", v, t, u, "NONE")
          /\ disturbed' = disturbed \cup {<<"ratings", w>> : w \in {x \in {v} : RatingInFlight(x)}}
    BY <1>5 DEF Rate
  <2>2. v \in Users
    BY DirectoryAssumption DEF Participants, TaskRow
  <2>3. ReqsTyped'
    BY <2>1, <2>2, BeginTyped
  <2> QED BY <1>5, <2>1, <2>2, <2>3 DEF Rate, ReqsTyped
<1> QED
  BY <1>1, <1>2, <1>3, <1>4, <1>5

LEMMA ProfileStepTyped ==
    ASSUME Typed, NEW p \in Reqs, ProfileStep(p)
    PROVE  Typed'
<1> USE DEF Typed, TypeOK
<1>1. req[p] \in Request /\ Equipped(req[p])
  BY DEF ReqsTyped
<1>2. CASE UpsertProfile(p)
  BY <1>1, <1>2, FinishTyped DEF UpsertProfile, At, Equipped, Profile, ReqsTyped
<1>3. CASE RecordReview(p)
  BY <1>1, <1>3, FinishTyped
     DEF RecordReview, At, Equipped, Review, Notify, Notice, ReqsTyped
<1>4. CASE Assign(p)
  BY <1>1, <1>4, FinishTyped DEF Assign, At, Equipped, TaskRow, ReqsTyped
<1>5. CASE InsertRating(p)
  <2>1. CASE Finish(p) /\ UNCHANGED ratings
    BY <1>5, <2>1, FinishTyped DEF InsertRating, ReqsTyped
  <2>2. CASE /\ ratings' = ratings \cup
                  {[task |-> req[p].task, rater |-> req[p].by, ratee |-> req[p].user]}
             /\ Goto(p, "readRatings")
    <3> DEFINE r == [req[p] EXCEPT !.pc = "readRatings"]
    <3>1. r \in Request /\ Equipped(r)
      BY <1>1, <1>5 DEF Request, Equipped, InsertRating, At, RatingPc
    <3>2. req' = [req EXCEPT ![p] = r]
      BY <2>2 DEF Goto, ReqsTyped
    <3>3. ReqsTyped'
      BY <3>1, <3>2, MoveTyped
    <3>4. ratings' \subseteq Rating
      BY <1>1, <1>5, <2>2 DEF InsertRating, At, Equipped, RatingPc, Rating
    <3> QED BY <1>5, <3>3, <3>4 DEF InsertRating, ReqsTyped
  <2> QED BY <1>5, <2>1, <2>2 DEF InsertRating
<1>6. CASE ReadRatings(p)
  <2>1. CASE /\ req' = [req EXCEPT ![p].pc = "writeStats", ![p].stats = RatingsOf(req[p].user)]
             /\ UNCHANGED <<notices, disturbed>>
    <3> DEFINE r == [req[p] EXCEPT !.pc = "writeStats", !.stats = RatingsOf(req[p].user)]
    <3>1. r \in Request /\ Equipped(r)
      BY <1>1, <1>6 DEF Request, Equipped, ReadRatings, At, RatingPc, RatingsOf
    <3>2. req' = [req EXCEPT ![p] = r]
      BY <2>1 DEF ReqsTyped
    <3>3. ReqsTyped'
      BY <3>1, <3>2, MoveTyped
    <3> QED BY <1>6, <2>1, <3>3 DEF ReadRatings, ReqsTyped
  <2>2. CASE /\ NotifyRatee(p)
             /\ Finish(p)
             /\ disturbed' = disturbed \cup {<<"ratings", req[p].user>>}
    <3>1. notices' \subseteq Notice /\ disturbed' \subseteq {"review", "ratings"} \X Users
      BY <1>1, <1>6, <2>2
         DEF ReadRatings, At, Equipped, RatingPc, NotifyRatee, Notify, Notice
    <3>2. ReqsTyped'
      BY <2>2, FinishTyped
    <3> QED BY <1>6, <3>1, <3>2 DEF ReadRatings, ReqsTyped
  <2> QED BY <1>6, <2>1, <2>2 DEF ReadRatings
<1>7. CASE WriteStats(p)
  <2>1. notices' \subseteq Notice
    BY <1>1, <1>7 DEF WriteStats, At, Equipped, RatingPc, NotifyRatee, Notify, Notice
  <2>2. profile' \in [Users -> Profile]
    BY SMTT(30), <1>1, <1>7 DEF WriteStats, At, Equipped, Request, Profile
  <2>3. ReqsTyped'
    BY <1>7, FinishTyped DEF WriteStats
  <2> QED BY <1>7, <2>1, <2>2, <2>3 DEF WriteStats, ReqsTyped
<1> QED
  BY <1>2, <1>3, <1>4, <1>5, <1>6, <1>7 DEF ProfileStep

LEMMA MessagesTyped ==
    ASSUME Typed, NEW p \in Reqs, MessageRequest(p) \/ MessageStep(p)
    PROVE  Typed'
<1> USE DEF Typed, TypeOK
<1>1. req[p] \in Request /\ Equipped(req[p])
  BY DEF ReqsTyped
<1>2. ASSUME NEW u \in Users, NEW t \in Tasks, SendMessage(p, t, u)
      PROVE  Typed'
  <2>1. PICK r \in Users \cup {NoUser} : Begin(p, "insertMessage", u, t, r, "NONE")
    BY <1>2, DirectoryAssumption DEF SendMessage, TaskRow
  <2>2. ReqsTyped'
    BY <2>1, BeginTyped
  <2> QED BY <1>2, <2>2 DEF SendMessage, ReqsTyped
<1>3. ASSUME NEW u \in Users, NEW t \in Tasks, GetMessages(p, t, u)
      PROVE  Typed'
  <2>1. ReqsTyped'
    BY <1>3, BeginTyped DEF GetMessages
  <2>2. \A i \in DOMAIN messages :
          messages[i] \in Message /\ [messages[i] EXCEPT !.read = TRUE] \in Message
    <3>1. \A m \in Message : [m EXCEPT !.read = TRUE] \in Message
      BY DEF Message
    <3> QED BY <3>1
  <2>3. messages' \in [DOMAIN messages -> Message]
    BY <1>3, <2>2 DEF GetMessages
  <2>4. DOMAIN messages = 1 .. Len(messages) /\ Len(messages) \in Nat
    OBVIOUS
  <2>5. messages' \in Seq(Message) /\ DOMAIN messages' = DOMAIN messages
    BY <2>3, <2>4
  <2> QED BY <1>3, <2>1, <2>5 DEF GetMessages, ReqsTyped
<1>4. CASE InsertMessage(p)
  <2>1. req[p].user \in Users /\ req[p].task \in Tasks /\ req[p].by \in Users \cup {NoUser}
    BY <1>1, <1>4 DEF InsertMessage, At, Equipped, Request
  <2>2. [task |-> req[p].task, sender |-> req[p].user, read |-> FALSE] \in Message
    BY <2>1 DEF Message
  <2>3. messages' \in Seq(Message) /\ DOMAIN messages \subseteq DOMAIN messages'
    BY <1>4, <2>2 DEF InsertMessage
  <2>4. notices' \subseteq Notice
    BY <1>4, <2>1 DEF InsertMessage, Notify, Notice
  <2>5. ReqsTyped'
    BY <1>4, FinishTyped DEF InsertMessage
  <2> QED BY <1>4, <2>3, <2>4, <2>5 DEF InsertMessage, ReqsTyped
<1>5. CASE ListThread(p)
  BY <1>5, FinishTyped DEF ListThread, Listed, ReqsTyped
<1> QED
  BY <1>2, <1>3, <1>4, <1>5 DEF MessageRequest, MessageStep

LEMMA FailTyped ==
    ASSUME Typed, NEW p \in Reqs, Fail(p)
    PROVE  Typed'
<1> USE DEF Typed, TypeOK
<1>1. req[p].user \in Users
  BY DEF Fail, At, ReqsTyped, Equipped
<1>2. disturbed' \subseteq {"review", "ratings"} \X Users
  BY <1>1 DEF Fail, HalfDone
<1>3. ReqsTyped'
  BY FinishTyped DEF Fail
<1>4. shown' \subseteq DOMAIN messages
  BY DEF Fail, Listed
<1> QED
  BY <1>2, <1>3, <1>4 DEF Fail, ReqsTyped

LEMMA MovesTyped ==
    ASSUME Typed, NEW t \in Tasks, TaskMoves(t)
    PROVE  Typed'
<1>1. task' \in [Tasks -> TaskRow]
  BY DEF Typed, TypeOK, TaskMoves, Moves, TaskRow
<1> QED
  BY <1>1 DEF Typed, TypeOK, TaskMoves, ReqsTyped

LEMMA TypedStep == Typed /\ [Next]_vars => Typed'
<1> SUFFICES ASSUME Typed, [Next]_vars PROVE Typed'
  OBVIOUS
<1>1. CASE UNCHANGED vars
  BY <1>1 DEF vars, Typed, TypeOK, ReqsTyped
<1> QED
  BY <1>1, ProfileRequestTyped, ProfileStepTyped, MessagesTyped, FailTyped, MovesTyped
     DEF Next

LEMMA TypedInit == Init => Typed
<1>1. Idle \in Request /\ Equipped(Idle)
  BY DEF Idle, Request, Equipped, RatingPc
<1> QED
  BY <1>1 DEF Init, DirectoryInit, Typed, TypeOK, ReqsTyped, TaskRow, Profile

\* Every row of the community and every request in flight keeps its type.
THEOREM CommunityTyped == Spec => []TypeOK
BY TypedInit, TypedStep, PTL DEF Spec, Typed

LEMMA TypedAlways == Spec => []Typed
BY TypedInit, TypedStep, PTL DEF Spec

-----------------------------------------------------------------------------
(* What every step leaves as it was                                        *)

StepOf(p) == \/ ProfileRequest(p) \/ MessageRequest(p)
             \/ ProfileStep(p) \/ MessageStep(p) \/ Fail(p)

\* A request moves alone, and rows of history stay.
LEMMA OthersWait ==
    ASSUME Typed, NEW p \in Reqs, StepOf(p)
    PROVE  \A q \in Reqs \ {p} : req'[q] = req[q]
<1>1. req \in [Reqs -> Request]
  BY DEF Typed, ReqsTyped
<1> QED
  BY <1>1
     DEF StepOf, ProfileRequest, ProfileStep, MessageRequest, MessageStep, Fail, SubmitKyc,
         ReviewKyc, Accept, Rate, UpsertProfile, RecordReview, Assign, InsertRating,
         ReadRatings, WriteStats, SendMessage, GetMessages, InsertMessage, ListThread,
         Begin, Goto, Finish

LEMMA RowsStay ==
    ASSUME Next
    PROVE  /\ reviews \subseteq reviews' /\ disturbed \subseteq disturbed'
           /\ ratings \subseteq ratings' /\ shown \subseteq shown'
<1> DEFINE Stay == /\ reviews \subseteq reviews' /\ disturbed \subseteq disturbed'
                   /\ ratings \subseteq ratings' /\ shown \subseteq shown'
<1>1. ASSUME NEW p \in Reqs, ProfileRequest(p) \/ MessageRequest(p) PROVE Stay
  BY <1>1 DEF ProfileRequest, MessageRequest, SubmitKyc, ReviewKyc, Accept, Rate,
              SendMessage, GetMessages
<1>2. ASSUME NEW p \in Reqs, ProfileStep(p) PROVE Stay
  BY <1>2 DEF ProfileStep, UpsertProfile, RecordReview, Assign, InsertRating, ReadRatings,
              WriteStats
<1>3. ASSUME NEW p \in Reqs, MessageStep(p) \/ Fail(p) PROVE Stay
  BY <1>3 DEF MessageStep, InsertMessage, ListThread, Fail
<1>4. ASSUME NEW t \in Tasks, TaskMoves(t) PROVE Stay
  BY <1>4 DEF TaskMoves
<1> QED
  BY <1>1, <1>2, <1>3, <1>4 DEF Next

-----------------------------------------------------------------------------
(* Who was hired was approved                                              *)

\* A review that was about to be recorded is recorded, or lost in a failure.
LEMMA VouchedLasts ==
    ASSUME Typed, Next, NEW u \in Users, Vouched(u)
    PROVE  Vouched(u)'
<1>1. CASE [user |-> u, action |-> "APPROVED"] \in reviews \/ <<"review", u>> \in disturbed
  BY <1>1, RowsStay DEF Vouched, Approved
<1>2. ASSUME NEW q \in Reqs, At(q, "recordReview"), req[q].user = u,
             req[q].action = "APPROVED"
      PROVE  Vouched(u)'
  <2>1. CASE req'[q] = req[q]
    BY <1>2, <2>1 DEF Vouched, Approved, At
  <2>2. CASE StepOf(q)
    <3>1. RecordReview(q) \/ Fail(q)
      BY <1>2, <2>2
         DEF StepOf, ProfileRequest, ProfileStep, MessageRequest, MessageStep, SubmitKyc,
             ReviewKyc, Accept, Rate, UpsertProfile, Assign, InsertRating, ReadRatings,
             WriteStats, SendMessage, GetMessages, InsertMessage, ListThread, Begin, At
    <3>2. CASE RecordReview(q)
      BY <1>2, <3>2 DEF RecordReview, Vouched, Approved
    <3>3. CASE Fail(q)
      BY <1>2, <3>3 DEF Fail, HalfDone, Vouched
    <3> QED BY <3>1, <3>2, <3>3
  <2>3. ASSUME NEW p \in Reqs, StepOf(p), p # q PROVE req'[q] = req[q]
    BY <1>2, <2>3, OthersWait
  <2>4. ASSUME NEW t \in Tasks, TaskMoves(t) PROVE req'[q] = req[q]
    BY <2>4 DEF TaskMoves
  <2> QED BY <2>1, <2>2, <2>3, <2>4 DEF Next, StepOf
<1> QED
  BY <1>1, <1>2 DEF Vouched, Approved

\* Profile, request and task name nobody who is not vouched for.
LEMMA HireKept ==
    ASSUME Typed, Typed', HireInv, Next,
           \A u \in Users : profile'[u].kyc = "APPROVED" =>
                              profile[u].kyc = "APPROVED" \/ Vouched(u)',
           \A q \in Reqs : req'[q].pc = "assign" =>
                             \/ req'[q] = req[q]
                             \/ Vouched(req[q].user)',
           \A t \in Tasks : \/ task'[t].doer \in {task[t].doer, NoUser}
                            \/ Vouched(task[t].doer)'
    PROVE  HireInv'
<1>1. \A u \in Users : profile'[u].kyc = "APPROVED" => Vouched(u)'
  BY VouchedLasts DEF HireInv
<1>2. ASSUME NEW q \in Reqs, At(q, "assign")' PROVE Vouched(req[q].user)'
  <2>1. CASE req'[q] = req[q]
    <3>1. PICK u \in Users : u = req[q].user
      BY <1>2, <2>1 DEF At, Typed, ReqsTyped, Equipped
    <3>2. Vouched(u)
      BY <1>2, <2>1, <3>1 DEF HireInv, At
    <3>3. Vouched(u)'
      BY <3>2, VouchedLasts
    <3> QED BY <2>1, <3>1, <3>3 DEF Vouched, Approved
  <2> QED BY <1>2, <2>1 DEF At
<1>3. ASSUME NEW t \in Tasks, task'[t].doer # NoUser PROVE Vouched(task[t].doer)'
  <2>1. CASE task'[t].doer = task[t].doer
    <3>1. PICK u \in Users : u = task[t].doer
      BY <1>3, <2>1 DEF Typed, TypeOK, TaskRow
    <3>2. Vouched(u)
      BY <1>3, <2>1, <3>1 DEF HireInv, HiredWereApproved, Vouched
    <3>3. Vouched(u)'
      BY <3>2, VouchedLasts
    <3> QED BY <2>1, <3>1, <3>3 DEF Vouched, Approved
  <2> QED BY <1>3, <2>1
<1> QED
  BY <1>1, <1>2, <1>3 DEF HireInv, HiredWereApproved, Vouched

\* The steps that name somebody: a review, an accept and its assignment.
Names(p) == \/ \E u \in Users, action \in {"APPROVED", "REJECTED"} : ReviewKyc(p, u, action)
            \/ \E u \in Users, t \in Tasks : Accept(p, t, u)
            \/ Assign(p)

LEMMA NamesNobody ==
    ASSUME Typed, Typed', HireInv, NEW p \in Reqs, StepOf(p), ~Names(p)
    PROVE  HireInv'
<1>1. req \in [Reqs -> Request] /\ profile \in [Users -> Profile]
  BY DEF Typed, TypeOK, ReqsTyped
<1>2. \A u \in Users : profile'[u].kyc = "APPROVED" => profile[u].kyc = "APPROVED"
  <2>1. CASE UpsertProfile(p) \/ WriteStats(p)
    BY <1>1, <2>1 DEF UpsertProfile, WriteStats, Profile
  <2>2. CASE ~(UpsertProfile(p) \/ WriteStats(p))
    BY <2>2
       DEF StepOf, Names, ProfileRequest, ProfileStep, MessageRequest, MessageStep, Fail,
           SubmitKyc, Rate, RecordReview, InsertRating, ReadRatings, SendMessage,
           GetMessages, InsertMessage, ListThread
  <2> QED BY <2>1, <2>2
<1>3. UNCHANGED task
  BY DEF StepOf, Names, ProfileRequest, ProfileStep, MessageRequest, MessageStep, Fail,
         SubmitKyc, Rate, UpsertProfile, RecordReview, InsertRating, ReadRatings, WriteStats,
         SendMessage, GetMessages, InsertMessage, ListThread
<1>4. req'[p].pc # "assign"
  BY <1>1
     DEF StepOf, Names, ProfileRequest, ProfileStep, MessageRequest, MessageStep, Fail,
         SubmitKyc, Rate, UpsertProfile, RecordReview, InsertRating, ReadRatings, WriteStats,
         SendMessage, GetMessages, InsertMessage, ListThread, Begin, Goto, Finish, Idle,
         Request
<1>5. \A q \in Reqs : req'[q].pc = "assign" => req'[q] = req[q]
  BY <1>4, OthersWait
<1> QED
  BY <1>2, <1>3, <1>5, HireKept DEF Next, StepOf

LEMMA NamesTheVouched ==
    ASSUME Typed, Typed', HireInv, NEW p \in Reqs, Names(p)
    PROVE  HireInv'
<1>1. req \in [Reqs -> Request] /\ profile \in [Users -> Profile] /\ task \in [Tasks -> TaskRow]
  BY DEF Typed, TypeOK, ReqsTyped
<1>2. StepOf(p) /\ Next
  BY DEF Names, StepOf, ProfileRequest, ProfileStep, Next
<1>3. ASSUME NEW u \in Users, NEW action \in {"APPROVED", "REJECTED"}, ReviewKyc(p, u, action)
      PROVE  HireInv'
  <2>1. action = "APPROVED" => Vouched(u)'
    BY <1>1, <1>3 DEF ReviewKyc, Begin, Vouched, Approved, At
  <2>2. \A v \in Users : profile'[v].kyc = "APPROVED" =>
                           profile[v].kyc = "APPROVED" \/ Vouched(v)'
    BY <1>1, <1>3, <2>1 DEF ReviewKyc, Profile
  <2>3. \A q \in Reqs : req'[q].pc = "assign" => req'[q] = req[q]
    BY <1>1, <1>3 DEF ReviewKyc, Begin
  <2> QED BY <1>2, <1>3, <2>2, <2>3, HireKept DEF ReviewKyc
<1>4. ASSUME NEW u \in Users, NEW t \in Tasks, Accept(p, t, u)
      PROVE  HireInv'
  <2>1. Vouched(u)'
    BY <1>2, <1>4, VouchedLasts DEF Accept, HireInv
  <2>2. req'[p].user = u /\ \A q \in Reqs \ {p} : req'[q] = req[q]
    BY <1>1, <1>4 DEF Accept, Begin
  <2>3. Vouched(req[p].user)'
    BY <2>1, <2>2 DEF Vouched, Approved
  <2> QED BY <1>2, <1>4, <2>2, <2>3, HireKept DEF Accept
<1>5. CASE Assign(p)
  <2>1. PICK u \in Users : u = req[p].user
    BY <1>1, <1>5 DEF Assign, At, Typed, ReqsTyped, Equipped
  <2>2. Vouched(u)'
    BY <1>2, <1>5, <2>1, VouchedLasts DEF Assign, HireInv
  <2>3. \A t \in Tasks : task'[t].doer \in {task[t].doer, u}
    BY <1>1, <1>5, <2>1 DEF Assign
  <2>4. ASSUME NEW t \in Tasks, task'[t].doer = u PROVE Vouched(task[t].doer)'
    BY <2>2, <2>4 DEF Vouched, Approved
  <2>5. \A q \in Reqs : req'[q].pc = "assign" => req'[q] = req[q]
    BY <1>1, <1>5 DEF Assign, Finish, Idle
  <2> QED BY <1>2, <1>5, <2>3, <2>4, <2>5, HireKept DEF Assign
<1> QED
  BY <1>3, <1>4, <1>5 DEF Names

LEMMA HireStep == Typed /\ Typed' /\ HireInv /\ [Next]_vars => HireInv'
<1> SUFFICES ASSUME Typed, Typed', HireInv, [Next]_vars PROVE HireInv'
  OBVIOUS
<1>1. CASE UNCHANGED vars
  BY <1>1 DEF vars, HireInv, HiredWereApproved, Vouched, Approved, At
<1>2. ASSUME NEW p \in Reqs, StepOf(p) PROVE HireInv'
  BY <1>2, NamesNobody, NamesTheVouched
<1>3. ASSUME NEW t \in Tasks, TaskMoves(t) PROVE HireInv'
  <2>1. \A s \in Tasks : task'[s].doer = task[s].doer
    BY <1>3 DEF TaskMoves, Typed, TypeOK, TaskRow
  <2>2. Next
    BY <1>3 DEF Next
  <2> QED BY <1>3, <2>1, <2>2, HireKept DEF TaskMoves
<1> QED
  BY <1>1, <1>2, <1>3 DEF Next, StepOf

\* Nobody works who was never approved, in whatever order submissions, reviews,
\* accepts and failures interleave (accept, approveKyc, submitKyc).
THEOREM HiredWereVouched == Spec => []HiredWereApproved
<1>1. Init => HireInv
  BY DEF Init, DirectoryInit, HireInv, HiredWereApproved, At, Idle
<1>2. HireInv => HiredWereApproved
  BY DEF HireInv
<1> QED
  BY <1>1, <1>2, HireStep, TypedAlways, PTL DEF Spec

-----------------------------------------------------------------------------
(* What is marked read was shown                                           *)

\* A message keeps its task and its sender, and nothing but a reader marks it.
LEMMA MessagesStay ==
    ASSUME Typed, Next, NEW i \in DOMAIN messages
    PROVE  /\ i \in DOMAIN messages'
           /\ messages'[i].task = messages[i].task
           /\ messages'[i].sender = messages[i].sender
<1>1. messages \in Seq(Message) /\ messages[i] \in Message
  BY DEF Typed, TypeOK
<1>2. CASE UNCHANGED messages
  BY <1>2
<1>3. ASSUME NEW p \in Reqs, InsertMessage(p)
      PROVE  i \in DOMAIN messages' /\ messages'[i] = messages[i]
  BY <1>1, <1>3 DEF InsertMessage
<1>4. ASSUME NEW p \in Reqs, NEW t \in Tasks, NEW u \in Users, GetMessages(p, t, u)
      PROVE  /\ i \in DOMAIN messages'
             /\ messages'[i].task = messages[i].task
             /\ messages'[i].sender = messages[i].sender
  BY <1>1, <1>4 DEF GetMessages, Message
<1> QED
  BY ZenonT(40), <1>2, <1>3, <1>4
     DEF Next, TaskMoves, ProfileRequest, ProfileStep, MessageRequest, MessageStep, Fail,
         SubmitKyc, ReviewKyc, Accept, Rate, UpsertProfile, RecordReview, Assign, InsertRating,
         ReadRatings, WriteStats, SendMessage, ListThread

Covered(i) == \/ i \in shown
              \/ \E p \in Reqs : At(p, "list") /\ i \in Listed(p)

\* Whoever marked it lists it, or answers with an error.
LEMMA CoveredLasts ==
    ASSUME Typed, Next, NEW i \in DOMAIN messages, Covered(i)
    PROVE  Covered(i)'
<1>1. CASE i \in shown
  BY <1>1, RowsStay DEF Covered
<1>2. ASSUME NEW q \in Reqs, At(q, "list"), i \in Listed(q)
      PROVE  Covered(i)'
  <2>1. CASE req'[q] = req[q]
    BY <1>2, <2>1, MessagesStay DEF Covered, At, Listed, ForReader
  <2>2. CASE StepOf(q)
    <3>1. ListThread(q) \/ Fail(q)
      BY <1>2, <2>2
         DEF StepOf, ProfileRequest, ProfileStep, MessageRequest, MessageStep, SubmitKyc,
             ReviewKyc, Accept, Rate, UpsertProfile, RecordReview, Assign, InsertRating,
             ReadRatings, WriteStats, SendMessage, GetMessages, InsertMessage, Begin, At
    <3> QED BY <1>2, <3>1 DEF ListThread, Fail, Covered
  <2>3. ASSUME NEW p \in Reqs, StepOf(p), p # q PROVE req'[q] = req[q]
    BY <1>2, <2>3, OthersWait
  <2>4. ASSUME NEW t \in Tasks, TaskMoves(t) PROVE req'[q] = req[q]
    BY <2>4 DEF TaskMoves
  <2> QED BY <2>1, <2>2, <2>3, <2>4 DEF Next, StepOf
<1> QED
  BY <1>1, <1>2 DEF Covered

LEMMA ReadStep == Typed /\ ReadMeansShown /\ [Next]_vars => ReadMeansShown'
<1> SUFFICES ASSUME Typed, ReadMeansShown, [Next]_vars,
                    NEW i \in DOMAIN messages', messages'[i].read
             PROVE  Covered(i)'
  BY DEF ReadMeansShown, Covered
<1>1. messages \in Seq(Message) /\ req \in [Reqs -> Request]
  BY DEF Typed, TypeOK
<1>2. ASSUME i \in DOMAIN messages, messages[i].read, Next PROVE Covered(i)'
  BY <1>2, CoveredLasts DEF ReadMeansShown, Covered
<1>3. CASE UNCHANGED vars
  BY <1>3 DEF vars, ReadMeansShown, Covered, At, Listed, ForReader
<1>4. ASSUME NEW p \in Reqs, InsertMessage(p), Next PROVE Covered(i)'
  <2>1. i \in DOMAIN messages /\ messages[i].read
    BY <1>1, <1>4 DEF InsertMessage
  <2> QED BY <1>2, <1>4, <2>1
<1>5. ASSUME NEW p \in Reqs, NEW t \in Tasks, NEW u \in Users, GetMessages(p, t, u), Next
      PROVE  Covered(i)'
  <2>1. i \in DOMAIN messages
    BY <1>5 DEF GetMessages
  <2>2. CASE ForReader(u, t, i)
    <3>1. At(p, "list")' /\ req'[p].user = u /\ req'[p].task = t
      BY <1>1, <1>5 DEF GetMessages, Begin, At
    <3> QED BY <1>5, <2>1, <2>2, <3>1, MessagesStay DEF Covered, Listed, ForReader
  <2>3. CASE ~ForReader(u, t, i)
    <3>1. messages[i].read
      BY <1>5, <2>1, <2>3 DEF GetMessages
    <3> QED BY <1>2, <1>5, <2>1, <3>1
  <2> QED BY <2>2, <2>3
<1>6. CASE Next /\ UNCHANGED messages
  BY <1>2, <1>6
<1> QED
  BY ZenonT(40), <1>3, <1>4, <1>5, <1>6
     DEF Next, TaskMoves, ProfileRequest, ProfileStep, MessageRequest, MessageStep, Fail,
         SubmitKyc, ReviewKyc, Accept, Rate, UpsertProfile, RecordReview, Assign, InsertRating,
         ReadRatings, WriteStats, SendMessage, ListThread

\* A message that is marked read was shown to its reader or is about to be, with
\* messages arriving and requests failing in between (getMessages).
THEOREM ReadWasShown == Spec => []ReadMeansShown
<1>1. Init => ReadMeansShown
  BY DEF Init, DirectoryInit, ReadMeansShown
<1> QED
  BY <1>1, ReadStep, TypedAlways, PTL DEF Spec

-----------------------------------------------------------------------------
(* Notices are true                                                        *)

\* Who takes part in a task goes on doing so: a doer is never replaced.
LEMMA ParticipantsStay ==
    ASSUME Typed, Next, NEW t \in Tasks
    PROVE  Participants(t) \subseteq Participants(t)'
<1>1. task \in [Tasks -> TaskRow]
  BY DEF Typed, TypeOK
<1>2. task'[t].doer = task[t].doer \/ task[t].doer = NoUser
  <2>1. CASE UNCHANGED task
    BY <2>1
  <2>2. ASSUME NEW p \in Reqs, Assign(p)
        PROVE  task'[t].doer = task[t].doer \/ task[t].doer = NoUser
    BY <1>1, <2>2 DEF Assign
  <2>3. ASSUME NEW s \in Tasks, TaskMoves(s)
        PROVE  task'[t].doer = task[t].doer
    BY <1>1, <2>3 DEF TaskMoves, TaskRow
  <2> QED
    BY ZenonT(40), <2>1, <2>2, <2>3
       DEF Next, ProfileRequest, ProfileStep, MessageRequest, MessageStep, Fail, SubmitKyc,
           ReviewKyc, Accept, Rate, UpsertProfile, RecordReview, InsertRating, ReadRatings,
           WriteStats, SendMessage, GetMessages, InsertMessage, ListThread
<1> QED
  BY <1>2 DEF Participants

LEMMA TruthLasts ==
    ASSUME Typed, Next, NEW e \in notices, IsTrue(e)
    PROVE  IsTrue(e)'
<1>1. e \in Notice
  BY DEF Typed, TypeOK
<1>2. CASE e.type = "NEW_MESSAGE"
  <2>1. /\ e.of \in DOMAIN messages /\ messages[e.of].sender = e.by
        /\ e.to \in Participants(messages[e.of].task) \ {e.by}
    BY <1>2 DEF IsTrue
  <2>2. PICK t \in Tasks : t = messages[e.of].task
    <3>1. messages[e.of] \in Message
      BY <2>1 DEF Typed, TypeOK
    <3> QED BY <3>1 DEF Message
  <2>3. /\ e.of \in DOMAIN messages'
        /\ messages'[e.of].task = t /\ messages'[e.of].sender = e.by
    BY <2>1, <2>2, MessagesStay
  <2>4. e.to \in Participants(t)' \ {e.by}
    BY <2>1, <2>2, ParticipantsStay
  <2>5. Participants(messages[e.of].task)' = Participants(t)'
    BY <2>3 DEF Participants
  <2> QED BY <1>2, <2>3, <2>4, <2>5 DEF IsTrue
<1>3. CASE e.type # "NEW_MESSAGE"
  BY <1>1, <1>3, RowsStay DEF IsTrue, Notice
<1> QED
  BY <1>2, <1>3

\* What a request is about to tell stays true as long as it waits.
LEMMA TruthfulLasts ==
    ASSUME Typed, Next, NEW q \in Reqs, Truthful(q), req'[q] = req[q]
    PROVE  Truthful(q)'
<1>1. Equipped(req[q])
  BY DEF Typed, ReqsTyped
<1>2. ASSUME At(q, "insertMessage"), req[q].by # NoUser
      PROVE  (req[q].by \in Participants(req[q].task) \ {req[q].user})'
  <2>1. PICK t \in Tasks : t = req[q].task
    BY <1>1, <1>2 DEF Equipped, At
  <2>2. req[q].by \in Participants(t)' \ {req[q].user}
    BY <1>2, <2>1, ParticipantsStay DEF Truthful
  <2> QED BY <2>1, <2>2 DEF Participants
<1> QED
  BY <1>2, RowsStay DEF Truthful, At, Hirable

LEMMA NoticesKept ==
    ASSUME Typed, NoticeInv, Next, NEW p \in Reqs,
           \A q \in Reqs \ {p} : req'[q] = req[q], Truthful(p)',
           \A e \in notices' \ notices : IsTrue(e)',
           \A t \in Tasks : task'[t].doer \in {task[t].doer, NoUser} \/ Hirable(t, task'[t].doer)
    PROVE  NoticeInv'
<1>1. \A e \in notices' : IsTrue(e)'
  BY TruthLasts DEF NoticeInv, NoticesAreTrue
<1>2. \A q \in Reqs : Truthful(q)'
  BY TruthfulLasts DEF NoticeInv
<1>3. \A t \in Tasks : Hirable(t, task'[t].doer)
  BY DirectoryAssumption DEF NoticeInv, Hirable
<1> QED
  BY <1>1, <1>2, <1>3 DEF NoticeInv, NoticesAreTrue, Hirable

\* The steps that tell nobody, and lead to no statement that will.
Tells(p) == \/ \E u \in Users, t \in Tasks : \/ Accept(p, t, u) \/ SendMessage(p, t, u)
            \/ Assign(p) \/ InsertMessage(p) \/ RecordReview(p)
            \/ InsertRating(p) \/ ReadRatings(p) \/ WriteStats(p)

LEMMA TellsNobody ==
    ASSUME Typed, NoticeInv, NEW p \in Reqs, StepOf(p), ~Tells(p)
    PROVE  NoticeInv'
<1>1. req \in [Reqs -> Request]
  BY DEF Typed, ReqsTyped
<1>2. UNCHANGED <<task, notices>>
  BY DEF StepOf, Tells, ProfileRequest, ProfileStep, MessageRequest, MessageStep, Fail,
         SubmitKyc, ReviewKyc, Rate, UpsertProfile, GetMessages, ListThread
<1>3. req'[p].pc \notin {"assign", "insertMessage", "readRatings", "writeStats"}
  BY <1>1
     DEF StepOf, Tells, ProfileRequest, ProfileStep, MessageRequest, MessageStep, Fail,
         SubmitKyc, ReviewKyc, Rate, UpsertProfile, GetMessages, ListThread, Begin, Finish,
         Idle
<1>4. Truthful(p)'
  BY <1>3 DEF Truthful, At
<1> QED
  BY <1>2, <1>4, OthersWait, NoticesKept DEF Next, StepOf

LEMMA TellsTheTruth ==
    ASSUME Typed, NoticeInv, NEW p \in Reqs, Tells(p)
    PROVE  NoticeInv'
<1>1. /\ req \in [Reqs -> Request] /\ task \in [Tasks -> TaskRow]
      /\ messages \in Seq(Message) /\ req[p] \in Request /\ Equipped(req[p])
  BY DEF Typed, TypeOK, ReqsTyped
<1>2. StepOf(p) /\ Next
  BY DEF Tells, StepOf, ProfileRequest, ProfileStep, MessageRequest, MessageStep, Next
<1>3. \A q \in Reqs \ {p} : req'[q] = req[q]
  BY <1>2, OthersWait
<1>4. ASSUME NEW u \in Users, NEW t \in Tasks, Accept(p, t, u)
      PROVE  NoticeInv'
  <2>1. Truthful(p)'
    BY <1>1, <1>4 DEF Accept, Begin, Truthful, At, Hirable
  <2> QED BY <1>2, <1>3, <1>4, <2>1, NoticesKept DEF Accept
<1>5. ASSUME NEW u \in Users, NEW t \in Tasks, SendMessage(p, t, u)
      PROVE  NoticeInv'
  <2>1. PICK r \in Users \cup {NoUser} :
          Begin(p, "insertMessage", u, t, r, "NONE") /\ (r # NoUser => r \in Participants(t) \ {u})
    BY <1>1, <1>5, DirectoryAssumption
       DEF SendMessage, Participants, TaskRow, NoticeInv, Hirable
  <2>2. Truthful(p)'
    BY <1>1, <1>5, <2>1 DEF SendMessage, Begin, Truthful, At, Participants
  <2> QED BY <1>2, <1>3, <1>5, <2>2, NoticesKept DEF SendMessage
<1>6. CASE Assign(p)
  <2>1. Truthful(p)'
    BY <1>1, <1>6 DEF Assign, Finish, Idle, Truthful, At
  <2>2. \A t \in Tasks : task'[t].doer = task[t].doer \/ Hirable(t, task'[t].doer)
    BY <1>1, <1>6 DEF Assign, NoticeInv, Truthful, Hirable
  <2> QED BY <1>2, <1>3, <1>6, <2>1, <2>2, NoticesKept DEF Assign
<1>7. CASE InsertMessage(p)
  <2>1. Truthful(p)'
    BY <1>1, <1>7 DEF InsertMessage, Finish, Idle, Truthful, At
  <2>2. ASSUME NEW e \in notices' \ notices PROVE IsTrue(e)'
    <3>1. /\ req[p].by # NoUser /\ e.type = "NEW_MESSAGE"
          /\ e.to = req[p].by /\ e.by = req[p].user /\ e.of = Len(messages) + 1
      BY <1>7, <2>2 DEF InsertMessage, Notify
    <3>2. e.of \in DOMAIN messages' /\ messages'[e.of] =
            [task |-> req[p].task, sender |-> req[p].user, read |-> FALSE]
      BY <1>1, <1>7, <3>1 DEF InsertMessage
    <3>3. e.to \in Participants(req[p].task) \ {e.by}
      BY <1>7, <3>1 DEF InsertMessage, NoticeInv, Truthful
    <3>4. PICK t \in Tasks : t = req[p].task
      BY <1>1, <1>7 DEF InsertMessage, At, Equipped
    <3>5. e.to \in Participants(t)' \ {e.by}
      BY <1>2, <3>3, <3>4, ParticipantsStay
    <3>6. Participants(messages[e.of].task)' = Participants(t)'
      BY <3>2, <3>4 DEF Participants
    <3> QED BY <3>1, <3>2, <3>5, <3>6 DEF IsTrue
  <2> QED BY <1>2, <1>3, <1>7, <2>1, <2>2, NoticesKept DEF InsertMessage
<1>8. CASE RecordReview(p)
  <2>1. Truthful(p)'
    BY <1>1, <1>8 DEF RecordReview, Finish, Idle, Truthful, At
  <2>2. ASSUME NEW e \in notices' \ notices PROVE IsTrue(e)'
    <3>1. /\ e.type = IF req[p].action = "APPROVED" THEN "KYC_APPROVED" ELSE "KYC_REJECTED"
          /\ e.to = req[p].user
      BY <1>8, <2>2 DEF RecordReview, Notify
    <3>2. req[p].action \in {"APPROVED", "REJECTED"}
      BY <1>1, <1>8 DEF RecordReview, At, Equipped
    <3> QED BY <1>8, <3>1, <3>2 DEF RecordReview, IsTrue
  <2> QED BY <1>2, <1>3, <1>8, <2>1, <2>2, NoticesKept DEF RecordReview
<1>9. CASE InsertRating(p)
  <2>1. Truthful(p)'
    <3>1. CASE Finish(p)
      BY <1>1, <3>1 DEF Finish, Idle, Truthful, At
    <3>2. CASE /\ ratings' = ratings \cup
                    {[task |-> req[p].task, rater |-> req[p].by, ratee |-> req[p].user]}
               /\ Goto(p, "readRatings")
      <4>1. /\ req'[p].pc = "readRatings" /\ req'[p].task = req[p].task
            /\ req'[p].by = req[p].by /\ req'[p].user = req[p].user
        BY <1>1, <3>2 DEF Goto, Request
      <4> QED BY <3>2, <4>1 DEF Truthful, At
    <3> QED BY <1>9, <3>1, <3>2 DEF InsertRating
  <2> QED BY <1>2, <1>3, <1>9, <2>1, NoticesKept DEF InsertRating
<1>10. CASE ReadRatings(p) \/ WriteStats(p)
  <2>1. Truthful(p)'
    <3>1. CASE Finish(p)
      BY <1>1, <3>1 DEF Finish, Idle, Truthful, At
    <3>2. CASE req' = [req EXCEPT ![p].pc = "writeStats", ![p].stats = RatingsOf(req[p].user)]
      <4>1. /\ req'[p].pc = "writeStats" /\ req'[p].task = req[p].task
            /\ req'[p].by = req[p].by /\ req'[p].user = req[p].user
        BY <1>1, <3>2 DEF Request
      <4> QED BY <1>10, <4>1 DEF ReadRatings, WriteStats, At, Truthful, NoticeInv
    <3> QED BY <1>10, <3>1, <3>2 DEF ReadRatings, WriteStats
  <2>2. ASSUME NEW e \in notices' \ notices PROVE IsTrue(e)'
    <3>1. /\ e.type = "RATING_RECEIVED" /\ e.to = req[p].user
          /\ e.by = req[p].by /\ e.task = req[p].task
      BY <1>10, <2>2 DEF ReadRatings, WriteStats, NotifyRatee, Notify
    <3>2. [task |-> req[p].task, rater |-> req[p].by, ratee |-> req[p].user] \in ratings
      BY <1>10 DEF ReadRatings, WriteStats, At, NoticeInv, Truthful
    <3>3. ratings \subseteq ratings'
      BY <1>2, RowsStay
    <3> QED BY <3>1, <3>2, <3>3 DEF IsTrue
  <2> QED BY <1>2, <1>3, <1>10, <2>1, <2>2, NoticesKept DEF ReadRatings, WriteStats
<1> QED
  BY <1>4, <1>5, <1>6, <1>7, <1>8, <1>9, <1>10 DEF Tells

LEMMA NoticeStep == Typed /\ NoticeInv /\ [Next]_vars => NoticeInv'
<1> SUFFICES ASSUME Typed, NoticeInv, [Next]_vars PROVE NoticeInv'
  OBVIOUS
<1>1. CASE UNCHANGED vars
  BY <1>1 DEF vars, NoticeInv, NoticesAreTrue, IsTrue, Truthful, Hirable, At, Participants
<1>2. ASSUME NEW p \in Reqs, StepOf(p) PROVE NoticeInv'
  BY <1>2, TellsNobody, TellsTheTruth
<1>3. ASSUME NEW t \in Tasks, TaskMoves(t) PROVE NoticeInv'
  <2>1. \A s \in Tasks : task'[s].doer = task[s].doer
    BY <1>3 DEF TaskMoves, Typed, TypeOK, TaskRow
  <2>2. UNCHANGED <<profile, reviews, ratings, messages, notices, req>>
    BY <1>3 DEF TaskMoves
  <2>3. \A q \in Reqs : Truthful(q)'
    BY <1>3, <2>2, TruthfulLasts DEF NoticeInv, Next
  <2>4. \A e \in notices' : IsTrue(e)'
    BY <1>3, <2>2, TruthLasts DEF NoticeInv, NoticesAreTrue, Next
  <2> QED BY <2>1, <2>3, <2>4 DEF NoticeInv, NoticesAreTrue, Hirable
<1> QED
  BY <1>1, <1>2, <1>3 DEF Next, StepOf

\* Nobody is told of a verdict, a rating or a message that is not there, or of his
\* own doing, for any interleaving of requests (the emitters and the listener).
THEOREM NoticesHaveRows == Spec => []NoticesAreTrue
<1>1. Init => NoticeInv
  BY DirectoryAssumption
     DEF Init, DirectoryInit, NoticeInv, NoticesAreTrue, Truthful, At, Idle, Hirable
<1>2. NoticeInv => NoticesAreTrue
  BY DEF NoticeInv
<1> QED
  BY <1>1, <1>2, NoticeStep, TypedAlways, PTL DEF Spec

-----------------------------------------------------------------------------
(* Averages are exact                                                      *)

\* A user whose ratings, averages and requests a step leaves alone.
LEMMA SoundElsewhere ==
    ASSUME Typed, NEW p \in Reqs, NEW u \in Users, StatsSound(u),
           \A q \in Reqs \ {p} : req'[q] = req[q], ~Rates(p, u), ~Rates(p, u)',
           profile'[u].stats = profile[u].stats, RatingsOf(u)' = RatingsOf(u)
    PROVE  StatsSound(u)'
<1>1. \A q \in Reqs : Rates(q, u)' => q # p /\ Rates(q, u) /\ req'[q] = req[q]
  BY DEF Rates
<1>2. Exact(u)' <=> Exact(u)
  BY DEF Exact
<1>3. RatingInFlight(u) => RatingInFlight(u)'
  <2>1. ASSUME NEW q \in Reqs, req[q].pc \in RatingPc, req[q].user = u
        PROVE  RatingInFlight(u)'
    BY <2>1 DEF Rates, RatingInFlight
  <2> QED BY <2>1 DEF RatingInFlight
<1>4. \A q, r \in Reqs : Rates(q, u)' /\ Rates(r, u)' => q = r
  BY <1>1 DEF StatsSound
<1>5. ASSUME NEW q \in Reqs PROVE
        /\ req'[q].pc = "insertRating" /\ req'[q].user = u => Exact(u)'
        /\ req'[q].pc = "writeStats" /\ req'[q].user = u =>
             req'[q].stats = RatingsOf(u)'
  <2>1. req'[q].pc \in {"insertRating", "writeStats"} /\ req'[q].user = u => req'[q] = req[q]
    BY <1>1 DEF Rates, RatingPc
  <2> QED BY <1>2, <2>1 DEF StatsSound, At
<1>6. ~RatingInFlight(u)' => Exact(u)'
  BY <1>2, <1>3 DEF StatsSound
<1> QED
  BY <1>4, <1>5, <1>6 DEF StatsSound, At

\* A request that ends a rating before the row, or disturbs it.
LEMMA SoundEnds ==
    ASSUME Typed, NEW p \in Reqs, NEW u \in Users, StatsSound(u),
           \A q \in Reqs \ {p} : req'[q] = req[q], At(p, "insertRating"), req[p].user = u,
           req'[p].pc \notin RatingPc,
           profile'[u].stats = profile[u].stats, RatingsOf(u)' = RatingsOf(u)
    PROVE  StatsSound(u)'
<1>1. Rates(p, u) /\ Exact(u)
  BY DEF Rates, At, RatingPc, StatsSound
<1>2. \A q \in Reqs : ~Rates(q, u)'
  BY <1>1 DEF StatsSound, Rates
<1>3. Exact(u)'
  BY <1>1 DEF Exact
<1> QED
  BY <1>2, <1>3 DEF StatsSound, Rates, At, RatingPc

\* A request that goes on with the only rating of its user.
LEMMA SoundAlone ==
    ASSUME NEW p \in Reqs, NEW u \in Users,
           \A q \in Reqs : Rates(q, u)' => q = p,
           At(p, "insertRating")' /\ req'[p].user = u => Exact(u)',
           At(p, "writeStats")' /\ req'[p].user = u => req'[p].stats = RatingsOf(u)',
           Rates(p, u)' \/ Exact(u)'
    PROVE  StatsSound(u)'
<1>1. \A q \in Reqs : req'[q].pc \in {"insertRating", "writeStats"} /\ req'[q].user = u => q = p
  BY DEF Rates, RatingPc
<1>2. Rates(p, u)' => RatingInFlight(u)'
  BY DEF Rates, RatingInFlight
<1> QED
  BY <1>1, <1>2 DEF StatsSound, At

\* The steps of a rating that stay with it.
RatesOn(p) == \/ \E u \in Users, t \in Tasks : Rate(p, t, u)
              \/ InsertRating(p) \/ ReadRatings(p) \/ WriteStats(p)

LEMMA StatsQuiet ==
    ASSUME Typed, NEW p \in Reqs, StepOf(p), ~RatesOn(p),
           NEW u \in Users, <<"ratings", u>> \notin disturbed', StatsSound(u)
    PROVE  StatsSound(u)'
<1>1. req \in [Reqs -> Request] /\ profile \in [Users -> Profile]
  BY DEF Typed, TypeOK, ReqsTyped
<1>2. profile'[u].stats = profile[u].stats
  <2>1. CASE UpsertProfile(p)
    BY <1>1, <2>1 DEF UpsertProfile, Profile
  <2>2. ASSUME NEW v \in Users, NEW a \in {"APPROVED", "REJECTED"}, ReviewKyc(p, v, a)
        PROVE  profile'[u].stats = profile[u].stats
    BY <1>1, <2>2 DEF ReviewKyc, Profile
  <2>3. CASE UNCHANGED profile
    BY <2>3
  <2> QED
    BY <2>1, <2>2, <2>3
       DEF StepOf, RatesOn, ProfileRequest, ProfileStep, MessageRequest, MessageStep, Fail,
           SubmitKyc, Accept, RecordReview, Assign, SendMessage, GetMessages, InsertMessage,
           ListThread
<1>3. RatingsOf(u)' = RatingsOf(u)
  BY DEF StepOf, RatesOn, ProfileRequest, ProfileStep, MessageRequest, MessageStep, Fail,
         SubmitKyc, ReviewKyc, Accept, UpsertProfile, RecordReview, Assign, SendMessage,
         GetMessages, InsertMessage, ListThread, RatingsOf
<1>4. req'[p].pc \notin RatingPc
  BY <1>1
     DEF StepOf, RatesOn, ProfileRequest, ProfileStep, MessageRequest, MessageStep, Fail,
         SubmitKyc, ReviewKyc, Accept, UpsertProfile, RecordReview, Assign, SendMessage,
         GetMessages, InsertMessage, ListThread, Begin, Finish, Idle, RatingPc
<1>5. CASE ~Rates(p, u)
  BY <1>2, <1>3, <1>4, <1>5, OthersWait, SoundElsewhere DEF Rates
<1>6. CASE Rates(p, u)
  <2>1. Fail(p)
    BY <1>6
       DEF Rates, RatingPc, StepOf, RatesOn, ProfileRequest, ProfileStep, MessageRequest,
           MessageStep, SubmitKyc, ReviewKyc, Accept, UpsertProfile, RecordReview, Assign,
           SendMessage, GetMessages, InsertMessage, ListThread, Begin, At
  <2>2. At(p, "insertRating") /\ req[p].user = u
    BY <1>6, <2>1 DEF Fail, HalfDone, Rates, RatingPc, At
  <2> QED BY <1>2, <1>3, <1>4, <2>2, OthersWait, SoundEnds
<1> QED
  BY <1>5, <1>6

LEMMA StatsRates ==
    ASSUME Typed, NEW p \in Reqs, RatesOn(p),
           NEW u \in Users, <<"ratings", u>> \notin disturbed', StatsSound(u)
    PROVE  StatsSound(u)'
<1>1. /\ req \in [Reqs -> Request] /\ profile \in [Users -> Profile]
      /\ req[p] \in Request /\ Equipped(req[p])
  BY DEF Typed, TypeOK, ReqsTyped
<1>2. StepOf(p)
  BY DEF RatesOn, StepOf, ProfileRequest, ProfileStep
<1>3. \A q \in Reqs \ {p} : req'[q] = req[q]
  BY <1>2, OthersWait
<1>4. ASSUME NEW t \in Tasks, NEW w \in Users, Rate(p, t, w) PROVE StatsSound(u)'
  <2>1. PICK v \in Participants(t) \ {w} :
          /\ Begin(p, "insertRating", v, t, w, "NONE")
          /\ disturbed' = disturbed \cup {<<"ratings", x>> : x \in {y \in {v} : RatingInFlight(y)}}
    BY <1>4 DEF Rate
  <2>2. /\ req'[p].pc = "insertRating" /\ req'[p].user = v /\ ~Rates(p, u)
        /\ (Exact(u)' <=> Exact(u))
        /\ RatingsOf(u)' = RatingsOf(u) /\ profile'[u].stats = profile[u].stats
    BY <1>1, <1>4, <2>1 DEF Rate, Begin, At, Rates, RatingPc, Exact, RatingsOf
  <2>3. CASE u = v
    <3>1. ~RatingInFlight(u)
      BY <2>1, <2>3
    <3>2. Exact(u)'
      BY <2>2, <3>1 DEF StatsSound
    <3>3. \A q \in Reqs : Rates(q, u)' => q = p
      BY <1>3, <3>1 DEF Rates, RatingInFlight
    <3> QED BY <2>2, <3>2, <3>3, SoundAlone DEF At
  <2>4. CASE u # v
    BY <1>3, <2>2, <2>4, SoundElsewhere DEF Rates
  <2> QED BY <2>3, <2>4
<1>5. CASE InsertRating(p)
  <2> DEFINE row == [task |-> req[p].task, rater |-> req[p].by, ratee |-> req[p].user]
  <2>1. CASE Finish(p) /\ UNCHANGED ratings
    <3>1. /\ req'[p].pc \notin RatingPc /\ RatingsOf(u)' = RatingsOf(u)
          /\ profile'[u].stats = profile[u].stats
      BY <1>1, <1>5, <2>1 DEF InsertRating, Finish, Idle, RatingPc, RatingsOf
    <3>2. CASE Rates(p, u)
      BY <1>3, <1>5, <3>1, <3>2, SoundEnds DEF InsertRating, Rates
    <3>3. CASE ~Rates(p, u)
      BY <1>3, <3>1, <3>3, SoundElsewhere DEF Rates
    <3> QED BY <3>2, <3>3
  <2>2. CASE ratings' = ratings \cup {row} /\ Goto(p, "readRatings")
    <3>1. /\ req'[p].pc = "readRatings" /\ req'[p].user = req[p].user
          /\ profile'[u].stats = profile[u].stats
      BY <1>1, <1>5, <2>2 DEF InsertRating, Goto, Request
    <3>2. CASE req[p].user = u
      <4>1. Rates(p, u)
        BY <1>5, <3>2 DEF InsertRating, At, Rates, RatingPc
      <4>2. \A q \in Reqs : Rates(q, u)' => q = p
        BY <1>3, <4>1 DEF StatsSound, Rates
      <4>3. Rates(p, u)'
        BY <3>1, <3>2 DEF Rates, RatingPc
      <4> QED BY <3>1, <4>2, <4>3, SoundAlone DEF At
    <3>3. CASE req[p].user # u
      <4>1. RatingsOf(u)' = RatingsOf(u)
        BY <2>2, <3>3 DEF RatingsOf
      <4> QED BY <1>3, <3>1, <3>3, <4>1, SoundElsewhere DEF Rates
    <3> QED BY <3>2, <3>3
  <2> QED BY <1>5, <2>1, <2>2 DEF InsertRating
<1>6. CASE ReadRatings(p)
  <2>1. /\ profile'[u].stats = profile[u].stats /\ RatingsOf(u)' = RatingsOf(u)
    BY <1>6 DEF ReadRatings, RatingsOf
  <2>2. CASE Finish(p) /\ disturbed' = disturbed \cup {<<"ratings", req[p].user>>}
    <3>1. req'[p].pc \notin RatingPc /\ req[p].user # u
      BY <1>1, <2>2 DEF Finish, Idle, RatingPc
    <3> QED BY <1>3, <2>1, <3>1, SoundElsewhere DEF Rates
  <2>3. CASE req' = [req EXCEPT ![p].pc = "writeStats", ![p].stats = RatingsOf(req[p].user)]
    <3>1. /\ req'[p].pc = "writeStats" /\ req'[p].user = req[p].user
          /\ req'[p].stats = RatingsOf(req[p].user)
      BY <1>1, <2>3 DEF Request
    <3>2. CASE req[p].user = u
      <4>1. Rates(p, u) /\ Rates(p, u)'
        BY <1>6, <3>1, <3>2 DEF ReadRatings, At, Rates, RatingPc
      <4>2. \A q \in Reqs : Rates(q, u)' => q = p
        BY <1>3, <4>1 DEF StatsSound, Rates
      <4> QED BY <2>1, <3>1, <3>2, <4>1, <4>2, SoundAlone DEF At
    <3>3. CASE req[p].user # u
      BY <1>3, <2>1, <3>1, <3>3, SoundElsewhere DEF Rates
    <3> QED BY <3>2, <3>3
  <2> QED BY <1>6, <2>2, <2>3 DEF ReadRatings
<1>7. CASE WriteStats(p)
  <2>1. req'[p].pc \notin RatingPc /\ RatingsOf(u)' = RatingsOf(u)
    BY <1>1, <1>7 DEF WriteStats, Finish, Idle, RatingPc, RatingsOf
  <2>2. CASE req[p].user = u
    <3>1. Rates(p, u)
      BY <1>7, <2>2 DEF WriteStats, At, Rates, RatingPc
    <3>2. \A q \in Reqs : Rates(q, u)' => q = p
      BY <1>3, <3>1 DEF StatsSound, Rates
    <3>3. profile'[u].stats = req[p].stats
      BY <1>1, <1>7, <2>2 DEF WriteStats, Profile
    <3>4. Exact(u)'
      BY <1>7, <2>1, <2>2, <3>3 DEF WriteStats, StatsSound, Exact
    <3> QED BY <2>1, <3>2, <3>4, SoundAlone DEF At, RatingPc
  <2>3. CASE req[p].user # u
    <3>1. profile'[u].stats = profile[u].stats
      BY <1>1, <1>7, <2>3 DEF WriteStats
    <3> QED BY <1>3, <2>1, <2>3, <3>1, SoundElsewhere DEF Rates
  <2> QED BY <2>2, <2>3
<1> QED
  BY <1>4, <1>5, <1>6, <1>7 DEF RatesOn

LEMMA StatsStep == Typed /\ StatsInv /\ [Next]_vars => StatsInv'
<1> SUFFICES ASSUME Typed, StatsInv, [Next]_vars,
                    NEW u \in Users, <<"ratings", u>> \notin disturbed'
             PROVE  StatsSound(u)'
  BY DEF StatsInv
<1>1. CASE UNCHANGED vars \/ \E t \in Tasks : TaskMoves(t)
  <2>1. UNCHANGED <<profile, ratings, req, disturbed>>
    BY <1>1 DEF vars, TaskMoves
  <2> QED
    BY <2>1 DEF StatsInv, StatsSound, Rates, At, Exact, RatingsOf, RatingInFlight
<1>2. ASSUME NEW p \in Reqs, StepOf(p) PROVE StatsSound(u)'
  <2>1. StatsSound(u)
    BY <1>2, RowsStay DEF StatsInv, Next, StepOf
  <2> QED BY <1>2, <2>1, StatsQuiet, StatsRates
<1> QED
  BY <1>1, <1>2 DEF Next, StepOf

\* The averages of a user count every rating he got, unless two of his ratings were
\* made at once, one failed half-way, or one came before his profile (create,
\* updateDoerStats).
THEOREM AveragesExact == Spec => []StatsExactUnlessRaced
<1>1. Init => StatsInv
  BY DEF Init, DirectoryInit, StatsInv, StatsSound, Rates, Exact, RatingsOf, At, Idle, RatingPc
<1>2. StatsInv => StatsExactUnlessRaced
  BY DEF StatsInv, StatsExactUnlessRaced, StatsSound, Exact
<1> QED
  BY <1>1, <1>2, StatsStep, TypedAlways, PTL DEF Spec
=============================================================================
