----------------------------- MODULE Community ------------------------------
(***************************************************************************)
(* KYC, ratings, messages and notifications together, over tasks that move *)
(* on meanwhile.                                                           *)
(***************************************************************************)
EXTENDS Profiles, Messages

\* The changes of status that TasksService and resolveDispute commit, their
\* stale writes by id included; all but a cancel need a doer.
Moves == ({"OPEN", "ASSIGNED"} \X {"CANCELLED"})
           \cup ({"ASSIGNED", "CANCELLED"} \X {"COMPLETED"})
           \cup ({"COMPLETED", "CANCELLED"} \X {"ASSIGNED"})

TaskMoves(t) ==
    /\ \E m \in Moves :
         /\ task[t].status = m[1]
         /\ m[2] # "CANCELLED" => task[t].doer # NoUser
         /\ task' = [task EXCEPT ![t].status = m[2]]
    /\ UNCHANGED <<profile, reviews, ratings, messages, notices, req, shown, disturbed>>

Init == DirectoryInit

Next ==
    \/ \E p \in Reqs : \/ ProfileRequest(p) \/ MessageRequest(p)
                       \/ ProfileStep(p) \/ MessageStep(p) \/ Fail(p)
    \/ \E t \in Tasks : TaskMoves(t)

Spec == Init /\ [][Next]_vars

-----------------------------------------------------------------------------
\* Nobody works who was never approved: the doer of a task has an APPROVED
\* review on record, or one about to be recorded, however accept's check of
\* the profile and the reviews of other admins interleave (accept,
\* approveKyc).  A review whose row was lost in a failure is excepted.
Approved(u) ==
    \/ [user |-> u, action |-> "APPROVED"] \in reviews
    \/ \E p \in Reqs : /\ At(p, "recordReview")
                       /\ req[p].user = u
                       /\ req[p].action = "APPROVED"

HiredWereApproved ==
    \A t \in Tasks :
        task[t].doer # NoUser =>
            Approved(task[t].doer) \/ <<"review", task[t].doer>> \in disturbed

\* The averages of a user count every rating he got, unless two ratings of
\* his were being made at once, one failed half-way, or one was made while he
\* had no profile to put it into (RatingsService.create, updateDoerStats).
StatsExactUnlessRaced ==
    \A u \in Users :
        ~RatingInFlight(u) /\ <<"ratings", u>> \notin disturbed =>
            profile[u].stats = RatingsOf(u)

\* A message is marked read only if its reader gets to see it: the thread
\* was listed to him, or an error took its place, or it is about to be listed
\* (getMessages).
ReadMeansShown ==
    \A i \in DOMAIN messages : messages[i].read =>
        \/ i \in shown
        \/ \E p \in Reqs : At(p, "list") /\ i \in Listed(p)

\* Nobody is told of something that did not happen, or of his own doing: a
\* notification has its row behind it, and goes to the one whom the row
\* concerns (RecordReview, create, sendMessage and the listener).
IsTrue(e) ==
    CASE e.type = "KYC_APPROVED" -> [user |-> e.to, action |-> "APPROVED"] \in reviews
      [] e.type = "KYC_REJECTED" -> [user |-> e.to, action |-> "REJECTED"] \in reviews
      [] e.type = "RATING_RECEIVED" ->
           [task |-> e.task, rater |-> e.by, ratee |-> e.to] \in ratings
      [] e.type = "NEW_MESSAGE" ->
           /\ e.of \in DOMAIN messages
           /\ messages[e.of].sender = e.by
           /\ e.to \in Participants(messages[e.of].task) \ {e.by}

NoticesAreTrue == \A e \in notices : IsTrue(e)
=============================================================================
