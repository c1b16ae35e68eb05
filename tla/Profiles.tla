------------------------------ MODULE Profiles ------------------------------
(***************************************************************************)
(* What writes a doer profile: DoerService.submitKyc, the KYC review of    *)
(* AdminService and RatingsService; and the accept that trusts it.  None   *)
(* of them uses a transaction.                                             *)
(***************************************************************************)
EXTENDS Directory

(* submitKyc.  The documents, references and payout details are not kept,  *)
(* nor isDoer, which no guard reads.                                       *)

SubmitKyc(p, u) ==
    /\ u \in Applicants
    /\ profile[u].kyc # "APPROVED"
    /\ Begin(p, "upsert", u, NoTask, NoUser, "NONE")
    /\ UNCHANGED <<task, profile, reviews, ratings, messages, notices, shown, disturbed>>

\* An upsert that starts the row afresh, averages included (mutant).
UpsertProfileAfresh(p) ==
    /\ At(p, "upsert")
    /\ profile' = [profile EXCEPT ![req[p].user] = [kyc |-> "PENDING", stats |-> {}]]
    /\ Finish(p)
    /\ UNCHANGED <<task, reviews, ratings, messages, notices, shown, disturbed>>

UpsertProfile(p) ==
    /\ At(p, "upsert")
    /\ profile' = [profile EXCEPT ![req[p].user].kyc = "PENDING"]
    /\ Finish(p)
    /\ UNCHANGED <<task, reviews, ratings, messages, notices, shown, disturbed>>

-----------------------------------------------------------------------------
(* approveKyc and rejectKyc: neither asks for the present status.          *)

\* The event emitted before the review is recorded (mutant).
ReviewKycTells(p, u, action) ==
    /\ HasProfile(u)
    /\ Begin(p, "recordReview", u, NoTask, NoUser, action)
    /\ profile' = [profile EXCEPT ![u].kyc = action]
    /\ Notify(IF action = "APPROVED" THEN "KYC_APPROVED" ELSE "KYC_REJECTED",
              u, NoUser, NoTask, 0)
    /\ UNCHANGED <<task, reviews, ratings, messages, shown, disturbed>>

\* A profile stays, so looking for it and updating it are one step.
ReviewKyc(p, u, action) ==
    /\ HasProfile(u)
    /\ Begin(p, "recordReview", u, NoTask, NoUser, action)
    /\ profile' = [profile EXCEPT ![u].kyc = action]
    /\ UNCHANGED <<task, reviews, ratings, messages, notices, shown, disturbed>>

RecordReview(p) ==
    /\ At(p, "recordReview")
    /\ reviews' = reviews \cup {[user |-> req[p].user, action |-> req[p].action]}
    /\ Notify(IF req[p].action = "APPROVED" THEN "KYC_APPROVED" ELSE "KYC_REJECTED",
              req[p].user, NoUser, NoTask, 0)
    /\ Finish(p)
    /\ UNCHANGED <<task, profile, ratings, messages, shown, disturbed>>

-----------------------------------------------------------------------------
(* accept: the profile is checked, the CAS repeats only the task's part.   *)

\* accept that asks for a profile only (mutant).
AcceptAnyProfile(p, t, u) ==
    /\ task[t].status = "OPEN"
    /\ u # PosterOf[t]
    /\ HasProfile(u)
    /\ Begin(p, "assign", u, t, NoUser, "NONE")
    /\ UNCHANGED <<task, profile, reviews, ratings, messages, notices, shown, disturbed>>

Accept(p, t, u) ==
    /\ task[t].status = "OPEN"
    /\ u # PosterOf[t]
    /\ profile[u].kyc = "APPROVED"
    /\ Begin(p, "assign", u, t, NoUser, "NONE")
    /\ UNCHANGED <<task, profile, reviews, ratings, messages, notices, shown, disturbed>>

Assign(p) ==
    /\ At(p, "assign")
    /\ LET t == req[p].task IN
         task' = IF task[t] = [status |-> "OPEN", doer |-> NoUser]
                 THEN [task EXCEPT ![t] = [status |-> "ASSIGNED", doer |-> req[p].user]]
                 ELSE task
    /\ Finish(p)
    /\ UNCHANGED <<profile, reviews, ratings, messages, notices, shown, disturbed>>

-----------------------------------------------------------------------------
(* RatingsService.create.                                                  *)

RatingPc == {"insertRating", "readRatings", "writeStats"}
RatingInFlight(u) == \E q \in Reqs : req[q].pc \in RatingPc /\ req[q].user = u

Rated(t, u) == \E r \in ratings : r.task = t /\ r.rater = u

\* Each participant rates the other one, once.  That the rating is not there
\* is read later than the task, but InsertRating decides on it once more.
Rate(p, t, u) ==
    /\ task[t].status = "COMPLETED"
    /\ u \in Participants(t)
    /\ ~Rated(t, u)
    /\ \E ratee \in Participants(t) \ {u} :
         /\ Begin(p, "insertRating", ratee, t, u, "NONE")
         /\ disturbed' = disturbed \cup {<<"ratings", v>> : v \in {w \in {ratee} : RatingInFlight(w)}}
    /\ UNCHANGED <<task, profile, reviews, ratings, messages, notices, shown>>

\* The unique index on task and rater rejects a second one.
InsertRating(p) ==
    /\ At(p, "insertRating")
    /\ IF Rated(req[p].task, req[p].by)
       THEN Finish(p) /\ UNCHANGED ratings
       ELSE /\ ratings' = ratings \cup
                 {[task |-> req[p].task, rater |-> req[p].by, ratee |-> req[p].user]}
            /\ Goto(p, "readRatings")
    /\ UNCHANGED <<task, profile, reviews, messages, notices, shown, disturbed>>

NotifyRatee(p) == Notify("RATING_RECEIVED", req[p].user, req[p].by, req[p].task, 0)

\* updateDoerStats: without a profile there is nothing to update.  A profile
\* stays, so looking for it and reading the ratings are one step.
ReadRatings(p) ==
    /\ At(p, "readRatings")
    /\ IF HasProfile(req[p].user)
       THEN /\ req' = [req EXCEPT ![p].pc = "writeStats",
                                  ![p].stats = RatingsOf(req[p].user)]
            /\ UNCHANGED <<notices, disturbed>>
       ELSE /\ NotifyRatee(p)
            /\ Finish(p)
            /\ disturbed' = disturbed \cup {<<"ratings", req[p].user>>}
    /\ UNCHANGED <<task, profile, reviews, ratings, messages, shown>>

WriteStats(p) ==
    /\ At(p, "writeStats")
    /\ profile' = [profile EXCEPT ![req[p].user].stats = req[p].stats]
    /\ NotifyRatee(p)
    /\ Finish(p)
    /\ UNCHANGED <<task, reviews, ratings, messages, shown, disturbed>>

-----------------------------------------------------------------------------
ProfileRequest(p) ==
    \E u \in Users :
        \/ SubmitKyc(p, u)
        \/ \E action \in {"APPROVED", "REJECTED"} : ReviewKyc(p, u, action)
        \/ \E t \in Tasks : Accept(p, t, u) \/ Rate(p, t, u)

ProfileStep(p) ==
    \/ UpsertProfile(p) \/ RecordReview(p) \/ Assign(p)
    \/ InsertRating(p) \/ ReadRatings(p) \/ WriteStats(p)
=============================================================================
