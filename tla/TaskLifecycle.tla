--------------------------- MODULE TaskLifecycle ----------------------------
(***************************************************************************)
(* TasksService (tasks/tasks.service.ts): create, accept, markStarted,     *)
(* markComplete, confirm, releaseEscrow, cancel, forceCancel, raiseDispute.*)
(* Each method is a step that reads and checks, which stops at an await    *)
(* with what it read, and steps that write.  A check that fails answers    *)
(* with an error and changes nothing: the step is not enabled.             *)
(***************************************************************************)
EXTENDS Refunds, Payouts

CANCELLABLE_STATUSES == {"PENDING_PAYMENT", "OPEN", "ASSIGNED", "IN_PROGRESS"}

-----------------------------------------------------------------------------
(* create: the task row, then its escrow or posting-fee row, not in one    *)
(* transaction.                                                            *)

CreateTask(p, t) ==
    /\ task[t].status = "NONE"
    /\ task' = [task EXCEPT ![t].status = "PENDING_PAYMENT"]
    /\ Begin(p, "createMoney", t, NoUser, 0)
    /\ UNCHANGED <<escrow, fee, refund, payout, dispute, jobs, announced, gateway>>

CreateMoney(p) ==
    LET t == proc[p].t IN
    /\ At(p, "createMoney")
    /\ IF IsEscrow(t)
       THEN escrow' = [escrow EXCEPT ![t].status = "PENDING"] /\ UNCHANGED fee
       ELSE fee' = [fee EXCEPT ![t].status = "PENDING"] /\ UNCHANGED escrow
    /\ Return(p)
    /\ UNCHANGED <<task, refund, payout, dispute, jobs, announced, gateway>>

-----------------------------------------------------------------------------
(* accept *)

Accept(p, t, d) ==
    /\ task[t].status = "OPEN"
    /\ PosterOf[t] # d
    /\ d \in Doers
    /\ Begin(p, IF IsEscrow(t) THEN "acceptEscrow" ELSE "acceptWrite", t, d, 0)
    /\ UNCHANGED rows

AcceptEscrow(p) ==
    /\ At(p, "acceptEscrow")
    /\ IF escrow[proc[p].t].status = "HELD" THEN Goto(p, "acceptWrite") ELSE Return(p)
    /\ UNCHANGED rows

\* accept that writes the assignment without the CAS (mutant).
AcceptBlindly(p) ==
    LET t == proc[p].t IN
    /\ At(p, "acceptWrite")
    /\ task' = [task EXCEPT ![t].status = "ASSIGNED", ![t].doer = proc[p].who]
    /\ Return(p)
    /\ UNCHANGED <<escrow, fee, refund, payout, dispute, jobs, announced, gateway>>

\* The CAS {OPEN, doerId null} -> ASSIGNED.
AcceptWrite(p) ==
    LET t == proc[p].t IN
    /\ At(p, "acceptWrite")
    /\ task' = IF task[t].status = "OPEN" /\ task[t].doer = NoUser
               THEN [task EXCEPT ![t].status = "ASSIGNED", ![t].doer = proc[p].who]
               ELSE task
    /\ Return(p)
    /\ UNCHANGED <<escrow, fee, refund, payout, dispute, jobs, announced, gateway>>

-----------------------------------------------------------------------------
(* markStarted, markComplete: checked on a snapshot, written blindly.      *)

MarkStarted(p, t) ==
    /\ task[t].doer # NoUser
    /\ task[t].status = "ASSIGNED"
    /\ Begin(p, "startWrite", t, NoUser, 0)
    /\ UNCHANGED rows

StartWrite(p) ==
    /\ At(p, "startWrite")
    /\ task' = [task EXCEPT ![proc[p].t].status = "IN_PROGRESS"]
    /\ Return(p)
    /\ UNCHANGED <<escrow, fee, refund, payout, dispute, jobs, announced, gateway>>

MarkComplete(p, t) ==
    /\ task[t].doer # NoUser
    /\ task[t].status \in {"ASSIGNED", "IN_PROGRESS"}
    /\ Begin(p, "completeWrite", t, NoUser, 0)
    /\ UNCHANGED rows

\* completedAt becomes now.
CompleteWrite(p) ==
    LET t == proc[p].t IN
    /\ At(p, "completeWrite")
    /\ task' = [task EXCEPT ![t].status = "COMPLETED", ![t].due = FALSE]
    /\ Return(p)
    /\ UNCHANGED <<escrow, fee, refund, payout, dispute, jobs, announced, gateway>>

-----------------------------------------------------------------------------
(* confirm and releaseEscrow *)

Confirm(p, t) ==
    /\ task[t].status = "COMPLETED"
    /\ Begin(p, IF IsEscrow(t) THEN "confirmEscrow" ELSE "confirmCash",
             t, task[t].doer, 0)
    /\ UNCHANGED rows

ConfirmEscrow(p) ==
    /\ At(p, "confirmEscrow")
    /\ IF escrow[proc[p].t].status = "HELD" THEN Goto(p, "release") ELSE Return(p)
    /\ UNCHANGED rows

ConfirmCash(p) ==
    /\ At(p, "confirmCash")
    /\ task' = [task EXCEPT ![proc[p].t].confirmed = TRUE]
    /\ Return(p)
    /\ UNCHANGED <<escrow, fee, refund, payout, dispute, jobs, announced, gateway>>

\* releaseEscrow that trusts the caller's check of the escrow (mutant).
ReleaseTrusting(p) ==
    LET t == proc[p].t
        d == proc[p].who IN
    /\ At(p, "release")
    /\ d # NoUser
    /\ escrow' = [escrow EXCEPT ![t].status = "RELEASED", ![t].doer = d]
    /\ jobs' = [jobs EXCEPT ![d] = @ + 1]
    /\ Goto(p, "payoutFind")
    /\ UNCHANGED <<task, fee, refund, payout, dispute, announced, gateway>>

\* releaseEscrow that asks for a payout whatever the CAS decided (mutant).
ReleaseAlwaysPays(p) ==
    LET t == proc[p].t
        d == proc[p].who
        held == escrow[t].status = "HELD" IN
    /\ At(p, "release")
    /\ d # NoUser
    /\ escrow' = IF held THEN [escrow EXCEPT ![t].status = "RELEASED", ![t].doer = d]
                 ELSE escrow
    /\ jobs' = IF held THEN [jobs EXCEPT ![d] = @ + 1] ELSE jobs
    /\ Goto(p, "payoutFind")
    /\ UNCHANGED <<task, fee, refund, payout, dispute, announced, gateway>>

\* The release transaction: the CAS HELD -> RELEASED, the doer's job count if
\* it won, and confirmedAt (markConfirmed, when confirm is the caller) either
\* way.  Only the winner goes on to the payout.
ReleaseEscrow(p) ==
    LET t == proc[p].t
        d == proc[p].who
        released == escrow[t].status = "HELD" IN
    /\ At(p, "release")
    /\ escrow' = IF released
                 THEN [escrow EXCEPT ![t].status = "RELEASED",
                                     ![t].doer = IF d = NoUser THEN @ ELSE d]
                 ELSE escrow
    /\ jobs' = IF released /\ d # NoUser THEN [jobs EXCEPT ![d] = @ + 1] ELSE jobs
    /\ task' = IF proc[p].caller = "idle" THEN [task EXCEPT ![t].confirmed = TRUE]
               ELSE task
    /\ IF released /\ d # NoUser THEN Goto(p, "payoutFind") ELSE Return(p)
    /\ UNCHANGED <<fee, refund, payout, dispute, announced, gateway>>

-----------------------------------------------------------------------------
(* cancel and forceCancel *)

\* u is the poster or the doer; forceCancel makes no such check.
Cancel(p, t, u) ==
    /\ u \in {PosterOf[t], task[t].doer}
    /\ task[t].status \in CANCELLABLE_STATUSES
    /\ Begin(p, "cancelTx", t, NoUser, 0)
    /\ UNCHANGED rows

ForceCancel(p, t) ==
    /\ task[t].status \in CANCELLABLE_STATUSES
    /\ Begin(p, "cancelTx", t, NoUser, 0)
    /\ UNCHANGED rows

\* A cancel that takes the money for returned at once (mutant).
CancelRefunded(p) ==
    LET t == proc[p].t IN
    /\ At(p, "cancelTx")
    /\ task[t].status \in CANCELLABLE_STATUSES
    /\ task' = [task EXCEPT ![t].status = "CANCELLED"]
    /\ escrow' = IF IsEscrow(t) /\ escrow[t].status = "HELD"
                 THEN [escrow EXCEPT ![t].status = "REFUNDED"]
                 ELSE escrow
    /\ Return(p)
    /\ UNCHANGED <<fee, refund, payout, dispute, jobs, announced, gateway>>

\* The transaction of executeCancel: task CAS, else it throws and rolls back;
\* HELD money becomes REFUND_PENDING in the same commit.
CancelTx(p) ==
    LET t == proc[p].t IN
    /\ At(p, "cancelTx")
    /\ \/ /\ task[t].status \in CANCELLABLE_STATUSES
          /\ task' = [task EXCEPT ![t].status = "CANCELLED"]
          /\ escrow' = IF IsEscrow(t) /\ escrow[t].status = "HELD"
                       THEN [escrow EXCEPT ![t].status = "REFUND_PENDING"]
                       ELSE escrow
          /\ IF IsEscrow(t) THEN Goto(p, "cancelEscrow") ELSE Return(p)
       \/ /\ task[t].status \notin CANCELLABLE_STATUSES
          /\ Return(p)
          /\ UNCHANGED <<task, escrow>>
    /\ UNCHANGED <<fee, refund, payout, dispute, jobs, announced, gateway>>

CancelEscrow(p) ==
    /\ At(p, "cancelEscrow")
    /\ IF escrow[proc[p].t].status = "REFUND_PENDING" THEN Goto(p, "refundFind")
                                                       ELSE Return(p)
    /\ UNCHANGED rows

-----------------------------------------------------------------------------
(* raiseDispute *)

RaiseDispute(p, t, u) ==
    /\ u \in {PosterOf[t], task[t].doer}
    /\ task[t].status \in {"ASSIGNED", "IN_PROGRESS", "COMPLETED"}
    /\ Begin(p, "disputeTx", t, NoUser, 0)
    /\ UNCHANGED rows

\* raiseDispute that forgets to freeze the escrow (mutant).
DisputeTaskOnly(p) ==
    LET t == proc[p].t IN
    /\ At(p, "disputeTx")
    /\ dispute[t] = "NONE"
    /\ task' = [task EXCEPT ![t].status = "DISPUTED"]
    /\ dispute' = [dispute EXCEPT ![t] = "OPEN"]
    /\ Return(p)
    /\ UNCHANGED <<escrow, fee, refund, payout, jobs, announced, gateway>>

\* The transaction of raiseDispute, all blind; taskId is unique in Dispute, so
\* a second one is rolled back.
DisputeTx(p) ==
    LET t == proc[p].t IN
    /\ At(p, "disputeTx")
    /\ \/ /\ dispute[t] = "NONE"
          /\ task' = [task EXCEPT ![t].status = "DISPUTED"]
          /\ dispute' = [dispute EXCEPT ![t] = "OPEN"]
          /\ escrow' = IF IsEscrow(t) THEN [escrow EXCEPT ![t].status = "DISPUTED"]
                       ELSE escrow
       \/ /\ dispute[t] # "NONE"
          /\ UNCHANGED <<task, dispute, escrow>>
    /\ Return(p)
    /\ UNCHANGED <<fee, refund, payout, jobs, announced, gateway>>

-----------------------------------------------------------------------------
TaskRequest(p, t) ==
    \/ CreateTask(p, t) \/ MarkStarted(p, t) \/ MarkComplete(p, t)
    \/ Confirm(p, t) \/ ForceCancel(p, t)
    \/ \E u \in Users : Accept(p, t, u) \/ Cancel(p, t, u) \/ RaiseDispute(p, t, u)

TaskStep(p) ==
    \/ CreateMoney(p) \/ AcceptEscrow(p) \/ AcceptWrite(p) \/ StartWrite(p)
    \/ CompleteWrite(p) \/ ConfirmEscrow(p) \/ ConfirmCash(p)
    \/ ReleaseEscrow(p) \/ CancelTx(p) \/ CancelEscrow(p) \/ DisputeTx(p)
=============================================================================
