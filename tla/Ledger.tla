------------------------------- MODULE Ledger -------------------------------
(***************************************************************************)
(* The rows that the money-moving services of HelpMi share, and the        *)
(* requests in flight over them.                                           *)
(*                                                                         *)
(* Every service method is a chain of awaited database statements.  A      *)
(* statement, or a $transaction block, is one atomic step; between two     *)
(* awaits any other request may run.  A request in flight is a record:     *)
(* where it will resume (pc) and the values it read and still holds.       *)
(***************************************************************************)
EXTENDS Integers, FiniteSets

CONSTANTS
    Tasks,              \* task ids; an escrow, fee, refund, ... has its task's id
    Users,              \* user ids
    Doers,              \* users whose KYC is APPROVED at a sufficient tier
    PosterOf,           \* the user that posts a task
    CashTasks,          \* the tasks posted with paymentMode CASH
    Reqs,               \* slots for HTTP requests being served concurrently
    Crons,              \* slots for cron jobs running concurrently
    NoTask, NoUser,     \* the null of a task id and of a user id
    MaxCharges,         \* bound: how often one order is paid at the gateway
    ProviderConfigured, \* are the PayHere Merchant API credentials set?
    Faults,             \* what may go wrong: a subset of FaultKinds
    SweepLimit          \* "take" of the reconcile scan

\* "reject": a statement is rejected or the process dies; "refuse": the gateway
\* refuses a refund; "lose": it makes the refund and its answer is lost.
FaultKinds == {"reject", "refuse", "lose"}

ASSUME LedgerAssumption ==
    /\ IsFiniteSet(Tasks)
    /\ Doers \subseteq Users
    /\ PosterOf \in [Tasks -> Users]
    /\ CashTasks \subseteq Tasks
    /\ NoTask \notin Tasks
    /\ NoUser \notin Users
    /\ MaxCharges \in Nat
    /\ ProviderConfigured \in BOOLEAN
    /\ Faults \subseteq FaultKinds
    /\ SweepLimit \in Nat

VARIABLES
    task,       \* Task rows
    escrow,     \* Escrow rows
    fee,        \* PostingFee rows
    refund,     \* status of the Refund row of an escrow
    payout,     \* status of the Payout row of an escrow
    dispute,    \* status of the Dispute row of a task
    jobs,       \* DoerProfile.totalJobsCompleted
    announced,  \* how many TASK_POSTED events a task had
    gateway,    \* what PayHere knows of a task's order
    proc        \* the requests and cron jobs in flight

rows == <<task, escrow, fee, refund, payout, dispute, jobs, announced, gateway>>
vars == <<task, escrow, fee, refund, payout, dispute, jobs, announced, gateway, proc>>

-----------------------------------------------------------------------------
(* The columns.  "NONE" is a row that has not been inserted.  A payment id *)
(* is a number, 0 for null; due says that completedAt is at least          *)
(* AUTO_RELEASE_AFTER_HOURS old.                                           *)

TaskStatus == {"NONE", "PENDING_PAYMENT", "OPEN", "ASSIGNED", "IN_PROGRESS",
               "COMPLETED", "CANCELLED", "DISPUTED"}
EscrowStatus == {"NONE", "PENDING", "HELD", "RELEASED", "REFUNDED", "DISPUTED",
                 "REFUND_PENDING"}
FeeStatus == {"NONE", "PENDING", "PAID", "REFUNDED"}
RefundStatus == {"NONE", "PENDING", "PROCESSING", "COMPLETED", "FAILED"}
PayoutStatus == {"NONE", "PENDING", "PAID"}
DisputeStatus == {"NONE", "OPEN", "RESOLVED"}

Payments == 0 .. MaxCharges
UserOrNull == Users \cup {NoUser}

TaskRow == [status : TaskStatus, doer : UserOrNull,
            confirmed : BOOLEAN, due : BOOLEAN]
EscrowRow == [status : EscrowStatus, pay : Payments, doer : UserOrNull]
FeeRow == [status : FeeStatus, pay : Payments]
GatewayOrder == [checkout : BOOLEAN, charges : Payments, refunded : BOOLEAN]

IsEscrow(t) == t \notin CashTasks

-----------------------------------------------------------------------------
(* The requests in flight.                                                 *)

Procs == Reqs \cup Crons

\* Where a handler resumes that has its task to itself.
TaskPc == {"createMoney", "acceptEscrow", "acceptWrite", "startWrite",
           "completeWrite", "confirmEscrow", "confirmCash", "release",
           "cancelTx", "cancelEscrow", "disputeTx", "orderWrite",
           "escrowPaymentTx", "feePaymentTx", "announce", "refundFind",
           "refundExisting", "refundClaim", "refundCreate", "execute",
           "provider", "refundOk", "refundFail", "payoutFind",
           "payoutCreate", "payoutUpdate"}

\* Where the loop of a cron job resumes.
SweepPc == {"sweep", "anomalies", "autoRelease"}

Proc == [pc : TaskPc \cup SweepPc \cup {"idle"},
         t : Tasks \cup {NoTask},       \* the task it is about
         who : UserOrNull,              \* the doer it acts for
         pay : Payments,                \* the payment id of a webhook
         refundable : BOOLEAN,          \* what initiateForEscrow read
         caller : SweepPc \cup {"idle"},\* where a sub-call returns to
         todo : SUBSET Tasks]           \* what a cron loop has left

Idle == [pc |-> "idle", t |-> NoTask, who |-> NoUser, pay |-> 0,
         refundable |-> FALSE, caller |-> "idle", todo |-> {}]

At(p, l) == proc[p].pc = l

\* An HTTP request arrives, passes its first checks and stops at an await.
Begin(p, l, t, who, pay) ==
    /\ p \in Reqs
    /\ At(p, "idle")
    /\ proc' = [proc EXCEPT ![p] =
                  [Idle EXCEPT !.pc = l, !.t = t, !.who = who, !.pay = pay]]

Goto(p, l) == proc' = [proc EXCEPT ![p].pc = l]

\* Back to the client, or to the loop of the cron job that made the call.
Return(p) == proc' = [proc EXCEPT ![p] =
                [Idle EXCEPT !.pc = proc[p].caller, !.todo = proc[p].todo]]

\* A statement is rejected (the caller's catch goes on), or the process dies.
Fail(p) ==
    /\ "reject" \in Faults
    /\ ~At(p, "idle")
    /\ Return(p) \/ proc' = [proc EXCEPT ![p] = Idle]
    /\ UNCHANGED rows

-----------------------------------------------------------------------------
LedgerInit ==
    /\ task = [t \in Tasks |-> [status |-> "NONE", doer |-> NoUser,
                                confirmed |-> FALSE, due |-> FALSE]]
    /\ escrow = [t \in Tasks |-> [status |-> "NONE", pay |-> 0, doer |-> NoUser]]
    /\ fee = [t \in Tasks |-> [status |-> "NONE", pay |-> 0]]
    /\ refund = [t \in Tasks |-> "NONE"]
    /\ payout = [t \in Tasks |-> "NONE"]
    /\ dispute = [t \in Tasks |-> "NONE"]
    /\ jobs = [u \in Users |-> 0]
    /\ announced = [t \in Tasks |-> 0]
    /\ gateway = [t \in Tasks |-> [checkout |-> FALSE, charges |-> 0,
                                   refunded |-> FALSE]]
    /\ proc = [p \in Procs |-> Idle]

RowsOK ==
    /\ task \in [Tasks -> TaskRow]
    /\ escrow \in [Tasks -> EscrowRow]
    /\ fee \in [Tasks -> FeeRow]
    /\ refund \in [Tasks -> RefundStatus]
    /\ payout \in [Tasks -> PayoutStatus]
    /\ dispute \in [Tasks -> DisputeStatus]
    /\ jobs \in [Users -> Nat]
    /\ announced \in [Tasks -> Nat]
    /\ gateway \in [Tasks -> GatewayOrder]

ProcsOK ==
    /\ proc \in [Procs -> Proc]
    /\ \A p \in Procs : proc[p].pc \in TaskPc => proc[p].t \in Tasks

\* Every row and every request in flight has its type; one that is about a
\* task has one.
TypeOK == RowsOK /\ ProcsOK
=============================================================================
