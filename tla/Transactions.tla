---------------------------- MODULE Transactions ----------------------------
(***************************************************************************)
(* What each database transaction of the backend does to the rows of one   *)
(* escrow task, as if it ran alone: the atomic steps out of which the      *)
(* modules of the money core are made.                                     *)
(***************************************************************************)
VARIABLE row    \* the committed rows: task, escrow, profile, dispute, refund

CANCELLABLE_STATUSES == {"PENDING_PAYMENT", "OPEN", "ASSIGNED"}

\* IN_PROGRESS counts as ASSIGNED; "credited" is the doer's job count having
\* been incremented for this task.
TransactionsInit ==
    row = [task |-> "PENDING_PAYMENT", escrow |-> "PENDING",
           profile |-> "uncredited", dispute |-> "NONE", refund |-> "unsettled"]

Accept ==
    /\ row.task = "OPEN"
    /\ row' = [row EXCEPT !.task = "ASSIGNED"]

\* markStarted and markComplete write by id, whatever the status has become.
Start == row' = [row EXCEPT !.task = "ASSIGNED"]
Complete == row' = [row EXCEPT !.task = "COMPLETED"]

Cancel ==
    /\ row.task \in CANCELLABLE_STATUSES
    /\ row' = [row EXCEPT !.task = "CANCELLED",
                          !.escrow = IF @ = "HELD" THEN "REFUND_PENDING" ELSE @]

\* The webhook promotes the task and holds the money, or hands the money of a
\* cancelled task to the refunds.
Fund ==
    /\ row.escrow = "PENDING"
    /\ row' = [row EXCEPT
                 !.task = IF @ = "PENDING_PAYMENT" THEN "OPEN" ELSE @,
                 !.escrow = IF row.task = "CANCELLED" THEN "REFUND_PENDING" ELSE "HELD"]

Release ==
    /\ row.escrow = "HELD"
    /\ row' = [row EXCEPT !.escrow = "RELEASED", !.profile = "credited"]

\* initiateForEscrow claims the money.
Claim ==
    /\ row.escrow \in {"HELD", "DISPUTED"}
    /\ row' = [row EXCEPT !.escrow = "REFUND_PENDING"]

Settle == row' = [row EXCEPT !.refund = "COMPLETED", !.escrow = "REFUNDED"]

Dispute ==
    /\ row.dispute = "NONE"
    /\ row' = [row EXCEPT !.task = "DISPUTED", !.dispute = "OPEN", !.escrow = "DISPUTED"]

Resolve ==
    /\ row.dispute # "NONE"
    /\ \E outcome \in {"REFUNDED", "RELEASED"} :
         row' = [row EXCEPT !.dispute = "RESOLVED", !.escrow = outcome,
                            !.task = "COMPLETED"]

TransactionsNext ==
    Accept \/ Start \/ Complete \/ Cancel \/ Fund \/ Release \/ Claim \/ Settle
    \/ Dispute \/ Resolve

\* One of them, or nothing.
TransactionsStep == TransactionsNext \/ UNCHANGED row

TransactionsSpec == TransactionsInit /\ [][TransactionsNext]_row
=============================================================================
