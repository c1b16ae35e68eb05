------------------------------- MODULE Claims -------------------------------
(***************************************************************************)
(* What the comments, messages and documents of the repository say of the  *)
(* core, stated as they say it, where the code does otherwise.  Each has a *)
(* run that shows how the code comes to break it.                          *)
(***************************************************************************)
EXTENDS HelpMi

\* refund.service.ts: initiate and execute can be called concurrently
\* "without double-moving money": the doer's payout and the poster's refund
\* are not both made.
NoDoubleMove ==
    \A t \in Tasks : ~(payout[t] # "NONE" /\ gateway[t].refunded)

\* markStarted: "Task must be in ASSIGNED state to start".
StartsFromAssigned ==
    [][\A t \in Tasks :
          task[t].status # "IN_PROGRESS" /\ task'[t].status = "IN_PROGRESS"
            => task[t].status = "ASSIGNED"]_vars

\* executeCancel: if the provider refund fails or the process dies, "the
\* hourly reconcile sweep retries it".
RefundIsRetried ==
    \A t \in Tasks : refund[t] = "PROCESSING" ~> refund[t] # "PROCESSING"

\* releaseEscrow: when the payout could not be created, "the ledger
\* reconciliation/admin can recover it".
PayoutIsRecovered ==
    \A t \in Tasks : escrow[t].doer # NoUser ~> payout[t] # "NONE"
=============================================================================
