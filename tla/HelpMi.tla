------------------------------- MODULE HelpMi -------------------------------
(***************************************************************************)
(* The task and money core of HelpMi: task lifecycle, payments, refunds,   *)
(* payouts, cron jobs and admin tools over the same rows, and what they    *)
(* guarantee together.                                                     *)
(***************************************************************************)
EXTENDS Payments, Scheduler, Admin

Init == LedgerInit

Request(p, t) == TaskRequest(p, t) \/ PaymentRequest(p, t) \/ AdminRequest(p, t)

Step(p) ==
    \/ TaskStep(p) \/ PaymentStep(p) \/ RefundStep(p) \/ PayoutStep(p)
    \/ CronStep(p)

Environment(t) == PosterPays(t) \/ CompletionAges(t) \/ AdminWrite(t)

Next ==
    \/ \E p \in Reqs, t \in Tasks : Request(p, t)
    \/ \E p \in Crons : CronStarts(p)
    \/ \E p \in Procs : Step(p) \/ Fail(p)
    \/ \E t \in Tasks : Environment(t)

Spec == Init /\ [][Next]_vars

\* An awaited statement is answered, and each cron job fires every hour,
\* whatever the others do; the gateway does not refuse a refund for ever.
\* Nothing is assumed of users and admins.
FairSpec ==
    /\ Spec
    /\ \A p \in Procs : WF_vars(Step(p)) /\ SF_vars(ProviderConfirms(p))
    /\ \A p \in Crons : SF_vars(ReconcileScan(p)) /\ SF_vars(AutoReleaseScan(p))

-----------------------------------------------------------------------------
(* Safety *)

\* No task is CANCELLED with its money still HELD, in whatever order cancels,
\* webhooks, releases, disputes and sweeps commit (executeCancel,
\* applyEscrowPayment).
NoCancelledHeld ==
    \A t \in Tasks : escrow[t].status = "HELD" => task[t].status # "CANCELLED"

\* An escrow past PENDING carries the id of the payment that funded it, and
\* a payment id is recorded only with such a state: without one
\* initiateForEscrow could never refund it.
CapturedMoney ==
    \A t \in Tasks : (escrow[t].status \in {"NONE", "PENDING"}) <=> (escrow[t].pay = 0)

\* A disputed task has no HELD money that confirm or the auto-release could
\* still pay out (raiseDispute, releaseEscrow).
DisputeFreezesHeld ==
    \A t \in Tasks : escrow[t].status = "HELD" => dispute[t] = "NONE"

\* Between the claim of a refund and the write of its result there is one
\* executor, so one provider call at a time (RefundService.execute).
Executing == {"provider", "refundOk", "refundFail"}

OneExecutor ==
    \A p, q \in Procs :
        /\ proc[p].pc \in Executing
        /\ proc[q].pc \in Executing
        /\ proc[p].t = proc[q].t
        => p = q

\* A refund is COMPLETED only if the gateway paid the money back: lost
\* answers, crashes and retries included.
RefundConfirmed ==
    \A t \in Tasks : refund[t] = "COMPLETED" => gateway[t].refunded

\* An escrow is REFUNDED only because the gateway paid the money back or because
\* an admin resolved the dispute that way: no crash or lost answer, and neither
\* the sweep nor a retry marks it so (execute, resolveDispute).
RefundedIsAccounted ==
    \A t \in Tasks : escrow[t].status = "REFUNDED" =>
        gateway[t].refunded \/ dispute[t] = "RESOLVED"

\* totalJobsCompleted is the number of escrows released to the doer, under
\* concurrent confirms and auto-releases (releaseEscrow).
JobsCountReleases ==
    \A u \in Users : jobs[u] = Cardinality({t \in Tasks : escrow[t].doer = u})

\* A payout row exists only for an escrow that was released, to the task's
\* doer (releaseEscrow, createForEscrowRelease).
PayoutFollowsRelease ==
    \A t \in Tasks : payout[t] # "NONE" =>
        escrow[t].doer # NoUser /\ escrow[t].doer = task[t].doer

\* A posting fee is written off as REFUNDED only for a task that is, and stays,
\* CANCELLED and was never announced (applyPostingFeePayment).
FeeWrittenOffIfDead ==
    \A t \in Tasks : fee[t].status = "REFUNDED" =>
        task[t].status = "CANCELLED" /\ announced[t] = 0

-----------------------------------------------------------------------------
(* Refinement *)

Market == INSTANCE Marketplace WITH
    Nobody <- NoUser,
    funded <- {t \in Tasks : escrow[t].pay # 0 \/ fee[t].pay # 0},
    posts <- announced,
    worker <- [t \in Tasks |-> task[t].doer],
    credited <- {t \in Tasks : escrow[t].doer # NoUser},
    credits <- jobs,
    returned <- {t \in Tasks : gateway[t].refunded}

\* The services implement the promise of Marketplace.
KeepsPromise == Market!MarketSpec

\* The rows of an escrow task, as Transactions has them.
RowsOf(t) ==
    [task |-> CASE task[t].status = "NONE" -> "PENDING_PAYMENT"
                [] task[t].status = "IN_PROGRESS" -> "ASSIGNED"
                [] OTHER -> task[t].status,
     escrow |-> IF escrow[t].status = "NONE" THEN "PENDING" ELSE escrow[t].status,
     profile |-> IF escrow[t].doer = NoUser THEN "uncredited" ELSE "credited",
     dispute |-> dispute[t],
     refund |-> IF refund[t] = "COMPLETED" THEN "COMPLETED" ELSE "unsettled"]

Alone(t) == INSTANCE Transactions WITH row <- RowsOf(t)

\* Every step on the rows of an escrow task is one of the transactions that
\* Locks shows to be atomic; in particular no step writes the task without
\* the escrow, or the refund without the escrow.
StepsAreTransactions ==
    [][\A t \in Tasks \ CashTasks : Alone(t)!TransactionsStep]_vars

-----------------------------------------------------------------------------
(* Liveness *)

\* A refund that the gateway refused is driven to its end by the hourly sweep
\* as long as its escrow is REFUND_PENDING (RefundService.reconcile).
RefundsRetried ==
    \A t \in Tasks :
        refund[t] = "FAILED" ~> \/ refund[t] = "COMPLETED"
                               \/ escrow[t].status # "REFUND_PENDING"

\* A task that is due is released or stops being due (autoReleaseEscrows).
DueTasksSettle == \A t \in Tasks : DueForRelease(t) ~> ~DueForRelease(t)

\* Every request is answered and every cron loop comes to its end, although
\* the gateway refuses and others claim, retry and dispute meanwhile.
HandlersEnd == \A p \in Procs : ~At(p, "idle") ~> At(p, "idle")
=============================================================================
