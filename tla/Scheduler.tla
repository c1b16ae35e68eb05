----------------------------- MODULE Scheduler ------------------------------
(***************************************************************************)
(* SchedulerService (scheduler/scheduler.service.ts) and the loops it runs:*)
(* RefundService.reconcile and the auto-release of completed tasks.  A scan*)
(* reads a batch; the tasks of the batch are then served one by one, long  *)
(* after they were read.                                                   *)
(***************************************************************************)
EXTENDS TaskLifecycle

StartSweep(p, l, batch) ==
    /\ p \in Crons
    /\ proc' = [proc EXCEPT ![p] = [Idle EXCEPT !.pc = l, !.todo = batch]]

\* findMany with take: any batch, without an order to it.
Batches(S) == {B \in SUBSET S :
    IF Cardinality(S) <= SweepLimit THEN B = S ELSE Cardinality(B) = SweepLimit}

\* A scan that leaves out the escrows that have a refund row (mutant).
ReconcileScanNew(p) ==
    /\ At(p, "idle")
    /\ \E batch \in Batches({t \in Tasks : /\ escrow[t].status = "REFUND_PENDING"
                                           /\ refund[t] = "NONE"}) :
           StartSweep(p, "sweep", batch)
    /\ UNCHANGED rows

ReconcileScan(p) ==
    /\ At(p, "idle")
    /\ \E batch \in Batches({t \in Tasks : escrow[t].status = "REFUND_PENDING"}) :
           StartSweep(p, "sweep", batch)
    /\ UNCHANGED rows

\* Second half of reconcile: HELD money of CANCELLED tasks.
AnomalyScan(p) ==
    /\ At(p, "sweep") /\ proc[p].todo = {}
    /\ \E batch \in Batches({t \in Tasks : /\ escrow[t].status = "HELD"
                                           /\ task[t].status = "CANCELLED"}) :
           StartSweep(p, "anomalies", batch)
    /\ UNCHANGED rows

\* A loop that goes on with a task until its refund succeeds (mutant).
ReconcileNextInsists(p) ==
    /\ proc[p].pc \in {"sweep", "anomalies"}
    /\ \E t \in proc[p].todo :
           proc' = [proc EXCEPT ![p].pc = "refundFind", ![p].t = t,
                                ![p].caller = proc[p].pc]
    /\ UNCHANGED rows

\* The body of both loops: initiateForEscrow for one escrow of the batch.
ReconcileNext(p) ==
    /\ proc[p].pc \in {"sweep", "anomalies"}
    /\ \E t \in proc[p].todo :
           proc' = [proc EXCEPT ![p].pc = "refundFind", ![p].t = t,
                                ![p].caller = proc[p].pc, ![p].todo = @ \ {t}]
    /\ UNCHANGED rows

DueForRelease(t) ==
    /\ task[t].status = "COMPLETED" /\ task[t].due
    /\ IsEscrow(t)
    /\ ~task[t].confirmed
    /\ escrow[t].status = "HELD"

\* A scan with the cutoff compared the wrong way round (mutant).
AutoReleaseScanEarly(p) ==
    /\ At(p, "idle")
    /\ StartSweep(p, "autoRelease",
                  {t \in Tasks : /\ task[t].status = "COMPLETED" /\ ~task[t].due
                                 /\ escrow[t].status = "HELD"})
    /\ UNCHANGED rows

AutoReleaseScan(p) ==
    /\ At(p, "idle")
    /\ StartSweep(p, "autoRelease", {t \in Tasks : DueForRelease(t)})
    /\ UNCHANGED rows

\* The scan also read the doer, which is written once (KeepsPromise).
AutoReleaseNext(p) ==
    /\ At(p, "autoRelease")
    /\ \E t \in proc[p].todo :
           proc' = [proc EXCEPT ![p].pc = "release", ![p].t = t,
                                ![p].who = task[t].doer,
                                ![p].caller = "autoRelease", ![p].todo = @ \ {t}]
    /\ UNCHANGED rows

SweepDone(p) ==
    /\ proc[p].pc \in {"anomalies", "autoRelease"} /\ proc[p].todo = {}
    /\ proc' = [proc EXCEPT ![p] = Idle]
    /\ UNCHANGED rows

\* Time: completedAt gets to be AUTO_RELEASE_AFTER_HOURS old.
CompletionAges(t) ==
    /\ task[t].status = "COMPLETED" /\ ~task[t].due
    /\ task' = [task EXCEPT ![t].due = TRUE]
    /\ UNCHANGED <<escrow, fee, refund, payout, dispute, jobs, announced, gateway, proc>>

CronStarts(p) == ReconcileScan(p) \/ AutoReleaseScan(p)

CronStep(p) == AnomalyScan(p) \/ ReconcileNext(p) \/ AutoReleaseNext(p) \/ SweepDone(p)
=============================================================================
