------------------------------- MODULE Admin --------------------------------
(***************************************************************************)
(* The recovery tools of AdminService (admin/admin.service.ts) that move   *)
(* money: dispute resolution, manual refunds, refund retries, forced       *)
(* cancellation and payout settlement.                                     *)
(***************************************************************************)
EXTENDS TaskLifecycle

\* resolveDispute asks only that the dispute exists, which no step undoes, so
\* its read and its transaction are one step.  The escrow is written blindly,
\* no provider is called, no payout is made, no job is counted.
ResolveDispute(t, refundPoster) ==
    /\ dispute[t] # "NONE"
    /\ dispute' = [dispute EXCEPT ![t] = "RESOLVED"]
    /\ escrow' = IF escrow[t].status = "NONE" THEN escrow
                 ELSE [escrow EXCEPT ![t].status =
                         IF refundPoster THEN "REFUNDED" ELSE "RELEASED"]
    /\ task' = [task EXCEPT ![t].status = "COMPLETED"]
    /\ UNCHANGED <<fee, refund, payout, jobs, announced, gateway, proc>>

\* initiateEscrowRefund: the escrow exists and is not DISPUTED when read.
InitiateEscrowRefund(p, t) ==
    /\ escrow[t].status \notin {"NONE", "DISPUTED"}
    /\ Begin(p, "refundFind", t, NoUser, 0)
    /\ UNCHANGED rows

AdminRequest(p, t) == InitiateEscrowRefund(p, t) \/ RetryRefund(p, t)

AdminWrite(t) == MarkPaid(t) \/ \E refundPoster \in BOOLEAN : ResolveDispute(t, refundPoster)
=============================================================================
