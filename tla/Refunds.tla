------------------------------ MODULE Refunds -------------------------------
(***************************************************************************)
(* RefundService (payments/refund.service.ts) and the PayHere Merchant API *)
(* behind it: initiateForEscrow, execute, retry and the steps that the     *)
(* cancel, webhook, admin and reconcile paths all enter at "refundFind".   *)
(***************************************************************************)
EXTENDS Ledger

REFUNDABLE_ESCROW_STATES == {"HELD", "DISPUTED", "REFUND_PENDING"}

RefundSettled(t) == refund[t] \in {"COMPLETED", "PROCESSING"}
RefundRetryable(t) == refund[t] \in {"PENDING", "FAILED"}

\* initiateForEscrow, first await: the escrow as it is now; the verdict of
\* the status and payment checks is all that is used of it later.
RefundReadEscrow(p) ==
    /\ At(p, "refundFind")
    /\ LET e == escrow[proc[p].t] IN
       proc' = [proc EXCEPT ![p].pc = "refundExisting",
                            ![p].refundable = /\ e.status \in REFUNDABLE_ESCROW_STATES
                                              /\ e.pay # 0]
    /\ UNCHANGED rows

\* Second await: the refund row of the escrow.  The re-read after a unique
\* violation makes the same choice.
RefundReadExisting(p) ==
    /\ At(p, "refundExisting")
    /\ LET t == proc[p].t IN
       \/ RefundSettled(t) /\ Return(p)
       \/ RefundRetryable(t) /\ Goto(p, "execute")
       \/ refund[t] = "NONE" /\ proc[p].refundable /\ Goto(p, "refundClaim")
       \/ refund[t] = "NONE" /\ ~proc[p].refundable /\ Return(p)
    /\ UNCHANGED rows

\* The CAS HELD/DISPUTED -> REFUND_PENDING.  Its count is not looked at.
RefundClaim(p) ==
    LET t == proc[p].t IN
    /\ At(p, "refundClaim")
    /\ escrow' = IF escrow[t].status \in {"HELD", "DISPUTED"}
                 THEN [escrow EXCEPT ![t].status = "REFUND_PENDING"]
                 ELSE escrow
    /\ Goto(p, "refundCreate")
    /\ UNCHANGED <<task, fee, refund, payout, dispute, jobs, announced, gateway>>

\* refund.create; escrowId is unique, a second create is thrown and caught.
RefundCreate(p) ==
    LET t == proc[p].t IN
    /\ At(p, "refundCreate")
    /\ \/ /\ refund[t] = "NONE"
          /\ refund' = [refund EXCEPT ![t] = "PENDING"]
          /\ Goto(p, "execute")
       \/ /\ refund[t] # "NONE"
          /\ Goto(p, "refundExisting")
          /\ UNCHANGED refund
    /\ UNCHANGED <<task, escrow, fee, payout, dispute, jobs, announced, gateway>>

\* execute without the CAS on the refund's status (mutant).
ExecuteUnclaimed(p) ==
    LET t == proc[p].t IN
    /\ At(p, "execute")
    /\ refund' = [refund EXCEPT ![t] = "PROCESSING"]
    /\ Goto(p, "provider")
    /\ UNCHANGED <<task, escrow, fee, payout, dispute, jobs, announced, gateway>>

\* execute up to the provider call: without credentials it only notes why;
\* else the CAS PENDING/FAILED -> PROCESSING (which repeats the check of the
\* read before it) admits one executor.
Execute(p) ==
    LET t == proc[p].t IN
    /\ At(p, "execute")
    /\ \/ /\ ProviderConfigured /\ RefundRetryable(t)
          /\ refund' = [refund EXCEPT ![t] = "PROCESSING"]
          /\ Goto(p, "provider")
       \/ /\ RefundSettled(t) \/ ~ProviderConfigured
          /\ Return(p)
          /\ UNCHANGED refund
    /\ UNCHANGED <<task, escrow, fee, payout, dispute, jobs, announced, gateway>>

\* A client that takes a lost answer for a success (mutant).
ProviderGuesses(p) ==
    /\ At(p, "provider")
    /\ "refuse" \in Faults \/ gateway[proc[p].t].refunded
    /\ Goto(p, "refundOk")
    /\ UNCHANGED rows

\* External: the gateway pays a payment back, once, and confirms it.
ProviderConfirms(p) ==
    LET t == proc[p].t IN
    /\ At(p, "provider")
    /\ ~gateway[t].refunded
    /\ gateway' = [gateway EXCEPT ![t].refunded = TRUE]
    /\ Goto(p, "refundOk")
    /\ UNCHANGED <<task, escrow, fee, refund, payout, dispute, jobs, announced>>

\* External: it refuses; a payment that went back already, always.
ProviderRefuses(p) ==
    /\ At(p, "provider")
    /\ "refuse" \in Faults \/ gateway[proc[p].t].refunded
    /\ Goto(p, "refundFail")
    /\ UNCHANGED rows

\* External: it pays, but the answer is lost on the way; refundPayment
\* reports that as a failure.
ProviderAnswerLost(p) ==
    LET t == proc[p].t IN
    /\ "lose" \in Faults
    /\ At(p, "provider")
    /\ ~gateway[t].refunded
    /\ gateway' = [gateway EXCEPT ![t].refunded = TRUE]
    /\ Goto(p, "refundFail")
    /\ UNCHANGED <<task, escrow, fee, refund, payout, dispute, jobs, announced>>

\* The transaction after a confirmed refund; the escrow is written blindly.
RefundComplete(p) ==
    LET t == proc[p].t IN
    /\ At(p, "refundOk")
    /\ refund' = [refund EXCEPT ![t] = "COMPLETED"]
    /\ escrow' = [escrow EXCEPT ![t].status = "REFUNDED"]
    /\ Return(p)
    /\ UNCHANGED <<task, fee, payout, dispute, jobs, announced, gateway>>

RefundFailed(p) ==
    LET t == proc[p].t IN
    /\ At(p, "refundFail")
    /\ refund' = [refund EXCEPT ![t] = "FAILED"]
    /\ Return(p)
    /\ UNCHANGED <<task, escrow, fee, payout, dispute, jobs, announced, gateway>>

\* The admin's retry: only a PENDING or FAILED refund goes on to execute.
RetryRefund(p, t) ==
    /\ RefundRetryable(t)
    /\ Begin(p, "execute", t, NoUser, 0)
    /\ UNCHANGED rows

RefundStep(p) ==
    \/ RefundReadEscrow(p) \/ RefundReadExisting(p) \/ RefundClaim(p)
    \/ RefundCreate(p) \/ Execute(p)
    \/ ProviderConfirms(p) \/ ProviderRefuses(p) \/ ProviderAnswerLost(p)
    \/ RefundComplete(p) \/ RefundFailed(p)
=============================================================================
