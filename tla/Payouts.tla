------------------------------ MODULE Payouts -------------------------------
(***************************************************************************)
(* PayoutService (payments/payout.service.ts): one payout row per released *)
(* escrow, always by BANK, settled by an admin.                            *)
(***************************************************************************)
EXTENDS Ledger

\* createForEscrowRelease, first await: an existing payout is returned.
PayoutFind(p) ==
    /\ At(p, "payoutFind")
    /\ IF payout[proc[p].t] = "NONE" THEN Goto(p, "payoutCreate") ELSE Return(p)
    /\ UNCHANGED rows

\* payout.create; escrowId is unique, the loser of a race returns the winner's.
PayoutCreate(p) ==
    LET t == proc[p].t IN
    /\ At(p, "payoutCreate")
    /\ IF payout[t] = "NONE"
       THEN payout' = [payout EXCEPT ![t] = "PENDING"] /\ Goto(p, "payoutUpdate")
       ELSE UNCHANGED payout /\ Return(p)
    /\ UNCHANGED <<task, escrow, fee, refund, dispute, jobs, announced, gateway>>

\* Dispatch by the stored method: a wallet payout is queued as PROCESSING,
\* which nothing settles yet (mutant).
PayoutUpdateWallet(p) ==
    /\ At(p, "payoutUpdate")
    /\ payout' = [payout EXCEPT ![proc[p].t] = "PROCESSING"]
    /\ Return(p)
    /\ UNCHANGED <<task, escrow, fee, refund, dispute, jobs, announced, gateway>>

\* dispatch leaves a BANK payout PENDING, and that status is written back.
PayoutUpdate(p) ==
    /\ At(p, "payoutUpdate")
    /\ payout' = [payout EXCEPT ![proc[p].t] = "PENDING"]
    /\ Return(p)
    /\ UNCHANGED <<task, escrow, fee, refund, dispute, jobs, announced, gateway>>

\* markPaid asks only that the row exists, which no step undoes: its read
\* and its write are one step.
MarkPaid(t) ==
    /\ payout[t] # "NONE"
    /\ payout' = [payout EXCEPT ![t] = "PAID"]
    /\ UNCHANGED <<task, escrow, fee, refund, dispute, jobs, announced, gateway, proc>>

PayoutStep(p) == PayoutFind(p) \/ PayoutCreate(p) \/ PayoutUpdate(p)
=============================================================================
