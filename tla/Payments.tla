------------------------------ MODULE Payments ------------------------------
(***************************************************************************)
(* PaymentsService (payments/payments.service.ts): the checkout order, the *)
(* poster paying it at the gateway, and the gateway's webhook, which may   *)
(* come late, twice, or for an order that was paid before.                 *)
(***************************************************************************)
EXTENDS Ledger

\* initiatePayment: the escrow, or the posting fee, must still be PENDING.
InitiatePayment(p, t) ==
    /\ IF IsEscrow(t) THEN escrow[t].status = "PENDING" ELSE fee[t].status = "PENDING"
    /\ Begin(p, "orderWrite", t, NoUser, 0)
    /\ UNCHANGED rows

\* payhereOrderId is a function of the task: writing it twice is the same.
OrderWrite(p) ==
    /\ At(p, "orderWrite")
    /\ gateway' = [gateway EXCEPT ![proc[p].t].checkout = TRUE]
    /\ Return(p)
    /\ UNCHANGED <<task, escrow, fee, refund, payout, dispute, jobs, announced>>

\* External: the poster pays a checkout that was handed out, perhaps again.
PosterPays(t) ==
    /\ gateway[t].checkout
    /\ gateway[t].charges < MaxCharges
    /\ gateway' = [gateway EXCEPT ![t].charges = @ + 1]
    /\ UNCHANGED <<task, escrow, fee, refund, payout, dispute, jobs, announced, proc>>

\* handleWebhook for a charge, up to the transaction: routed by the order id
\* to the escrow or the fee, skipped unless that is PENDING.
Webhook(p, t, pay) ==
    /\ pay \in 1 .. gateway[t].charges
    /\ \/ /\ IsEscrow(t) /\ escrow[t].status = "PENDING" /\ escrow[t].pay # pay
          /\ Begin(p, "escrowPaymentTx", t, NoUser, pay)
       \/ /\ ~IsEscrow(t) /\ fee[t].status = "PENDING" /\ fee[t].pay # pay
          /\ Begin(p, "feePaymentTx", t, NoUser, pay)
    /\ UNCHANGED rows

\* The webhook that forgets to record the payment id (mutant).
EscrowPaymentUnrecorded(p) ==
    LET t == proc[p].t
        opens == task[t].status = "PENDING_PAYMENT" IN
    /\ At(p, "escrowPaymentTx")
    /\ task' = IF opens THEN [task EXCEPT ![t].status = "OPEN"] ELSE task
    /\ escrow' = IF escrow[t].status = "PENDING"
                 THEN [escrow EXCEPT ![t].status = IF opens THEN "HELD"
                                                   ELSE "REFUND_PENDING"]
                 ELSE escrow
    /\ Goto(p, IF opens THEN "announce" ELSE "refundFind")
    /\ UNCHANGED <<fee, refund, payout, dispute, jobs, announced, gateway>>

\* A webhook transaction that holds money on a cancelled task (mutant).
EscrowPaymentHolds(p) ==
    LET t == proc[p].t
        opens == task[t].status = "PENDING_PAYMENT" IN
    /\ At(p, "escrowPaymentTx")
    /\ task' = IF opens THEN [task EXCEPT ![t].status = "OPEN"] ELSE task
    /\ escrow' = IF escrow[t].status = "PENDING"
                 THEN [escrow EXCEPT ![t].status = "HELD", ![t].pay = proc[p].pay]
                 ELSE escrow
    /\ IF opens THEN Goto(p, "announce") ELSE Return(p)
    /\ UNCHANGED <<fee, refund, payout, dispute, jobs, announced, gateway>>

\* The funding transaction: the CAS PENDING_PAYMENT -> OPEN decides.  Money for
\* a cancelled task goes to the refund path; any other task just keeps it.
EscrowPaymentTx(p) ==
    LET t == proc[p].t
        opens == task[t].status = "PENDING_PAYMENT"
        dead == task[t].status = "CANCELLED" IN
    /\ At(p, "escrowPaymentTx")
    /\ task' = IF opens THEN [task EXCEPT ![t].status = "OPEN"] ELSE task
    /\ escrow' = IF escrow[t].status = "PENDING"
                 THEN [escrow EXCEPT ![t].pay = proc[p].pay,
                         ![t].status = IF dead THEN "REFUND_PENDING" ELSE "HELD"]
                 ELSE escrow
    /\ IF opens THEN Goto(p, "announce")
       ELSE IF dead THEN Goto(p, "refundFind") ELSE Return(p)
    /\ UNCHANGED <<fee, refund, payout, dispute, jobs, announced, gateway>>

\* The fee transaction without the CAS: it opens whatever it finds (mutant).
FeePaymentOpens(p) ==
    LET t == proc[p].t IN
    /\ At(p, "feePaymentTx")
    /\ task' = [task EXCEPT ![t].status = "OPEN"]
    /\ fee' = [fee EXCEPT ![t].pay = proc[p].pay, ![t].status = "PAID"]
    /\ Goto(p, "announce")
    /\ UNCHANGED <<escrow, refund, payout, dispute, jobs, announced, gateway>>

\* The fee transaction that records a refund whenever it did not open (mutant).
FeePaymentRefunds(p) ==
    LET t == proc[p].t
        opens == task[t].status = "PENDING_PAYMENT" IN
    /\ At(p, "feePaymentTx")
    /\ task' = IF opens THEN [task EXCEPT ![t].status = "OPEN"] ELSE task
    /\ fee' = [fee EXCEPT ![t].pay = proc[p].pay,
                          ![t].status = IF opens THEN "PAID" ELSE "REFUNDED"]
    /\ IF opens THEN Goto(p, "announce") ELSE Return(p)
    /\ UNCHANGED <<escrow, refund, payout, dispute, jobs, announced, gateway>>

\* The same for the posting fee, whose refund is settled by hand.
FeePaymentTx(p) ==
    LET t == proc[p].t
        opens == task[t].status = "PENDING_PAYMENT"
        dead == task[t].status = "CANCELLED" IN
    /\ At(p, "feePaymentTx")
    /\ task' = IF opens THEN [task EXCEPT ![t].status = "OPEN"] ELSE task
    /\ fee' = IF fee[t].status = "PENDING"
              THEN [fee EXCEPT ![t].pay = proc[p].pay,
                               ![t].status = IF dead THEN "REFUNDED" ELSE "PAID"]
              ELSE fee
    /\ IF opens THEN Goto(p, "announce") ELSE Return(p)
    /\ UNCHANGED <<escrow, refund, payout, dispute, jobs, announced, gateway>>

\* announceTask: the TASK_POSTED event.
Announce(p) ==
    /\ At(p, "announce")
    /\ announced' = [announced EXCEPT ![proc[p].t] = @ + 1]
    /\ Return(p)
    /\ UNCHANGED <<task, escrow, fee, refund, payout, dispute, jobs, gateway>>

PaymentRequest(p, t) ==
    InitiatePayment(p, t) \/ \E pay \in Payments : Webhook(p, t, pay)

PaymentStep(p) ==
    OrderWrite(p) \/ EscrowPaymentTx(p) \/ FeePaymentTx(p) \/ Announce(p)
=============================================================================
