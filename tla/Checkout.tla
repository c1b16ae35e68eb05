------------------------------ MODULE Checkout ------------------------------
(***************************************************************************)
(* The amounts of one task, in cents, from its creation over the PayHere   *)
(* checkout to the payout or the refund, and the hosts at PayHere that the *)
(* configuration sends them to.  Which of the steps the rows allow, and in *)
(* which order, is the subject of HelpMi: here one task is taken through   *)
(* them.                                                                   *)
(***************************************************************************)
EXTENDS Configuration

CONSTANT Budgets    \* budgets in cents

ASSUME CheckoutAssumption == Budgets \subseteq Nat

VARIABLE
    order       \* what is on record of the task's money, and at PayHere

POSTING_FEE_LKR == 9900

\* +(x).toFixed(2) for x = n / 10000: the nearest cent; the float decides a tie.
Rounded(n) == {c \in {n \div 100, (n \div 100) + 1} : 100 * c - n <= 50 /\ n - 100 * c <= 50}

\* Rounding every fee down (mutant).
FeesTruncated(b) == {[poster |-> (5 * b) \div 100, doer |-> (15 * b) \div 100,
                      trust |-> (5 * b) \div 100, net |-> (85 * b) \div 100]}

\* The fees that create computes one by one; the first and the third are the
\* same expression.
Fees(b) == {[poster |-> p, doer |-> d, trust |-> p, net |-> n] :
              p \in Rounded(5 * b), d \in Rounded(15 * b), n \in Rounded(85 * b)}

NoFees == [poster |-> 0, doer |-> 0, trust |-> 0, net |-> 0]

OrderStatus == {"none", "created", "ordered", "handed", "charged", "applied",
                "released", "refunding", "refunded"}
Host == {"none", "live", "sandbox"}

Order == [status : OrderStatus, mode : {"ESCROW", "CASH"}, budget : Nat,
          fees : [poster : Nat, doer : Nat, trust : Nat, net : Nat],
          host : Host, notify : BaseUrl, charge : Nat,  \* the checkout
          asked : Host, refund : Nat, queued : BOOLEAN, \* the refund
          payout : Nat]

NoOrder == [status |-> "none", mode |-> "ESCROW", budget |-> 0, fees |-> NoFees,
            host |-> "none", notify |-> "unset", charge |-> 0,
            asked |-> "none", refund |-> 0, queued |-> FALSE, payout |-> 0]

OrderIs(s) == phase = "running" /\ order.status \in s

-----------------------------------------------------------------------------
\* create: the task, then its escrow with the fees, or its posting fee.
Create(mode, b) ==
    /\ OrderIs({"none"})
    /\ \E f \in (IF mode = "ESCROW" THEN Fees(b) ELSE {NoFees}) :
         order' = [order EXCEPT !.status = "created", !.mode = mode,
                                !.budget = b, !.fees = f]

\* What the poster pays: the budget and his fee, or the flat posting fee.
Charge == IF order.mode = "ESCROW" THEN order.budget + order.fees.poster ELSE POSTING_FEE_LKR

\* initiatePayment: the order id is written before the URLs are known to be
\* complete.
OrderWrite ==
    /\ OrderIs({"created"})
    /\ order' = [order EXCEPT !.status = "ordered"]

\* The checkout is handed out only if all three callback URLs are there.
HandOut ==
    /\ OrderIs({"ordered"})
    /\ CallbacksComplete
    /\ order' = [order EXCEPT !.status = "handed", !.host = CheckoutHost,
                              !.notify = NotifyUrl, !.charge = Charge]

\* The poster pays at the host he was sent to (outside the code).
PosterPays ==
    /\ OrderIs({"handed"})
    /\ order' = [order EXCEPT !.status = "charged"]

\* handleWebhook, called at the notify URL of the checkout.
Webhook ==
    /\ OrderIs({"charged"})
    /\ order' = [order EXCEPT !.status = "applied"]

\* releaseEscrow pays out netDoerPayout.
Release ==
    /\ OrderIs({"applied"})
    /\ order.mode = "ESCROW"
    /\ order' = [order EXCEPT !.status = "released", !.payout = order.fees.net]

\* initiateForEscrow
InitiateRefund ==
    /\ OrderIs({"applied"})
    /\ order.mode = "ESCROW"
    /\ order' = [order EXCEPT !.status = "refunding",
                              !.refund = order.budget + order.fees.poster]

\* execute: queued without credentials; the host that has no such charge
\* refuses, and the refund is tried again.
Execute ==
    /\ OrderIs({"refunding"})
    /\ IF ~IsConfigured
       THEN order' = [order EXCEPT !.queued = TRUE]
       ELSE order' = [order EXCEPT !.asked = RefundHost,
                                   !.status = IF RefundHost = order.host
                                              THEN "refunded" ELSE "refunding"]

-----------------------------------------------------------------------------
CheckoutInit == order = NoOrder

CheckoutStep ==
    \/ \E mode \in {"ESCROW", "CASH"}, b \in Budgets : Create(mode, b)
    \/ OrderWrite \/ HandOut \/ PosterPays \/ Webhook
    \/ Release \/ InitiateRefund \/ Execute
=============================================================================
