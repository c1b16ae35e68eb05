----------------------------- MODULE MoneyFlow ------------------------------
(***************************************************************************)
(* Where the money of a task comes from and to whom it goes: no escrow     *)
(* moves before it is funded, and a release credits one doer once.         *)
(***************************************************************************)
EXTENDS HelpMiSafety, FiniteSetTheorems

(***************************************************************************)
(* Money is moved only where money came in: no escrow leaves PENDING       *)
(* without a payment id, disputed money is not HELD, and REFUNDED has one  *)
(* of two reasons.  Several writes go by id alone (startWrite, disputeTx,  *)
(* resolveDispute, the result of a refund); what makes them harmless is    *)
(* that their requests were let in by a row that only a payment brings     *)
(* about.  FundInv says so for every row and every such request.           *)
(***************************************************************************)
\* The statuses of a task that was announced, and what an escrow is before the
\* payment.
Begun == {"OPEN", "ASSIGNED", "IN_PROGRESS", "COMPLETED", "DISPUTED"}
Funded(t) == escrow[t].status \notin {"NONE", "PENDING"}

RowSound(t) ==
    /\ Funded(t) <=> escrow[t].pay # 0
    /\ IsEscrow(t) /\ task[t].status \in Begun => Funded(t)
    /\ IsEscrow(t) /\ dispute[t] # "NONE" => Funded(t)
    /\ refund[t] # "NONE" => Funded(t)
    /\ ~IsEscrow(t) \/ task[t].status = "NONE" => escrow[t].status = "NONE"
    /\ escrow[t].status = "HELD" => dispute[t] = "NONE"
    /\ escrow[t].status = "REFUNDED" => gateway[t].refunded \/ dispute[t] = "RESOLVED"

\* Who writes by id, and who refunds.
Blind == {"startWrite", "completeWrite", "disputeTx"}
Refunding == {"refundClaim", "refundCreate", "execute"} \cup Executing
Guarded == Blind \cup Refunding
             \cup {"createMoney", "refundExisting", "escrowPaymentTx", "feePaymentTx"}

\* What the request knew when it was let in still holds.
Justified(p) ==
    /\ At(p, "createMoney") =>
         task[proc[p].t].status # "NONE" /\ escrow[proc[p].t].status = "NONE"
    /\ proc[p].pc \in Blind /\ IsEscrow(proc[p].t) => Funded(proc[p].t)
    /\ proc[p].pc \in Refunding => Funded(proc[p].t)
    /\ At(p, "refundExisting") /\ proc[p].refundable => Funded(proc[p].t)
    /\ At(p, "escrowPaymentTx") =>
         escrow[proc[p].t].status # "NONE" /\ proc[p].pay # 0
    /\ At(p, "feePaymentTx") => ~IsEscrow(proc[p].t)

OneCreator ==
    \A p, q \in Procs :
        At(p, "createMoney") /\ At(q, "createMoney") /\ proc[p].t = proc[q].t => p = q

FundInv ==
    /\ \A t \in Tasks : RowSound(t)
    /\ \A p \in Procs : Justified(p)
    /\ OneCreator

-----------------------------------------------------------------------------
(* Steps that undo nothing of what a request was let in by.                *)

Kept(t) ==
    /\ task[t].status # "NONE" => task'[t].status # "NONE"
    /\ escrow'[t].status = "NONE" <=> escrow[t].status = "NONE"
    /\ Funded(t) => Funded(t)'

Sound(t) == RowSound(t)' /\ Kept(t)

LEMMA GuardedPc == Guarded \subseteq TaskPc /\ "idle" \notin Guarded
BY DEF Guarded, Blind, Refunding, Executing, TaskPc

LEMMA Unguarded ==
    ASSUME NEW p \in Procs, proc'[p].pc \notin Guarded
    PROVE  Justified(p)'
BY DEF Justified, Guarded, At

LEMMA KeptJustifies ==
    ASSUME TypeOK, NEW q \in Procs, Justified(q), proc'[q] = proc[q],
           \A t \in Tasks : Kept(t)
    PROVE  Justified(q)'
<1>1. CASE proc[q].pc \notin Guarded
  BY <1>1, Unguarded
<1>2. CASE proc[q].pc \in Guarded
  <2>1. Kept(proc[q].t)
    BY <1>2, GuardedPc DEF TypeOK, ProcsOK
  <2> QED BY <2>1 DEF Justified, Kept, At, IsEscrow
<1> QED
  BY <1>1, <1>2

\* A request that moves on, and creates nothing.
LEMMA MoveKeeps ==
    ASSUME TypeOK, FundInv, NEW p \in Procs,
           \A q \in Procs \ {p} : proc'[q] = proc[q],
           \A t \in Tasks : Sound(t),
           Justified(p)', proc'[p].pc # "createMoney"
    PROVE  FundInv'
<1>1. \A q \in Procs : Justified(q)'
  BY KeptJustifies DEF FundInv, Sound
<1>2. OneCreator'
  BY DEF FundInv, OneCreator, At
<1> QED
  BY <1>1, <1>2 DEF FundInv, Sound

LEMMA RowsSound ==
    ASSUME TypeOK, FundInv, UNCHANGED <<task, escrow, refund, dispute>>,
           \A t \in Tasks : gateway[t].refunded => gateway'[t].refunded
    PROVE  \A t \in Tasks : Sound(t)
BY DEF FundInv, Sound, RowSound, Kept, Funded, IsEscrow

LEMMA ReturnKeeps ==
    ASSUME TypeOK, FundInv, NEW p \in Procs, Return(p), \A t \in Tasks : Sound(t)
    PROVE  FundInv'
<1>1. proc'[p].pc \notin Guarded /\ \A q \in Procs \ {p} : proc'[q] = proc[q]
  BY ReturnEffect, PcDisjoint, GuardedPc DEF TypeOK
<1>2. proc'[p].pc # "createMoney"
  BY <1>1 DEF Guarded
<1> QED
  BY <1>1, <1>2, Unguarded, MoveKeeps

LEMMA GotoKeeps ==
    ASSUME TypeOK, FundInv, NEW p \in Procs, NEW l \in TaskPc \ Guarded, Goto(p, l),
           proc[p].pc \in TaskPc, \A t \in Tasks : Sound(t)
    PROVE  FundInv'
<1>1. proc'[p].pc = l /\ \A q \in Procs \ {p} : proc'[q] = proc[q]
  BY GotoEffect DEF TypeOK
<1>2. proc'[p].pc # "createMoney"
  BY <1>1 DEF Guarded
<1> QED
  BY <1>1, <1>2, Unguarded, MoveKeeps

-----------------------------------------------------------------------------
(* Requests as they arrive: what they check is what they are let in by.    *)

LEMMA CreateTaskKeeps ==
    ASSUME TypeOK, FundInv, NEW p \in Reqs, NEW t \in Tasks, CreateTask(p, t)
    PROVE  FundInv'
<1>1. /\ p \in Procs /\ proc'[p].pc = "createMoney" /\ proc'[p].t = t
      /\ \A q \in Procs \ {p} : proc'[q] = proc[q]
  BY LedgerAssumption, BeginEffect
     DEF CreateTask, TypeOK, TaskPc, UserOrNull, Payments, LedgerAssumption
<1>2. /\ task[t].status = "NONE" /\ task'[t].status = "PENDING_PAYMENT"
      /\ \A u \in Tasks \ {t} : task'[u] = task[u]
  BY DEF CreateTask, TypeOK, RowsOK, TaskRow
<1>3. UNCHANGED <<escrow, refund, dispute, gateway>>
  BY DEF CreateTask
<1>4. \A u \in Tasks : Sound(u)
  BY <1>2, <1>3 DEF FundInv, Sound, RowSound, Kept, Funded, IsEscrow, Begun
<1>5. Justified(p)'
  BY <1>1, <1>2, <1>3 DEF FundInv, RowSound, Justified, At, Blind, Refunding, Executing
<1>6. \A q \in Procs \ {p} : Justified(q)'
  BY <1>1, <1>4, KeptJustifies DEF FundInv, Sound
<1>7. \A q \in Procs \ {p} : ~(At(q, "createMoney") /\ proc[q].t = t)
  BY <1>2 DEF FundInv, Justified
<1>8. OneCreator'
  BY <1>1, <1>7 DEF FundInv, OneCreator, At
<1> QED
  BY <1>4, <1>5, <1>6, <1>8 DEF FundInv, Sound

LEMMA RequestKeeps ==
    ASSUME TypeOK, FundInv, NEW p \in Reqs, NEW t \in Tasks, Request(p, t),
           ~CreateTask(p, t)
    PROVE  FundInv'
<1>1. NoUser \in UserOrNull /\ task[t].doer \in UserOrNull /\ Users \subseteq UserOrNull
      /\ 0 \in Payments
  BY LedgerAssumption DEF LedgerAssumption, TypeOK, RowsOK, TaskRow, UserOrNull, Payments
<1>2. UNCHANGED rows
  BY DEF Request, TaskRequest, MarkStarted, MarkComplete, Confirm,
         ForceCancel, Accept, Cancel, RaiseDispute, PaymentRequest, InitiatePayment,
         Webhook, AdminRequest, InitiateEscrowRefund, RetryRefund
<1>3. \A u \in Tasks : Sound(u)
  BY <1>2, RowsSound DEF rows
<1>4. ASSUME NEW l \in TaskPc \ {"createMoney"}, NEW who \in UserOrNull, NEW pay \in Payments,
             Begin(p, l, t, who, pay),
             \/ l \notin Guarded
             \/ l \in Blind /\ task[t].status \in Begun
             \/ l = "execute" /\ refund[t] # "NONE"
             \/ l = "escrowPaymentTx" /\ escrow[t].status # "NONE" /\ pay # 0
             \/ l = "feePaymentTx" /\ ~IsEscrow(t)
      PROVE  FundInv'
  <2>1. /\ p \in Procs /\ proc'[p].pc = l /\ proc'[p].t = t /\ proc'[p].pay = pay
        /\ \A q \in Procs \ {p} : proc'[q] = proc[q]
    BY <1>4, BeginEffect DEF TypeOK
  <2>2. Justified(p)'
    <3>1. CASE l \notin Guarded
      BY <2>1, <3>1, Unguarded
    <3>2. CASE l \in Blind /\ task[t].status \in Begun
      BY <1>2, <2>1, <3>2 DEF FundInv, RowSound, Justified, At, Blind, Refunding, Executing,
                              Funded, IsEscrow, rows
    <3>3. CASE l = "execute" /\ refund[t] # "NONE"
      BY <1>2, <2>1, <3>3 DEF FundInv, RowSound, Justified, At, Blind, Refunding, Executing,
                              Funded, IsEscrow, rows
    <3>4. CASE l \in {"escrowPaymentTx", "feePaymentTx"}
      BY <1>2, <1>4, <2>1, <3>4 DEF Justified, At, Blind, Refunding, Executing, IsEscrow,
                                    Guarded, rows
    <3> QED BY <1>4, <3>1, <3>2, <3>3, <3>4
  <2> QED BY <1>3, <2>1, <2>2, MoveKeeps
<1>5. CASE TaskRequest(p, t)
  BY <1>1, <1>4, <1>5
     DEF TaskRequest, MarkStarted, MarkComplete, Confirm, ForceCancel, Accept, Cancel,
         RaiseDispute, TaskPc, Guarded, Blind, Refunding, Executing, Begun
<1>6. CASE InitiatePayment(p, t)
  BY <1>1, <1>4, <1>6 DEF InitiatePayment, TaskPc, Guarded, Blind, Refunding, Executing
<1>7. CASE \E pay \in Payments : Webhook(p, t, pay)
  <2>1. PICK pay \in Payments : Webhook(p, t, pay)
    BY <1>7
  <2>2. gateway[t].charges \in Int
    BY LedgerAssumption DEF LedgerAssumption, TypeOK, RowsOK, GatewayOrder, Payments
  <2>3. pay # 0
    BY <2>1, <2>2 DEF Webhook
  <2> QED BY <1>1, <1>4, <2>1, <2>3 DEF Webhook, TaskPc
<1>8. CASE AdminRequest(p, t)
  BY <1>1, <1>4, <1>8
     DEF AdminRequest, InitiateEscrowRefund, RetryRefund, RefundRetryable,
         TaskPc, Guarded, Blind, Refunding, Executing
<1> QED
  BY <1>5, <1>6, <1>7, <1>8 DEF Request, PaymentRequest

-----------------------------------------------------------------------------
(* The steps of TasksService.                                              *)

LEMMA CreateMoneyKeeps ==
    ASSUME TypeOK, FundInv, NEW p \in Procs, CreateMoney(p)
    PROVE  FundInv'
<1> DEFINE t == proc[p].t
<1>1. At(p, "createMoney") /\ t \in Tasks /\ escrow[t].status = "NONE"
      /\ task[t].status # "NONE"
  BY DEF CreateMoney, At, TaskPc, TypeOK, ProcsOK, FundInv, Justified
<1>2. proc'[p].pc \notin Guarded /\ \A q \in Procs \ {p} : proc'[q] = proc[q]
  BY ReturnEffect, PcDisjoint, GuardedPc DEF CreateMoney, TypeOK
<1>3. UNCHANGED <<task, refund, dispute, gateway>>
  BY DEF CreateMoney
<1>4. /\ \A u \in Tasks \ {t} : escrow'[u] = escrow[u]
      /\ escrow'[t].pay = escrow[t].pay
      /\ escrow'[t].status = IF IsEscrow(t) THEN "PENDING" ELSE "NONE"
  BY <1>1 DEF CreateMoney, TypeOK, RowsOK, EscrowRow
<1>5. \A u \in Tasks : RowSound(u)' /\ (u # t => Kept(u))
  BY <1>1, <1>3, <1>4 DEF FundInv, RowSound, Kept, Funded, IsEscrow
<1>6. ASSUME NEW q \in Procs \ {p} PROVE Justified(q)'
  <2>1. CASE proc[q].pc \in Guarded /\ proc[q].t = t
    <3>1. ~At(q, "createMoney")
      BY <1>1, <2>1 DEF FundInv, OneCreator
    <3>2. Justified(q) /\ proc'[q] = proc[q]
      BY <1>2 DEF FundInv
    <3> QED
      BY <1>1, <1>3, <1>4, <2>1, <3>1, <3>2 DEF Justified, At, Funded, IsEscrow
  <2>2. CASE proc[q].pc \in Guarded /\ proc[q].t # t
    <3>1. Kept(proc[q].t)
      BY <1>5, <2>2, GuardedPc DEF TypeOK, ProcsOK
    <3>2. Justified(q) /\ proc'[q] = proc[q]
      BY <1>2 DEF FundInv
    <3> QED
      BY <3>1, <3>2 DEF Justified, Kept, At, IsEscrow
  <2>3. CASE proc[q].pc \notin Guarded
    BY <1>2, <2>3, Unguarded
  <2> QED BY <2>1, <2>2, <2>3
<1>7. Justified(p)' /\ proc'[p].pc # "createMoney"
  BY <1>2, Unguarded DEF Guarded
<1>8. OneCreator'
  BY <1>2, <1>7 DEF FundInv, OneCreator, At
<1> QED
  BY <1>5, <1>6, <1>7, <1>8 DEF FundInv

LEMMA TaskStepSound ==
    ASSUME TypeOK, FundInv, NEW p \in Procs, TaskStep(p), ~CreateMoney(p),
           NEW t \in Tasks
    PROVE  Sound(t)
<1> DEFINE u == proc[p].t
<1>1. task \in [Tasks -> TaskRow] /\ escrow \in [Tasks -> EscrowRow]
      /\ dispute \in [Tasks -> DisputeStatus]
  BY DEF TypeOK, RowsOK
<1>2. u \in Tasks /\ Justified(p) /\ RowSound(t) /\ RowSound(u)
  BY DEF TaskStep, AcceptEscrow, AcceptWrite, StartWrite, CompleteWrite, FundInv,
         ConfirmEscrow, ConfirmCash, ReleaseEscrow, CancelTx, CancelEscrow, DisputeTx,
         At, TaskPc, TypeOK, ProcsOK
<1>3. UNCHANGED <<refund, gateway>>
  BY DEF TaskStep, AcceptEscrow, AcceptWrite, StartWrite, CompleteWrite,
         ConfirmEscrow, ConfirmCash, ReleaseEscrow, CancelTx, CancelEscrow, DisputeTx, rows
\* The task row alone: announced statuses need a funded escrow.
<1>4. ASSUME UNCHANGED <<escrow, dispute>>,
             \/ task'[t].status = task[t].status
             \/ task'[t].status # "NONE" /\ task[t].status \in Begun
             \/ task'[t].status # "NONE" /\ (IsEscrow(t) => Funded(t))
      PROVE  Sound(t)
  <2>1. task[t].status = "NONE" \/ task'[t].status # "NONE"
    BY <1>4
  <2>2. task'[t].status = "NONE" => task[t].status = "NONE"
    BY <1>4
  <2> QED
    BY <1>2, <1>3, <1>4, <2>1, <2>2
       DEF Sound, RowSound, Kept, Funded, IsEscrow
<1>5. CASE AcceptEscrow(p) \/ ConfirmEscrow(p) \/ CancelEscrow(p)
  BY <1>4, <1>5 DEF AcceptEscrow, ConfirmEscrow, CancelEscrow, rows
<1>6. CASE AcceptWrite(p)
  BY <1>4, <1>6, AcceptWriteEffect DEF AcceptWrite, Begun
<1>7. CASE StartWrite(p)
  <2>1. IsEscrow(u) => Funded(u)
    BY <1>2, <1>7 DEF StartWrite, Justified, At, Blind
  <2>2. task'[t].status = IF t = u THEN "IN_PROGRESS" ELSE task[t].status
    BY <1>1, <1>7 DEF StartWrite, TaskRow
  <2> QED BY <1>4, <1>7, <2>1, <2>2 DEF StartWrite
<1>8. CASE CompleteWrite(p)
  <2>1. IsEscrow(u) => Funded(u)
    BY <1>2, <1>8 DEF CompleteWrite, Justified, At, Blind
  <2> QED BY <1>4, <1>8, <2>1, CompleteWriteEffect DEF CompleteWrite
<1>9. CASE ConfirmCash(p)
  <2>1. task'[t].status = task[t].status
    BY <1>1, <1>2, <1>9 DEF ConfirmCash, TaskRow
  <2> QED BY <1>4, <1>9, <2>1 DEF ConfirmCash
<1>10. CASE ReleaseEscrow(p)
  <2>1. task'[t].status = task[t].status /\ dispute' = dispute
    BY <1>1, <1>2, <1>10 DEF ReleaseEscrow, TaskRow
  <2>2. \/ escrow'[t] = escrow[t]
        \/ /\ escrow[t].status = "HELD" /\ escrow'[t].status = "RELEASED"
           /\ escrow'[t].pay = escrow[t].pay
    BY <1>10, ReleaseEffect
  <2> QED BY <1>2, <1>3, <2>1, <2>2 DEF Sound, RowSound, Kept, Funded, IsEscrow
<1>11. CASE CancelTx(p)
  <2>a. \/ task' = task
        \/ /\ task[u].status \in CANCELLABLE_STATUSES
           /\ task' = [task EXCEPT ![u].status = "CANCELLED"]
    BY <1>11 DEF CancelTx
  <2>1. /\ dispute' = dispute
        /\ \/ task'[t].status = task[t].status
           \/ task'[t].status = "CANCELLED" /\ task[t].status \in CANCELLABLE_STATUSES
    BY <1>1, <1>2, <1>11, <2>a DEF CancelTx, TaskRow
  <2>2. \/ escrow'[t] = escrow[t]
        \/ /\ escrow[t].status = "HELD" /\ escrow'[t].status = "REFUND_PENDING"
           /\ escrow'[t].pay = escrow[t].pay
    BY <1>1, <1>2, <1>11 DEF CancelTx, EscrowRow
  <2> QED
    BY <1>2, <1>3, <2>1, <2>2
       DEF Sound, RowSound, Kept, Funded, IsEscrow, CANCELLABLE_STATUSES, Begun
<1>12. CASE DisputeTx(p)
  <2>1. IsEscrow(u) => Funded(u)
    BY <1>2, <1>12 DEF DisputeTx, Justified, At, Blind
  <2>2. CASE dispute[u] # "NONE" \/ t # u
    <3>1. task'[t] = task[t] /\ escrow'[t] = escrow[t] /\ dispute'[t] = dispute[t]
      BY <1>1, <1>2, <1>12, <2>2 DEF DisputeTx
    <3> QED BY <1>2, <1>3, <3>1 DEF Sound, RowSound, Kept, Funded, IsEscrow
  <2>3. CASE dispute[u] = "NONE" /\ t = u
    <3>1. /\ task'[t].status = "DISPUTED" /\ dispute'[t] = "OPEN"
          /\ escrow'[t].pay = escrow[t].pay
          /\ escrow'[t].status = IF IsEscrow(t) THEN "DISPUTED" ELSE escrow[t].status
      BY <1>1, <1>2, <1>12, <2>3 DEF DisputeTx, TaskRow, EscrowRow
    <3> QED BY <1>2, <1>3, <2>1, <2>3, <3>1 DEF Sound, RowSound, Kept, Funded, IsEscrow
  <2> QED BY <2>2, <2>3
<1> QED
  BY <1>5, <1>6, <1>7, <1>8, <1>9, <1>10, <1>11, <1>12 DEF TaskStep

LEMMA TaskStepKeeps ==
    ASSUME TypeOK, FundInv, NEW p \in Procs, TaskStep(p)
    PROVE  FundInv'
<1>1. CASE CreateMoney(p)
  BY <1>1, CreateMoneyKeeps
<1>2. CASE ~CreateMoney(p)
  <2>1. \A t \in Tasks : Sound(t)
    BY <1>2, TaskStepSound
  <2>2. proc[p].pc \in TaskPc
    BY <1>2 DEF TaskStep, AcceptEscrow, AcceptWrite, StartWrite, CompleteWrite,
           ConfirmEscrow, ConfirmCash, ReleaseEscrow, CancelTx, CancelEscrow, DisputeTx,
           At, TaskPc
  <2>3. Return(p) \/ \E l \in TaskPc \ Guarded : Goto(p, l)
    BY <1>2 DEF TaskStep, AcceptEscrow, AcceptWrite, StartWrite, CompleteWrite,
           ConfirmEscrow, ConfirmCash, ReleaseEscrow, CancelTx, CancelEscrow, DisputeTx,
           TaskPc, Guarded, Blind, Refunding, Executing
  <2> QED BY <2>1, <2>2, <2>3, ReturnKeeps, GotoKeeps
<1> QED
  BY <1>1, <1>2

-----------------------------------------------------------------------------
(* The steps of the other services.                                        *)

LEMMA PaymentStepKeeps ==
    ASSUME TypeOK, FundInv, NEW p \in Procs, PaymentStep(p)
    PROVE  FundInv'
<1> DEFINE u == proc[p].t
<1>1. proc[p].pc \in TaskPc /\ u \in Tasks /\ Justified(p)
  BY DEF PaymentStep, OrderWrite, EscrowPaymentTx, FeePaymentTx, Announce, At,
         TaskPc, TypeOK, ProcsOK, FundInv
<1>2. task \in [Tasks -> TaskRow] /\ gateway \in [Tasks -> GatewayOrder]
  BY DEF TypeOK, RowsOK
<1>3. CASE OrderWrite(p)
  <2>1. \A t \in Tasks : gateway[t].refunded => gateway'[t].refunded
    BY <1>1, <1>2, <1>3 DEF OrderWrite, GatewayOrder
  <2> QED BY <1>3, <2>1, RowsSound, ReturnKeeps DEF OrderWrite
<1>4. CASE Announce(p)
  BY <1>4, RowsSound, ReturnKeeps DEF Announce
<1>5. CASE EscrowPaymentTx(p)
  <2>1. /\ UNCHANGED <<refund, dispute, gateway>>
        /\ Return(p) \/ Goto(p, "announce") \/ Goto(p, "refundFind")
    BY <1>5 DEF EscrowPaymentTx
  <2>2. escrow[u].status # "NONE" /\ proc[p].pay # 0
    BY <1>1, <1>5 DEF EscrowPaymentTx, Justified
  <2>3. ASSUME NEW t \in Tasks PROVE Sound(t)
    <3>1. RowSound(t)
      BY DEF FundInv
    <3>2. \/ task'[t].status = task[t].status
          \/ t = u /\ task'[t].status = "OPEN" /\ task[t].status = "PENDING_PAYMENT"
      BY <1>1, <1>2, <1>5 DEF EscrowPaymentTx, TaskRow
    <3>3. \/ escrow'[t] = escrow[t]
          \/ /\ escrow[t].status = "PENDING" /\ t = u
             /\ escrow'[t].pay = proc[p].pay
             /\ escrow'[t].status \in {"REFUND_PENDING", "HELD"}
      BY <1>5, EscrowPaymentEffect
    <3>4. t = u => escrow'[t].status \notin {"NONE", "PENDING"}
      <4>1. escrow[u].status = "PENDING" =>
              escrow' = [escrow EXCEPT ![u].pay = proc[p].pay,
                 ![u].status = IF task[u].status = "CANCELLED" THEN "REFUND_PENDING" ELSE "HELD"]
        BY <1>5 DEF EscrowPaymentTx
      <4>2. escrow[u].status = "PENDING" => escrow'[u].status \in {"REFUND_PENDING", "HELD"}
        BY <1>1, <4>1 DEF TypeOK, RowsOK, EscrowRow
      <4> QED BY <2>2, <3>3, <4>2
    <3> QED
      BY <2>1, <2>2, <3>1, <3>2, <3>3, <3>4
         DEF Sound, RowSound, Kept, Funded, IsEscrow, Begun
  <2> QED
    BY <1>1, <2>1, <2>3, ReturnKeeps, GotoKeeps
       DEF TaskPc, Guarded, Blind, Refunding, Executing
<1>6. CASE FeePaymentTx(p)
  <2>1. /\ UNCHANGED <<escrow, refund, dispute, gateway>>
        /\ Return(p) \/ Goto(p, "announce")
    BY <1>6 DEF FeePaymentTx
  <2>2. ~IsEscrow(u)
    BY <1>1, <1>6 DEF FeePaymentTx, Justified
  <2>3. ASSUME NEW t \in Tasks PROVE Sound(t)
    <3>1. RowSound(t)
      BY DEF FundInv
    <3>2. \/ task'[t].status = task[t].status
          \/ t = u /\ task'[t].status = "OPEN"
      BY <1>1, <1>2, <1>6 DEF FeePaymentTx, TaskRow
    <3> QED
      BY <2>1, <2>2, <3>1, <3>2 DEF Sound, RowSound, Kept, Funded, IsEscrow
  <2> QED
    BY <1>1, <2>1, <2>3, ReturnKeeps, GotoKeeps
       DEF TaskPc, Guarded, Blind, Refunding, Executing
<1> QED
  BY <1>3, <1>4, <1>5, <1>6 DEF PaymentStep

\* A refund goes on from an escrow that is funded to one that still is.
LEMMA RefundGotoKeeps ==
    ASSUME TypeOK, FundInv, NEW p \in Procs, NEW l \in Refunding \cup {"refundExisting"},
           Goto(p, l), proc[p].pc \in TaskPc, Funded(proc[p].t), \A t \in Tasks : Sound(t)
    PROVE  FundInv'
<1>1. /\ proc'[p].pc = l /\ proc'[p].t = proc[p].t
      /\ \A q \in Procs \ {p} : proc'[q] = proc[q]
  BY GotoEffect DEF TypeOK, Refunding, Executing, TaskPc
<1>2. l \notin Blind /\ l \notin {"createMoney", "escrowPaymentTx", "feePaymentTx"}
  BY DEF Refunding, Executing, Blind
<1>3. escrow'[proc[p].t].status \notin {"NONE", "PENDING"}
  BY DEF TypeOK, ProcsOK, Sound, Kept, Funded
<1>4. Justified(p)'
  BY <1>1, <1>2, <1>3 DEF Justified, At, Funded
<1> QED
  BY <1>1, <1>2, <1>4, MoveKeeps

LEMMA RefundStepKeepsFunds ==
    ASSUME TypeOK, RefundInv, FundInv, NEW p \in Procs, RefundStep(p)
    PROVE  FundInv'
<1> DEFINE u == proc[p].t
<1>1. proc[p].pc \in TaskPc /\ u \in Tasks /\ Justified(p) /\ RowSound(u)
  BY DEF RefundStep, RefundReadEscrow, RefundReadExisting, RefundClaim, RefundCreate,
         Execute, ProviderConfirms, ProviderRefuses, ProviderAnswerLost, RefundComplete,
         RefundFailed, At, TaskPc, TypeOK, ProcsOK, FundInv
<1>2. escrow \in [Tasks -> EscrowRow] /\ refund \in [Tasks -> RefundStatus]
      /\ gateway \in [Tasks -> GatewayOrder]
  BY DEF TypeOK, RowsOK
<1>3. CASE RefundReadEscrow(p)
  <2> DEFINE ok == /\ escrow[u].status \in REFUNDABLE_ESCROW_STATES
                   /\ escrow[u].pay # 0
             r == [proc[p] EXCEPT !.pc = "refundExisting", !.refundable = ok]
  <2>1. proc' = [proc EXCEPT ![p] = r]
    BY <1>3 DEF RefundReadEscrow
  <2>2. r.pc = "refundExisting" /\ r.t = u /\ r.refundable = ok
    BY DEF TypeOK, ProcsOK, Proc
  <2>3. ok => Funded(u)
    BY DEF REFUNDABLE_ESCROW_STATES, Funded
  <2> HIDE DEF r, ok
  <2>4. /\ proc'[p].pc = "refundExisting" /\ proc'[p].t = u /\ proc'[p].refundable = ok
        /\ \A q \in Procs \ {p} : proc'[q] = proc[q]
    BY <2>1, <2>2 DEF TypeOK, ProcsOK
  <2>5. \A t \in Tasks : Sound(t)
    BY <1>3, RowsSound DEF RefundReadEscrow, rows
  <2>6. escrow' = escrow
    BY <1>3 DEF RefundReadEscrow, rows
  <2>7. Justified(p)'
    BY <2>3, <2>4, <2>6 DEF Justified, At, Blind, Refunding, Executing, Funded
  <2> QED BY <2>4, <2>5, <2>7, MoveKeeps
<1>4. CASE RefundReadExisting(p)
  <2>1. \A t \in Tasks : Sound(t)
    BY <1>4, RowsSound DEF RefundReadExisting, rows
  <2>2. \/ Return(p)
        \/ Goto(p, "execute") /\ Funded(u)
        \/ Goto(p, "refundClaim") /\ Funded(u)
    BY <1>1, <1>4 DEF RefundReadExisting, RefundRetryable, RowSound, Justified
  <2> QED BY <1>1, <2>1, <2>2, ReturnKeeps, RefundGotoKeeps DEF Refunding
<1>5. CASE RefundClaim(p)
  <2>1. Funded(u)
    BY <1>1, <1>5 DEF RefundClaim, Justified, At, Refunding
  <2>2. ASSUME NEW t \in Tasks PROVE Sound(t)
    <3>1. \/ escrow'[t] = escrow[t]
          \/ /\ escrow[t].status \in {"HELD", "DISPUTED"}
             /\ escrow'[t].status = "REFUND_PENDING" /\ escrow'[t].pay = escrow[t].pay
      BY <1>1, <1>2, <1>5 DEF RefundClaim, EscrowRow
    <3>2. UNCHANGED <<task, refund, dispute, gateway>> /\ RowSound(t)
      BY <1>5 DEF RefundClaim, FundInv
    <3> QED BY <3>1, <3>2 DEF Sound, RowSound, Kept, Funded, IsEscrow
  <2> QED BY <1>1, <1>5, <2>1, <2>2, RefundGotoKeeps DEF RefundClaim, Refunding
\* The refund row of a funded escrow, whatever becomes of it.
<1>6. ASSUME Funded(u), UNCHANGED <<task, escrow, dispute>>,
             \A t \in Tasks \ {u} : refund'[t] = refund[t],
             \A t \in Tasks : gateway[t].refunded => gateway'[t].refunded
      PROVE  \A t \in Tasks : Sound(t)
  BY <1>6 DEF FundInv, Sound, RowSound, Kept, Funded, IsEscrow
<1>7. CASE RefundCreate(p) \/ Execute(p) \/ RefundFailed(p)
  <2>1. Funded(u)
    BY <1>1, <1>7
       DEF RefundCreate, Execute, RefundFailed, Justified, At, Refunding, Executing
  <2>2. /\ UNCHANGED <<task, escrow, dispute, gateway>>
        /\ \A t \in Tasks \ {u} : refund'[t] = refund[t]
    BY <1>1, <1>2, <1>7 DEF RefundCreate, Execute, RefundFailed
  <2>3. \/ Return(p) \/ Goto(p, "execute") \/ Goto(p, "provider")
        \/ Goto(p, "refundExisting")
    BY <1>7 DEF RefundCreate, Execute, RefundFailed
  <2>4. \A t \in Tasks : Sound(t)
    BY <1>6, <2>1, <2>2
  <2> QED
    BY <1>1, <2>1, <2>3, <2>4, ReturnKeeps, RefundGotoKeeps DEF Refunding, Executing
<1>8. CASE ProviderConfirms(p) \/ ProviderRefuses(p) \/ ProviderAnswerLost(p)
  <2>1. Funded(u)
    BY <1>1, <1>8 DEF ProviderConfirms, ProviderRefuses, ProviderAnswerLost, Justified, At,
                      Refunding, Executing
  <2>2. /\ UNCHANGED <<task, escrow, dispute, refund>>
        /\ \A t \in Tasks : gateway[t].refunded => gateway'[t].refunded
    BY <1>1, <1>2, <1>8
       DEF ProviderConfirms, ProviderRefuses, ProviderAnswerLost, rows, GatewayOrder
  <2>3. Goto(p, "refundOk") \/ Goto(p, "refundFail")
    BY <1>8 DEF ProviderConfirms, ProviderRefuses, ProviderAnswerLost
  <2>4. \A t \in Tasks : Sound(t)
    BY <1>6, <2>1, <2>2
  <2> QED BY <1>1, <2>1, <2>3, <2>4, RefundGotoKeeps DEF Refunding, Executing
<1>9. CASE RefundComplete(p)
  <2>1. Funded(u) /\ gateway[u].refunded
    BY <1>1, <1>9 DEF RefundComplete, Justified, At, Refunding, Executing,
                      RefundInv, CompletesConfirmed
  <2>2. ASSUME NEW t \in Tasks PROVE Sound(t)
    <3>1. \/ t # u /\ escrow'[t] = escrow[t] /\ refund'[t] = refund[t]
          \/ t = u /\ escrow'[t].status = "REFUNDED" /\ escrow'[t].pay = escrow[t].pay
      BY <1>1, <1>2, <1>9 DEF RefundComplete, EscrowRow
    <3>2. UNCHANGED <<task, dispute, gateway>> /\ RowSound(t)
      BY <1>9 DEF RefundComplete, FundInv
    <3> QED BY <2>1, <3>1, <3>2 DEF Sound, RowSound, Kept, Funded, IsEscrow
  <2> QED BY <1>9, <2>2, ReturnKeeps DEF RefundComplete
<1> QED
  BY <1>3, <1>4, <1>5, <1>7, <1>8, <1>9 DEF RefundStep

LEMMA OtherStepKeeps ==
    ASSUME TypeOK, FundInv, NEW p \in Procs,
           CronStarts(p) \/ CronStep(p) \/ PayoutStep(p) \/ Fail(p)
    PROVE  FundInv'
<1>1. /\ \A t \in Tasks : Sound(t)
      /\ \A q \in Procs \ {p} : proc'[q] = proc[q]
      /\ proc'[p].pc \notin Guarded
  <2>1. CASE CronStarts(p) \/ CronStep(p)
    <3>1. proc'[p].pc \notin Guarded
      BY <2>1, CronEffect, PcDisjoint, GuardedPc DEF Guarded, Blind, Refunding, Executing
    <3>2. UNCHANGED rows /\ \A q \in Procs \ {p} : proc'[q] = proc[q]
      BY <2>1, CronEffect
    <3> QED BY <3>1, <3>2, RowsSound DEF rows
  <2>2. CASE PayoutStep(p)
    <3>1. /\ UNCHANGED <<task, escrow, refund, dispute, gateway>>
          /\ proc[p].pc \in TaskPc
          /\ Return(p) \/ Goto(p, "payoutCreate") \/ Goto(p, "payoutUpdate")
      BY <2>2 DEF PayoutStep, PayoutFind, PayoutCreate, PayoutUpdate, At, TaskPc, rows
    <3>2. /\ proc'[p].pc \in SweepPc \cup {"idle", "payoutCreate", "payoutUpdate"}
          /\ \A q \in Procs \ {p} : proc'[q] = proc[q]
      BY <3>1, ReturnEffect, GotoEffect DEF TypeOK, TaskPc
    <3>3. {"payoutCreate", "payoutUpdate"} \cap Guarded = {}
      BY DEF Guarded, Blind, Refunding, Executing
    <3> QED BY <3>1, <3>2, <3>3, RowsSound, PcDisjoint, GuardedPc
  <2>3. CASE Fail(p)
    <3>1. \A t \in Tasks : Sound(t)
      BY <2>3, RowsSound DEF Fail, rows
    <3>2. CASE Return(p)
      BY <3>1, <3>2, ReturnEffect, PcDisjoint, GuardedPc DEF TypeOK
    <3>3. CASE proc' = [proc EXCEPT ![p] = Idle]
      BY <3>1, <3>3, IdleType, GuardedPc DEF TypeOK, ProcsOK
    <3> QED BY <2>3, <3>2, <3>3 DEF Fail
  <2> QED BY <2>1, <2>2, <2>3
<1>2. proc'[p].pc # "createMoney"
  BY <1>1 DEF Guarded
<1> QED
  BY <1>1, <1>2, Unguarded, MoveKeeps

LEMMA EnvironmentKeeps ==
    ASSUME TypeOK, FundInv, NEW u \in Tasks, Environment(u)
    PROVE  FundInv'
<1>1. task \in [Tasks -> TaskRow] /\ escrow \in [Tasks -> EscrowRow]
      /\ dispute \in [Tasks -> DisputeStatus] /\ gateway \in [Tasks -> GatewayOrder]
  BY DEF TypeOK, RowsOK
<1>2. proc' = proc /\ refund' = refund
  BY DEF Environment, PosterPays, CompletionAges, AdminWrite, MarkPaid, ResolveDispute
<1>3. ASSUME NEW t \in Tasks PROVE Sound(t)
  <2>1. RowSound(t) /\ RowSound(u)
    BY DEF FundInv
  <2>2. CASE PosterPays(u) \/ MarkPaid(u)
    <3>1. gateway[t].refunded => gateway'[t].refunded
      BY <1>1, <2>2 DEF PosterPays, MarkPaid, GatewayOrder
    <3> QED
      BY <1>2, <2>1, <2>2, <3>1
         DEF PosterPays, MarkPaid, Sound, RowSound, Kept, Funded, IsEscrow
  <2>3. CASE CompletionAges(u)
    <3>1. task'[t].status = task[t].status /\ UNCHANGED <<escrow, dispute, gateway>>
      BY <1>1, <2>3 DEF CompletionAges, TaskRow
    <3> QED BY <1>2, <2>1, <3>1 DEF Sound, RowSound, Kept, Funded, IsEscrow
  <2>4. ASSUME NEW b \in BOOLEAN, ResolveDispute(u, b) PROVE Sound(t)
    <3>1. CASE t # u
      <4>1. task'[t] = task[t] /\ escrow'[t] = escrow[t] /\ dispute'[t] = dispute[t]
            /\ gateway' = gateway
        BY <1>1, <2>4, <3>1 DEF ResolveDispute
      <4> QED BY <1>2, <2>1, <4>1 DEF Sound, RowSound, Kept, Funded, IsEscrow
    <3>2. CASE t = u
      <4>1. /\ task'[t].status = "COMPLETED" /\ dispute'[t] = "RESOLVED"
            /\ dispute[t] # "NONE" /\ gateway' = gateway
        BY <1>1, <2>4, <3>2 DEF ResolveDispute, TaskRow
      <4>2. \/ escrow[t].status = "NONE" /\ escrow'[t] = escrow[t]
            \/ /\ escrow[t].status # "NONE" /\ escrow'[t].pay = escrow[t].pay
               /\ escrow'[t].status \in {"REFUNDED", "RELEASED"}
        BY <1>1, <2>4, <3>2 DEF ResolveDispute, EscrowRow
      <4> QED
        BY <1>2, <2>1, <4>1, <4>2 DEF Sound, RowSound, Kept, Funded, IsEscrow
    <3> QED BY <3>1, <3>2
  <2> QED BY <2>2, <2>3, <2>4 DEF Environment, AdminWrite
<1>4. \A q \in Procs : Justified(q)'
  BY <1>2, <1>3, KeptJustifies DEF FundInv, Sound
<1>5. OneCreator'
  BY <1>2 DEF FundInv, OneCreator, At
<1> QED
  BY <1>3, <1>4, <1>5 DEF FundInv, Sound

-----------------------------------------------------------------------------
LEMMA FundInvInit == Init => FundInv
<1> SUFFICES ASSUME Init PROVE FundInv
  OBVIOUS
<1>1. \A t \in Tasks : RowSound(t)
  BY DEF Init, LedgerInit, RowSound, Funded, Begun
<1>2. \A p \in Procs : proc[p].pc \notin Guarded
  BY IdleType, GuardedPc DEF Init, LedgerInit
<1>3. \A p \in Procs : Justified(p)
  BY <1>2 DEF Justified, At, Guarded
<1>4. OneCreator
  BY <1>2 DEF OneCreator, At, Guarded
<1> QED
  BY <1>1, <1>3, <1>4 DEF FundInv

LEMMA FundInvStep == TypeOK /\ RefundInv /\ FundInv /\ [Next]_vars => FundInv'
<1> SUFFICES ASSUME TypeOK, RefundInv, FundInv, [Next]_vars PROVE FundInv'
  OBVIOUS
<1>1. ASSUME NEW p \in Reqs, NEW t \in Tasks, Request(p, t) PROVE FundInv'
  BY <1>1, RequestKeeps, CreateTaskKeeps
<1>2. ASSUME NEW p \in Crons, CronStarts(p) PROVE FundInv'
  BY <1>2, OtherStepKeeps DEF Procs
<1>3. ASSUME NEW p \in Procs, Step(p) \/ Fail(p) PROVE FundInv'
  BY <1>3, TaskStepKeeps, PaymentStepKeeps, RefundStepKeepsFunds, OtherStepKeeps DEF Step
<1>4. ASSUME NEW t \in Tasks, Environment(t) PROVE FundInv'
  BY <1>4, EnvironmentKeeps
<1>5. CASE UNCHANGED vars
  BY <1>5 DEF vars, FundInv, RowSound, Funded, IsEscrow, Justified, OneCreator, At
<1> QED
  BY <1>1, <1>2, <1>3, <1>4, <1>5 DEF Next

LEMMA FundInvAlways == Spec => []FundInv
BY TypeCorrect, RefundInvInit, RefundInvStep, FundInvInit, FundInvStep, PTL DEF Spec

\* An escrow leaves PENDING only with the id of the payment that funded it, and
\* a payment id is recorded only then, although raiseDispute, resolveDispute and
\* the result of a refund write the escrow by id (applyEscrowPayment).
THEOREM MoneyIsCaptured == Spec => []CapturedMoney
<1>1. ASSUME FundInv, NEW t \in Tasks
      PROVE  (escrow[t].status \in {"NONE", "PENDING"}) <=> (escrow[t].pay = 0)
  BY <1>1 DEF FundInv, RowSound, Funded
<1>2. FundInv => CapturedMoney
  BY <1>1 DEF CapturedMoney
<1> QED
  BY <1>2, FundInvAlways, PTL

\* Whatever was disputed once is never HELD again: neither confirm nor the
\* auto-release can pay it out (raiseDispute, releaseEscrow).
THEOREM DisputedNeverHeld == Spec => []DisputeFreezesHeld
<1>1. FundInv => DisputeFreezesHeld
  BY DEF FundInv, RowSound, DisputeFreezesHeld
<1> QED
  BY <1>1, FundInvAlways, PTL

\* REFUNDED has two causes, the gateway's confirmation and an admin's verdict,
\* under every crash, retry and lost answer (execute, resolveDispute).
THEOREM RefundedForAReason == Spec => []RefundedIsAccounted
<1>1. FundInv => RefundedIsAccounted
  BY DEF FundInv, RowSound, RefundedIsAccounted
<1> QED
  BY <1>1, FundInvAlways, PTL

-----------------------------------------------------------------------------
(***************************************************************************)
(* A release pays and credits the doer of the task, once.  The job counter *)
(* and the payout row are written by whoever won the CAS on the escrow, on *)
(* behalf of a doer that was read before it; ReleaseInv says that this     *)
(* doer is still the one of the task, and that money which is HELD was     *)
(* never credited to anybody.                                              *)
(***************************************************************************)
CreditSound(t) ==
    /\ escrow[t].doer # NoUser => escrow[t].doer = task[t].doer
    /\ escrow[t].status \in {"NONE", "PENDING", "HELD"} => escrow[t].doer = NoUser
    /\ payout[t] # "NONE" => escrow[t].doer # NoUser

\* Who releases, and who pays out.
Releasing == {"confirmEscrow", "release"}
PayingOut == {"payoutFind", "payoutCreate", "payoutUpdate"}

\* The doer a request acts for is the doer of the task.
ActsForDoer(p) ==
    /\ proc[p].pc \in Releasing /\ proc[p].who # NoUser =>
         proc[p].who = task[proc[p].t].doer
    /\ proc[p].pc \in PayingOut => escrow[proc[p].t].doer # NoUser

ReleaseInv ==
    /\ \A t \in Tasks : CreditSound(t)
    /\ \A p \in Procs : ActsForDoer(p)
    /\ JobsCountReleases

Interested == Releasing \cup PayingOut

-----------------------------------------------------------------------------
(* A step that credits nobody.                                             *)

\* It leaves the doer of the escrow alone, hires at most, and holds only money
\* that was awaited.
Idles(t) ==
    /\ task[t].doer # NoUser => task'[t].doer = task[t].doer
    /\ escrow'[t].doer = escrow[t].doer
    /\ escrow'[t].status \in {"NONE", "PENDING", "HELD"} =>
         escrow[t].status \in {"NONE", "PENDING", "HELD"}
    /\ payout'[t] # "NONE" => payout[t] # "NONE" \/ escrow[t].doer # NoUser

LEMMA InterestedPc == Interested \subseteq TaskPc /\ "idle" \notin Interested
BY DEF Interested, Releasing, PayingOut, TaskPc

LEMMA IdlesKeeps ==
    ASSUME TypeOK, ReleaseInv, NEW p \in Procs, jobs' = jobs,
           \A t \in Tasks : Idles(t),
           \A q \in Procs \ {p} : proc'[q] = proc[q],
           ActsForDoer(p)'
    PROVE  ReleaseInv'
<1>1. \A t \in Tasks : CreditSound(t)'
  BY DEF ReleaseInv, CreditSound, Idles
<1>2. ASSUME NEW q \in Procs \ {p} PROVE ActsForDoer(q)'
  <2>1. ActsForDoer(q) /\ proc'[q] = proc[q]
    BY DEF ReleaseInv
  <2>2. CASE proc[q].pc \in Interested
    <3>1. proc[q].t \in Tasks
      BY <2>2, InterestedPc DEF TypeOK, ProcsOK
    <3>2. CASE proc[q].who = NoUser
      BY <2>1, <3>1, <3>2 DEF ActsForDoer, Idles
    <3>3. CASE proc[q].who # NoUser
      BY <2>1, <3>1, <3>3 DEF ActsForDoer, Idles
    <3> QED BY <3>2, <3>3
  <2>3. CASE proc[q].pc \notin Interested
    BY <2>1, <2>3 DEF ActsForDoer, Interested
  <2> QED BY <2>2, <2>3
<1>3. \A u \in Users : {t \in Tasks : escrow'[t].doer = u} = {t \in Tasks : escrow[t].doer = u}
  BY DEF Idles
<1>4. JobsCountReleases'
  BY <1>3 DEF ReleaseInv, JobsCountReleases
<1> QED
  BY <1>1, <1>2, <1>4 DEF ReleaseInv

LEMMA Uninterested ==
    ASSUME NEW p \in Procs, proc'[p].pc \notin Interested
    PROVE  ActsForDoer(p)'
BY DEF ActsForDoer, Interested

LEMMA RowsIdle ==
    ASSUME UNCHANGED <<task, escrow, payout>>
    PROVE  \A t \in Tasks : Idles(t)
BY DEF Idles

LEMMA ReturnIdles ==
    ASSUME TypeOK, ReleaseInv, NEW p \in Procs, Return(p), jobs' = jobs,
           \A t \in Tasks : Idles(t)
    PROVE  ReleaseInv'
<1>1. proc'[p].pc \notin Interested /\ \A q \in Procs \ {p} : proc'[q] = proc[q]
  BY ReturnEffect, PcDisjoint, InterestedPc DEF TypeOK
<1> QED
  BY <1>1, Uninterested, IdlesKeeps

LEMMA GotoIdles ==
    ASSUME TypeOK, ReleaseInv, NEW p \in Procs, NEW l \in TaskPc \ Interested, Goto(p, l),
           proc[p].pc \in TaskPc, jobs' = jobs, \A t \in Tasks : Idles(t)
    PROVE  ReleaseInv'
<1>1. proc'[p].pc = l /\ \A q \in Procs \ {p} : proc'[q] = proc[q]
  BY GotoEffect DEF TypeOK
<1> QED
  BY <1>1, Uninterested, IdlesKeeps

-----------------------------------------------------------------------------
LEMMA RequestActs ==
    ASSUME TypeOK, ReleaseInv, NEW p \in Reqs, NEW t \in Tasks, Request(p, t)
    PROVE  ReleaseInv'
<1>1. NoUser \in UserOrNull /\ task[t].doer \in UserOrNull /\ Users \subseteq UserOrNull
      /\ 0 \in Payments
  BY LedgerAssumption DEF LedgerAssumption, TypeOK, RowsOK, TaskRow, UserOrNull, Payments
<1>2. /\ UNCHANGED <<escrow, payout, jobs>>
      /\ \A u \in Tasks : task'[u].doer = task[u].doer
  <2>1. CASE CreateTask(p, t)
    BY <2>1 DEF CreateTask, TypeOK, RowsOK, TaskRow
  <2>2. CASE UNCHANGED rows
    BY <2>2 DEF rows
  <2> QED
    BY <2>1, <2>2
       DEF Request, TaskRequest, MarkStarted, MarkComplete, Confirm,
           ForceCancel, Accept, Cancel, RaiseDispute, PaymentRequest, InitiatePayment,
           Webhook, AdminRequest, InitiateEscrowRefund, RetryRefund
<1>3. \A u \in Tasks : Idles(u)
  BY <1>2 DEF Idles
<1>4. ASSUME NEW l \in TaskPc, NEW who \in UserOrNull, NEW pay \in Payments,
             Begin(p, l, t, who, pay)
      PROVE  /\ p \in Procs /\ proc'[p].pc = l /\ proc'[p].t = t /\ proc'[p].who = who
             /\ \A q \in Procs \ {p} : proc'[q] = proc[q]
  BY <1>4, BeginEffect DEF TypeOK
<1>5. CASE Begin(p, "confirmEscrow", t, task[t].doer, 0)
  <2>1. /\ p \in Procs /\ proc'[p].pc = "confirmEscrow"
        /\ proc'[p].t = t /\ proc'[p].who = task[t].doer
        /\ \A q \in Procs \ {p} : proc'[q] = proc[q]
    BY <1>1, <1>4, <1>5 DEF TaskPc
  <2>2. ActsForDoer(p)'
    BY <1>2, <2>1 DEF ActsForDoer, PayingOut
  <2> QED BY <1>2, <1>3, <2>1, <2>2, IdlesKeeps
<1>6. ASSUME NEW l \in TaskPc, NEW who \in UserOrNull, NEW pay \in Payments,
             Begin(p, l, t, who, pay), l \notin Interested
      PROVE  ReleaseInv'
  <2>1. p \in Procs /\ proc'[p].pc = l /\ \A q \in Procs \ {p} : proc'[q] = proc[q]
    BY <1>6, BeginEffect DEF TypeOK
  <2> QED BY <1>2, <1>3, <1>6, <2>1, Uninterested, IdlesKeeps
<1>7. CASE TaskRequest(p, t)
  <2>1. ASSUME NEW l \in {"createMoney", "startWrite", "completeWrite", "acceptEscrow",
                         "acceptWrite", "confirmCash", "cancelTx", "disputeTx"},
               NEW who \in UserOrNull, Begin(p, l, t, who, 0)
        PROVE  ReleaseInv'
    BY <1>1, <1>6, <2>1 DEF TaskPc, Interested, Releasing, PayingOut
  <2> QED
    BY <1>1, <1>5, <1>7, <2>1
       DEF TaskRequest, CreateTask, MarkStarted, MarkComplete, Confirm, ForceCancel,
           Accept, Cancel, RaiseDispute
<1>8. CASE PaymentRequest(p, t) \/ AdminRequest(p, t)
  BY <1>1, <1>6, <1>8
     DEF PaymentRequest, InitiatePayment, Webhook, AdminRequest, InitiateEscrowRefund,
         RetryRefund, TaskPc, Interested, Releasing, PayingOut
<1> QED
  BY <1>7, <1>8 DEF Request

-----------------------------------------------------------------------------
(* The release itself.                                                     *)

LEMMA ReleaseKeeps ==
    ASSUME TypeOK, ReleaseInv, NEW p \in Procs, ReleaseEscrow(p)
    PROVE  ReleaseInv'
<1> DEFINE u == proc[p].t
           d == proc[p].who
           won == escrow[u].status = "HELD"
<1>1. proc[p].pc = "release" /\ proc[p].pc \in TaskPc /\ u \in Tasks /\ d \in UserOrNull
      /\ ActsForDoer(p)
  BY DEF ReleaseEscrow, At, TaskPc, TypeOK, ProcsOK, Proc, ReleaseInv
<1>2. \A t \in Tasks : task'[t].doer = task[t].doer
  BY <1>1 DEF ReleaseEscrow, TypeOK, RowsOK, TaskRow
<1>3. payout' = payout
  BY DEF ReleaseEscrow
<1>4. CASE ~won \/ d = NoUser
  <2>1. jobs' = jobs /\ Return(p)
    BY <1>4 DEF ReleaseEscrow
  <2>2. ASSUME NEW t \in Tasks PROVE Idles(t)
    BY <1>2, <1>3, <1>4, ReleaseEffect DEF Idles
  <2> QED BY <2>1, <2>2, ReturnIdles
<1>5. CASE won /\ d # NoUser
  <2>1. /\ jobs' = [jobs EXCEPT ![d] = @ + 1]
        /\ Goto(p, "payoutFind")
    BY <1>5 DEF ReleaseEscrow
  <2>2. d \in Users /\ d = task[u].doer /\ escrow[u].doer = NoUser
    BY <1>1, <1>5 DEF ActsForDoer, Releasing, UserOrNull, ReleaseInv, CreditSound
  <2>3. /\ proc'[p].pc = "payoutFind" /\ proc'[p].t = u
        /\ \A q \in Procs \ {p} : proc'[q] = proc[q]
    BY <1>1, <2>1, GotoEffect DEF TypeOK, TaskPc
  <2>4. /\ escrow'[u].status = "RELEASED" /\ escrow'[u].doer = d
        /\ \A t \in Tasks \ {u} : escrow'[t] = escrow[t]
    <3> DEFINE r == [escrow[u] EXCEPT !.status = "RELEASED", !.doer = d]
    <3>1. escrow' = [escrow EXCEPT ![u] = r]
      BY <1>5 DEF ReleaseEscrow
    <3>2. r.status = "RELEASED" /\ r.doer = d
      BY <1>1 DEF TypeOK, RowsOK, EscrowRow
    <3> HIDE DEF r
    <3> QED BY <1>1, <3>1, <3>2 DEF TypeOK, RowsOK
  <2>5. \A t \in Tasks : CreditSound(t)'
    BY <1>2, <1>3, <2>2, <2>4 DEF ReleaseInv, CreditSound
  <2>6. ASSUME NEW q \in Procs PROVE ActsForDoer(q)'
    <3>1. CASE q = p
      BY <1>5, <2>2, <2>3, <2>4, <3>1 DEF ActsForDoer, Releasing
    <3>2. CASE q # p /\ proc[q].pc \in Interested
      <4>1. proc[q].t \in Tasks
        BY <3>2, InterestedPc DEF TypeOK, ProcsOK
      <4>2. escrow[proc[q].t].doer # NoUser => escrow'[proc[q].t].doer # NoUser
        BY <1>5, <2>4, <4>1
      <4> QED
        BY <1>2, <2>3, <3>2, <4>1, <4>2 DEF ReleaseInv, ActsForDoer
    <3>3. CASE q # p /\ proc[q].pc \notin Interested
      BY <2>3, <3>3 DEF ActsForDoer, Interested
    <3> QED BY <3>1, <3>2, <3>3
  <2>7. ASSUME NEW v \in Users
        PROVE  jobs'[v] = Cardinality({t \in Tasks : escrow'[t].doer = v})
    <3> DEFINE S == {t \in Tasks : escrow[t].doer = v}
               S1 == {t \in Tasks : escrow'[t].doer = v}
    <3>1. jobs[v] = Cardinality(S) /\ jobs \in [Users -> Nat]
      BY DEF ReleaseInv, JobsCountReleases, TypeOK, RowsOK
    <3>2. CASE v = d
      <4>1. S1 = S \cup {u} /\ u \notin S
        BY <1>1, <1>5, <2>2, <2>4, <3>2
      <4>2. IsFiniteSet(S)
        BY LedgerAssumption, FS_Subset DEF LedgerAssumption
      <4>3. Cardinality(S1) = Cardinality(S) + 1
        BY <4>1, <4>2, FS_AddElement
      <4> QED BY <2>1, <2>2, <3>1, <3>2, <4>3
    <3>3. CASE v # d
      <4>1. S1 = S
        BY <1>1, <2>2, <2>4, <3>3, LedgerAssumption DEF LedgerAssumption
      <4> QED BY <2>1, <3>1, <3>3, <4>1
    <3> QED BY <3>2, <3>3
  <2>8. JobsCountReleases'
    BY <2>7 DEF JobsCountReleases
  <2> QED BY <2>5, <2>6, <2>8 DEF ReleaseInv
<1> QED
  BY <1>4, <1>5

-----------------------------------------------------------------------------
(* The other steps.                                                        *)

LEMMA TaskStepIdles ==
    ASSUME TypeOK, FundInv, NEW p \in Procs, TaskStep(p), ~ReleaseEscrow(p),
           NEW t \in Tasks
    PROVE  Idles(t)
<1> DEFINE u == proc[p].t
<1>1. task \in [Tasks -> TaskRow] /\ escrow \in [Tasks -> EscrowRow]
  BY DEF TypeOK, RowsOK
<1>2. u \in Tasks /\ Justified(p) /\ payout' = payout
  BY DEF TaskStep, CreateMoney, AcceptEscrow, AcceptWrite, StartWrite, CompleteWrite,
         ConfirmEscrow, ConfirmCash, CancelTx, CancelEscrow, DisputeTx,
         At, TaskPc, TypeOK, ProcsOK, FundInv, rows
<1>3. ASSUME UNCHANGED escrow, task[t].doer # NoUser => task'[t].doer = task[t].doer
      PROVE  Idles(t)
  BY <1>2, <1>3 DEF Idles
<1>4. CASE CreateMoney(p)
  <2>1. escrow[u].status = "NONE" /\ task' = task
    BY <1>2, <1>4 DEF CreateMoney, Justified
  <2>2. \/ escrow'[t] = escrow[t]
        \/ escrow[t].status = "NONE" /\ escrow'[t].doer = escrow[t].doer
    BY <1>1, <1>4, <2>1 DEF CreateMoney, EscrowRow
  <2> QED BY <1>2, <2>1, <2>2 DEF Idles
<1>5. CASE AcceptEscrow(p) \/ ConfirmEscrow(p) \/ CancelEscrow(p)
  BY <1>3, <1>5 DEF AcceptEscrow, ConfirmEscrow, CancelEscrow, rows
<1>6. CASE AcceptWrite(p)
  BY <1>3, <1>6, AcceptWriteEffect DEF AcceptWrite
<1>7. CASE StartWrite(p) \/ ConfirmCash(p)
  <2>1. task'[t].doer = task[t].doer
    BY <1>1, <1>7 DEF StartWrite, ConfirmCash, TaskRow
  <2> QED BY <1>3, <1>7, <2>1 DEF StartWrite, ConfirmCash
<1>8. CASE CompleteWrite(p)
  BY <1>3, <1>8, CompleteWriteEffect DEF CompleteWrite
<1>9. CASE CancelTx(p)
  <2>1. task'[t].doer = task[t].doer
    BY <1>1, <1>9 DEF CancelTx, TaskRow
  <2>2. \/ escrow'[t] = escrow[t]
        \/ escrow'[t].status = "REFUND_PENDING" /\ escrow'[t].doer = escrow[t].doer
    BY <1>1, <1>2, <1>9 DEF CancelTx, EscrowRow
  <2> QED BY <1>2, <2>1, <2>2 DEF Idles
<1>10. CASE DisputeTx(p)
  <2>1. task'[t].doer = task[t].doer
    BY <1>1, <1>10 DEF DisputeTx, TaskRow
  <2>2. \/ escrow'[t] = escrow[t]
        \/ escrow'[t].status = "DISPUTED" /\ escrow'[t].doer = escrow[t].doer
    BY <1>1, <1>2, <1>10 DEF DisputeTx, EscrowRow
  <2> QED BY <1>2, <2>1, <2>2 DEF Idles
<1> QED
  BY <1>4, <1>5, <1>6, <1>7, <1>8, <1>9, <1>10 DEF TaskStep

LEMMA TaskStepReleases ==
    ASSUME TypeOK, FundInv, ReleaseInv, NEW p \in Procs, TaskStep(p)
    PROVE  ReleaseInv'
<1>1. CASE ReleaseEscrow(p)
  BY <1>1, ReleaseKeeps
<1>2. CASE ~ReleaseEscrow(p)
  <2>1. \A t \in Tasks : Idles(t)
    BY <1>2, TaskStepIdles
  <2>2. proc[p].pc \in TaskPc /\ jobs' = jobs
    BY <1>2 DEF TaskStep, CreateMoney, AcceptEscrow, AcceptWrite, StartWrite, CompleteWrite,
           ConfirmEscrow, ConfirmCash, CancelTx, CancelEscrow, DisputeTx, At, TaskPc, rows
  <2>3. \/ Return(p)
        \/ \E l \in TaskPc \ Interested : Goto(p, l)
        \/ ConfirmEscrow(p) /\ Goto(p, "release")
    BY <1>2 DEF TaskStep, CreateMoney, AcceptEscrow, AcceptWrite, StartWrite, CompleteWrite,
           ConfirmEscrow, ConfirmCash, CancelTx, CancelEscrow, DisputeTx,
           TaskPc, Interested, Releasing, PayingOut
  <2>4. CASE ConfirmEscrow(p) /\ Goto(p, "release")
    <3>1. /\ proc'[p].pc = "release" /\ proc'[p].t = proc[p].t
          /\ proc'[p].who = proc[p].who
          /\ \A q \in Procs \ {p} : proc'[q] = proc[q]
      BY <2>2, <2>4, GotoEffect DEF TypeOK, TaskPc
    <3>2. ActsForDoer(p) /\ proc[p].pc \in Releasing /\ task' = task
      BY <2>4 DEF ConfirmEscrow, ReleaseInv, Releasing, At, rows
    <3>3. ActsForDoer(p)'
      BY <3>1, <3>2 DEF ActsForDoer, PayingOut
    <3> QED BY <2>1, <2>2, <3>1, <3>3, IdlesKeeps
  <2> QED BY <2>1, <2>2, <2>3, <2>4, ReturnIdles, GotoIdles
<1> QED
  BY <1>1, <1>2

LEMMA PaymentStepReleases ==
    ASSUME TypeOK, ReleaseInv, NEW p \in Procs, PaymentStep(p)
    PROVE  ReleaseInv'
<1>1. proc[p].pc \in TaskPc /\ UNCHANGED <<payout, jobs>>
  BY DEF PaymentStep, OrderWrite, EscrowPaymentTx, FeePaymentTx, Announce, At, TaskPc
<1>2. task' \in {task, [task EXCEPT ![proc[p].t].status = "OPEN"]}
  BY DEF PaymentStep, OrderWrite, EscrowPaymentTx, FeePaymentTx, Announce
<1>3. \A t \in Tasks : task'[t].doer = task[t].doer
  BY <1>2 DEF TypeOK, RowsOK, TaskRow
<1>4. \A t \in Tasks : Idles(t)
  <2>1. CASE EscrowPaymentTx(p)
    BY <1>1, <1>3, <2>1, EscrowPaymentEffect DEF Idles
  <2>2. CASE ~EscrowPaymentTx(p)
    BY <1>1, <1>3, <2>2 DEF PaymentStep, OrderWrite, FeePaymentTx, Announce, Idles
  <2> QED BY <2>1, <2>2
<1>5. Return(p) \/ Goto(p, "announce") \/ Goto(p, "refundFind")
  BY DEF PaymentStep, OrderWrite, EscrowPaymentTx, FeePaymentTx, Announce
<1> QED
  BY <1>1, <1>4, <1>5, ReturnIdles, GotoIdles DEF TaskPc, Interested, Releasing, PayingOut

LEMMA RefundStepReleases ==
    ASSUME TypeOK, ReleaseInv, NEW p \in Procs, RefundStep(p)
    PROVE  ReleaseInv'
<1> DEFINE u == proc[p].t
<1>1. /\ proc[p].pc \in TaskPc /\ u \in Tasks /\ UNCHANGED <<task, payout, jobs>>
      /\ escrow \in [Tasks -> EscrowRow]
  BY DEF RefundStep, RefundReadEscrow, RefundReadExisting, RefundClaim, RefundCreate,
         Execute, ProviderConfirms, ProviderRefuses, ProviderAnswerLost, RefundComplete,
         RefundFailed, At, TaskPc, TypeOK, RowsOK, ProcsOK, rows
<1>2. ASSUME NEW t \in Tasks PROVE Idles(t)
  <2>1. \/ escrow'[t] = escrow[t]
        \/ /\ escrow'[t].status \in {"REFUND_PENDING", "REFUNDED"}
           /\ escrow'[t].doer = escrow[t].doer
    BY <1>1 DEF RefundStep, RefundReadEscrow, RefundReadExisting, RefundClaim, RefundCreate,
         Execute, ProviderConfirms, ProviderRefuses, ProviderAnswerLost, RefundComplete,
         RefundFailed, rows, EscrowRow
  <2> QED BY <1>1, <2>1 DEF Idles
<1>3. CASE RefundReadEscrow(p)
  <2> DEFINE ok == /\ escrow[u].status \in REFUNDABLE_ESCROW_STATES
                   /\ escrow[u].pay # 0
             r == [proc[p] EXCEPT !.pc = "refundExisting", !.refundable = ok]
  <2>1. proc' = [proc EXCEPT ![p] = r]
    BY <1>3 DEF RefundReadEscrow
  <2>2. r.pc = "refundExisting" /\ "refundExisting" \notin Interested
    BY DEF TypeOK, ProcsOK, Proc, Interested, Releasing, PayingOut
  <2> HIDE DEF r, ok
  <2>3. proc'[p].pc \notin Interested /\ \A q \in Procs \ {p} : proc'[q] = proc[q]
    BY <2>1, <2>2 DEF TypeOK, ProcsOK
  <2> QED BY <1>1, <1>2, <2>3, Uninterested, IdlesKeeps
<1>4. CASE ~RefundReadEscrow(p)
  <2>1. Return(p) \/ \E l \in TaskPc \ Interested : Goto(p, l)
    BY <1>4 DEF RefundStep, RefundReadExisting, RefundClaim, RefundCreate,
         Execute, ProviderConfirms, ProviderRefuses, ProviderAnswerLost, RefundComplete,
         RefundFailed, TaskPc, Interested, Releasing, PayingOut
  <2> QED BY <1>1, <1>2, <2>1, ReturnIdles, GotoIdles
<1> QED
  BY <1>3, <1>4

\* Whoever looks for a payout, or inserts one, won the release of a doer.
LEMMA PayoutStepReleases ==
    ASSUME TypeOK, ReleaseInv, NEW p \in Procs, PayoutStep(p)
    PROVE  ReleaseInv'
<1> DEFINE u == proc[p].t
<1>1. /\ proc[p].pc \in PayingOut /\ PayingOut \subseteq TaskPc /\ u \in Tasks
      /\ UNCHANGED <<task, escrow, jobs>>
      /\ ActsForDoer(p)
  BY DEF PayoutStep, PayoutFind, PayoutCreate, PayoutUpdate, At, PayingOut, TaskPc,
         TypeOK, ProcsOK, ReleaseInv, rows
<1>2. escrow[u].doer # NoUser
  BY <1>1 DEF ActsForDoer
<1>3. \A t \in Tasks \ {u} : payout'[t] = payout[t]
  BY <1>1 DEF PayoutStep, PayoutFind, PayoutCreate, PayoutUpdate, rows, TypeOK, RowsOK
<1>4. \A t \in Tasks : Idles(t)
  BY <1>1, <1>2, <1>3 DEF Idles
<1>5. Return(p) \/ \E l \in PayingOut : Goto(p, l)
  BY DEF PayoutStep, PayoutFind, PayoutCreate, PayoutUpdate, PayingOut
<1>6. ASSUME NEW l \in PayingOut, Goto(p, l) PROVE ReleaseInv'
  <2>1. /\ proc'[p].pc = l /\ proc'[p].t = u
        /\ \A q \in Procs \ {p} : proc'[q] = proc[q]
    BY <1>1, <1>6, GotoEffect DEF TypeOK
  <2>2. ActsForDoer(p)'
    BY <1>1, <1>2, <2>1 DEF ActsForDoer, Releasing, PayingOut
  <2> QED BY <1>1, <1>4, <2>1, <2>2, IdlesKeeps
<1> QED
  BY <1>1, <1>4, <1>5, <1>6, ReturnIdles

\* The auto-release acts for the doer it reads when the turn of the task comes.
LEMMA CronReleases ==
    ASSUME TypeOK, ReleaseInv, NEW p \in Procs, CronStarts(p) \/ CronStep(p)
    PROVE  ReleaseInv'
<1>1. /\ UNCHANGED <<task, jobs>>
      /\ \A t \in Tasks : Idles(t)
      /\ \A q \in Procs \ {p} : proc'[q] = proc[q]
  BY CronEffect, RowsIdle DEF rows
<1>2. ActsForDoer(p)'
  <2>1. CASE proc'[p].pc \in SweepPc \cup {"idle", "refundFind"}
    <3>1. "refundFind" \notin Interested
      BY DEF Interested, Releasing, PayingOut
    <3> QED BY <2>1, <3>1, InterestedPc, PcDisjoint, Uninterested
  <2>2. CASE proc'[p].pc = "release" /\ proc'[p].who = task[proc'[p].t].doer
    BY <1>1, <2>2 DEF ActsForDoer, PayingOut
  <2> QED BY <2>1, <2>2, CronEffect
<1> QED
  BY <1>1, <1>2, IdlesKeeps

LEMMA FailReleases ==
    ASSUME TypeOK, ReleaseInv, NEW p \in Procs, Fail(p)
    PROVE  ReleaseInv'
<1>1. UNCHANGED jobs /\ \A t \in Tasks : Idles(t)
  BY RowsIdle DEF Fail, rows
<1>2. CASE Return(p)
  BY <1>1, <1>2, ReturnIdles
<1>3. CASE proc' = [proc EXCEPT ![p] = Idle]
  <2>1. proc'[p].pc \notin Interested /\ \A q \in Procs \ {p} : proc'[q] = proc[q]
    BY <1>3, IdleType, InterestedPc DEF TypeOK, ProcsOK
  <2> QED BY <1>1, <2>1, Uninterested, IdlesKeeps
<1> QED
  BY <1>2, <1>3 DEF Fail

LEMMA EnvironmentReleases ==
    ASSUME TypeOK, ReleaseInv, NEW u \in Tasks, Environment(u)
    PROVE  ReleaseInv'
<1>1. task \in [Tasks -> TaskRow] /\ escrow \in [Tasks -> EscrowRow]
      /\ payout \in [Tasks -> PayoutStatus]
  BY DEF TypeOK, RowsOK
<1>2. UNCHANGED <<proc, jobs>>
  BY DEF Environment, PosterPays, CompletionAges, AdminWrite, MarkPaid, ResolveDispute
<1>3. ASSUME NEW t \in Tasks
      PROVE  /\ task'[t].doer = task[t].doer
             /\ \/ escrow'[t] = escrow[t]
                \/ /\ escrow'[t].status \in {"REFUNDED", "RELEASED"}
                   /\ escrow'[t].doer = escrow[t].doer
             /\ payout'[t] # "NONE" => payout[t] # "NONE"
  BY <1>1 DEF Environment, PosterPays, CompletionAges, AdminWrite, MarkPaid, ResolveDispute,
              TaskRow, EscrowRow
<1>4. \A t \in Tasks : CreditSound(t)'
  BY <1>3 DEF ReleaseInv, CreditSound
<1>5. ASSUME NEW q \in Procs PROVE ActsForDoer(q)'
  <2>1. CASE proc[q].pc \in Interested
    <3>1. proc[q].t \in Tasks
      BY <2>1, InterestedPc DEF TypeOK, ProcsOK
    <3> QED BY <1>2, <1>3, <3>1 DEF ReleaseInv, ActsForDoer
  <2>2. CASE proc[q].pc \notin Interested
    BY <1>2, <2>2, Uninterested
  <2> QED BY <2>1, <2>2
<1>6. \A v \in Users : {t \in Tasks : escrow'[t].doer = v} = {t \in Tasks : escrow[t].doer = v}
  BY <1>3
<1>7. JobsCountReleases'
  BY <1>2, <1>6 DEF ReleaseInv, JobsCountReleases
<1> QED
  BY <1>4, <1>5, <1>7 DEF ReleaseInv

-----------------------------------------------------------------------------
LEMMA ReleaseInvInit == Init => ReleaseInv
<1> SUFFICES ASSUME Init PROVE ReleaseInv
  OBVIOUS
<1>1. \A t \in Tasks : CreditSound(t) /\ escrow[t].doer = NoUser
  BY DEF Init, LedgerInit, CreditSound
<1>2. \A p \in Procs : ActsForDoer(p)
  BY IdleType, InterestedPc DEF Init, LedgerInit, ActsForDoer, Interested
<1>3. ASSUME NEW v \in Users PROVE jobs[v] = Cardinality({t \in Tasks : escrow[t].doer = v})
  <2>1. {t \in Tasks : escrow[t].doer = v} = {}
    BY <1>1, LedgerAssumption DEF LedgerAssumption
  <2> QED BY <2>1, FS_EmptySet DEF Init, LedgerInit
<1> QED
  BY <1>1, <1>2, <1>3 DEF ReleaseInv, JobsCountReleases

LEMMA ReleaseInvStep == TypeOK /\ FundInv /\ ReleaseInv /\ [Next]_vars => ReleaseInv'
<1> SUFFICES ASSUME TypeOK, FundInv, ReleaseInv, [Next]_vars PROVE ReleaseInv'
  OBVIOUS
<1>1. ASSUME NEW p \in Reqs, NEW t \in Tasks, Request(p, t) PROVE ReleaseInv'
  BY <1>1, RequestActs
<1>2. ASSUME NEW p \in Crons, CronStarts(p) PROVE ReleaseInv'
  BY <1>2, CronReleases DEF Procs
<1>3. ASSUME NEW p \in Procs, Step(p) \/ Fail(p) PROVE ReleaseInv'
  BY <1>3, TaskStepReleases, PaymentStepReleases, RefundStepReleases, PayoutStepReleases,
     CronReleases, FailReleases DEF Step
<1>4. ASSUME NEW t \in Tasks, Environment(t) PROVE ReleaseInv'
  BY <1>4, EnvironmentReleases
<1>5. CASE UNCHANGED vars
  BY <1>5 DEF vars, ReleaseInv, CreditSound, ActsForDoer, JobsCountReleases
<1> QED
  BY <1>1, <1>2, <1>3, <1>4, <1>5 DEF Next

LEMMA ReleaseInvAlways == Spec => []ReleaseInv
<1>1. Spec => [](TypeOK /\ FundInv)
  BY TypeCorrect, FundInvAlways, PTL
<1> QED
  BY <1>1, ReleaseInvInit, ReleaseInvStep, PTL DEF Spec

\* Money that goes out goes to the doer of the task, and only after a release
\* took place: the payout is created outside the release's transaction, for a
\* doer read before it (releaseEscrow, createForEscrowRelease).
THEOREM PayoutsFollow == Spec => []PayoutFollowsRelease
<1>1. ReleaseInv => PayoutFollowsRelease
  BY DEF ReleaseInv, CreditSound, PayoutFollowsRelease
<1> QED
  BY <1>1, ReleaseInvAlways, PTL

\* Concurrent confirms and auto-releases of any number of tasks count each
\* release once: totalJobsCompleted neither drifts nor skips (releaseEscrow).
THEOREM JobsAreExact == Spec => []JobsCountReleases
<1>1. ReleaseInv => JobsCountReleases
  BY DEF ReleaseInv
<1> QED
  BY <1>1, ReleaseInvAlways, PTL
=============================================================================
