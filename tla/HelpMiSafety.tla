---------------------------- MODULE HelpMiSafety ----------------------------
(***************************************************************************)
(* Types, held money and refunds of the money core, for any number of      *)
(* tasks, users, cron jobs and interleaved requests.                       *)
(***************************************************************************)
EXTENDS HelpMi, TLAPS

(***************************************************************************)
(* Type correctness of the core for any number of tasks, users, requests   *)
(* and cron jobs, and what the three ways to move a request along do.      *)
(***************************************************************************)
\* Idle is a request record.
LEMMA IdleType == Idle \in Proc /\ Idle.pc = "idle" /\ Idle.todo = {}
BY LedgerAssumption DEF LedgerAssumption, Idle, Proc, TaskPc, SweepPc, UserOrNull, Payments

\* A request that begins holds what it was given, and no other one changes.
LEMMA BeginEffect ==
    ASSUME ProcsOK, NEW p, NEW l \in TaskPc, NEW t \in Tasks,
           NEW who \in UserOrNull, NEW pay \in Payments, Begin(p, l, t, who, pay)
    PROVE  /\ p \in Procs /\ ProcsOK'
           /\ \A q \in Procs \ {p} : proc'[q] = proc[q]
           /\ proc[p].pc = "idle"
           /\ proc'[p].pc = l /\ proc'[p].t = t
           /\ proc'[p].who = who /\ proc'[p].pay = pay
<1> DEFINE r == [Idle EXCEPT !.pc = l, !.t = t, !.who = who, !.pay = pay]
<1>1. proc' = [proc EXCEPT ![p] = r] /\ p \in Procs /\ proc[p].pc = "idle"
  BY DEF Begin, At, Procs
<1>2. /\ r \in Proc
      /\ r.pc = l /\ r.t = t /\ r.who = who /\ r.pay = pay
  BY IdleType DEF Idle, Proc
<1> HIDE DEF r
<1> QED
  BY <1>1, <1>2 DEF ProcsOK

\* Goto moves one request and keeps all it holds.
LEMMA GotoEffect ==
    ASSUME ProcsOK, NEW p \in Procs, NEW l \in TaskPc, proc[p].pc \in TaskPc,
           Goto(p, l)
    PROVE  /\ ProcsOK'
           /\ \A q \in Procs \ {p} : proc'[q] = proc[q]
           /\ proc'[p].pc = l /\ proc'[p].t = proc[p].t
           /\ proc'[p].who = proc[p].who /\ proc'[p].pay = proc[p].pay
           /\ proc'[p].refundable = proc[p].refundable
<1> DEFINE r == [proc[p] EXCEPT !.pc = l]
<1>1. proc' = [proc EXCEPT ![p] = r]
  BY DEF Goto
<1>2. proc[p] \in Proc /\ proc[p].t \in Tasks
  BY DEF ProcsOK
<1>3. /\ r \in Proc
      /\ r.pc = l /\ r.t = proc[p].t /\ r.who = proc[p].who /\ r.pay = proc[p].pay
      /\ r.refundable = proc[p].refundable
  BY <1>2 DEF Proc
<1> HIDE DEF r
<1> QED
  BY <1>1, <1>2, <1>3 DEF ProcsOK

\* A request that works on a task is not idle and not a cron loop.
LEMMA PcDisjoint == \A l \in SweepPc \cup {"idle"} : l \notin TaskPc
BY DEF SweepPc, TaskPc

\* Return leaves a request idle or at the head of its cron loop.
LEMMA ReturnEffect ==
    ASSUME ProcsOK, NEW p \in Procs, Return(p)
    PROVE  /\ ProcsOK'
           /\ \A q \in Procs \ {p} : proc'[q] = proc[q]
           /\ proc'[p].pc \in SweepPc \cup {"idle"}
<1> DEFINE c == [Idle EXCEPT !.pc = proc[p].caller, !.todo = proc[p].todo]
<1>1. /\ proc[p].caller \in SweepPc \cup {"idle"}
      /\ proc[p].todo \in SUBSET Tasks
  BY DEF ProcsOK, Proc
<1>2. c \in Proc /\ c.pc = proc[p].caller
  BY <1>1, IdleType DEF Idle, Proc
<1>3. proc' = [proc EXCEPT ![p] = c]
  BY DEF Return
<1> HIDE DEF c
<1>4. proc' \in [Procs -> Proc] /\ proc'[p] = c
  BY <1>2, <1>3 DEF ProcsOK
<1>5. \A q \in Procs \ {p} : proc'[q] = proc[q]
  BY <1>3 DEF ProcsOK
<1>6. c.pc \notin TaskPc
  BY <1>1, <1>2, PcDisjoint
<1> QED
  BY <1>1, <1>2, <1>4, <1>5, <1>6 DEF ProcsOK

-----------------------------------------------------------------------------
(* One lemma per component: its requests and steps keep TypeOK.            *)

LEMMA TaskRequestType ==
    ASSUME TypeOK, NEW p, NEW t \in Tasks, TaskRequest(p, t)
    PROVE  TypeOK'
<1> USE DEF TypeOK
<1>0. ASSUME NEW l \in TaskPc, NEW who \in UserOrNull, Begin(p, l, t, who, 0)
      PROVE  ProcsOK'
  <2>1. 0 \in Payments
    BY LedgerAssumption DEF LedgerAssumption, Payments
  <2> QED BY <1>0, <2>1, BeginEffect
<1>1. ASSUME NEW l \in TaskPc, NEW who \in UserOrNull,
             Begin(p, l, t, who, 0), UNCHANGED rows
      PROVE  TypeOK'
  BY <1>0, <1>1 DEF RowsOK, rows
<1>2. NoUser \in UserOrNull /\ task[t].doer \in UserOrNull /\ Users \subseteq UserOrNull
  BY DEF RowsOK, TaskRow, UserOrNull
<1>3. CASE CreateTask(p, t)
  <2>1. Begin(p, "createMoney", t, NoUser, 0) /\ "createMoney" \in TaskPc
    BY <1>3 DEF CreateTask, TaskPc
  <2>2. ProcsOK'
    BY <1>0, <1>2, <2>1
  <2>3. task' \in [Tasks -> TaskRow]
    BY <1>3 DEF CreateTask, RowsOK, TaskRow, TaskStatus
  <2> QED BY <1>3, <2>2, <2>3 DEF CreateTask, RowsOK
<1>4. CASE MarkStarted(p, t)
  BY <1>1, <1>2, <1>4 DEF MarkStarted, TaskPc
<1>5. CASE MarkComplete(p, t)
  BY <1>1, <1>2, <1>5 DEF MarkComplete, TaskPc
<1>6. CASE Confirm(p, t)
  BY <1>1, <1>2, <1>6 DEF Confirm, TaskPc
<1>7. CASE ForceCancel(p, t)
  BY <1>1, <1>2, <1>7 DEF ForceCancel, TaskPc
<1>8. ASSUME NEW u \in Users, Accept(p, t, u) PROVE TypeOK'
  BY <1>1, <1>2, <1>8 DEF Accept, TaskPc
<1>9. ASSUME NEW u \in Users, Cancel(p, t, u) PROVE TypeOK'
  BY <1>1, <1>2, <1>9 DEF Cancel, TaskPc
<1>10. ASSUME NEW u \in Users, RaiseDispute(p, t, u) PROVE TypeOK'
  BY <1>1, <1>2, <1>10 DEF RaiseDispute, TaskPc
<1> QED
  BY <1>3, <1>4, <1>5, <1>6, <1>7, <1>8, <1>9, <1>10 DEF TaskRequest

LEMMA TaskStepType ==
    ASSUME TypeOK, NEW p \in Procs, TaskStep(p)
    PROVE  TypeOK'
<1> USE DEF TypeOK
<1> DEFINE t == proc[p].t
<1>1. ASSUME NEW l \in TaskPc, At(p, l) PROVE t \in Tasks /\ proc[p].pc \in TaskPc
  BY <1>1 DEF At, ProcsOK
<1>a. task \in [Tasks -> TaskRow] /\ escrow \in [Tasks -> EscrowRow]
  BY DEF RowsOK
<1>2. CASE CreateMoney(p)
  <2>1. t \in Tasks
    BY <1>1, <1>2 DEF CreateMoney, TaskPc
  <2>2. ProcsOK'
    BY <1>2, ReturnEffect DEF CreateMoney
  <2>3. /\ escrow' \in {escrow, [escrow EXCEPT ![t].status = "PENDING"]}
        /\ fee' \in {fee, [fee EXCEPT ![t].status = "PENDING"]}
    BY <1>2 DEF CreateMoney
  <2>4. escrow' \in [Tasks -> EscrowRow]
    BY SMTT(30), <2>1, <2>3 DEF RowsOK, EscrowRow, EscrowStatus
  <2>5. fee' \in [Tasks -> FeeRow]
    BY <2>1, <2>3 DEF RowsOK, FeeRow, FeeStatus
  <2> QED BY <1>2, <2>2, <2>4, <2>5 DEF CreateMoney, RowsOK
<1>3. CASE AcceptEscrow(p)
  BY <1>1, <1>3, ReturnEffect, GotoEffect DEF AcceptEscrow, TaskPc, RowsOK, rows
<1>4. CASE AcceptWrite(p)
  <2>1. t \in Tasks /\ proc[p].who \in UserOrNull
    BY <1>1, <1>4 DEF AcceptWrite, TaskPc, ProcsOK, Proc
  <2>2. ProcsOK'
    BY <1>4, ReturnEffect DEF AcceptWrite
  <2> DEFINE r == [task[t] EXCEPT !.status = "ASSIGNED", !.doer = proc[p].who]
  <2>3. r \in TaskRow
    BY <1>a, <2>1 DEF TaskRow, TaskStatus
  <2>4. task' \in {task, [task EXCEPT ![t] = r]}
    BY <1>4 DEF AcceptWrite
  <2> HIDE DEF r
  <2>5. task' \in [Tasks -> TaskRow]
    BY <2>1, <2>3, <2>4 DEF RowsOK
  <2> QED BY <1>4, <2>2, <2>5 DEF AcceptWrite, RowsOK
<1>5. CASE StartWrite(p)
  <2>1. t \in Tasks
    BY <1>1, <1>5 DEF StartWrite, TaskPc
  <2>2. ProcsOK'
    BY <1>5, ReturnEffect DEF StartWrite
  <2>3. task' \in [Tasks -> TaskRow]
    BY ZenonT(40), <1>5, <2>1 DEF StartWrite, RowsOK, TaskRow, TaskStatus
  <2> QED BY <1>5, <2>2, <2>3 DEF StartWrite, RowsOK
<1>6. CASE CompleteWrite(p)
  <2>1. t \in Tasks
    BY <1>1, <1>6 DEF CompleteWrite, TaskPc
  <2>2. ProcsOK'
    BY <1>6, ReturnEffect DEF CompleteWrite
  <2>3. task' \in [Tasks -> TaskRow]
    BY ZenonT(40), <1>6, <2>1 DEF CompleteWrite, RowsOK, TaskRow, TaskStatus
  <2> QED BY <1>6, <2>2, <2>3 DEF CompleteWrite, RowsOK
<1>7. CASE ConfirmEscrow(p)
  BY <1>1, <1>7, ReturnEffect, GotoEffect DEF ConfirmEscrow, TaskPc, RowsOK, rows
<1>8. CASE ConfirmCash(p)
  <2>1. t \in Tasks
    BY <1>1, <1>8 DEF ConfirmCash, TaskPc
  <2>2. ProcsOK'
    BY <1>8, ReturnEffect DEF ConfirmCash
  <2>3. task' \in [Tasks -> TaskRow]
    BY <1>8, <2>1 DEF ConfirmCash, RowsOK, TaskRow
  <2> QED BY <1>8, <2>2, <2>3 DEF ConfirmCash, RowsOK
<1>9. CASE ReleaseEscrow(p)
  <2>1. t \in Tasks /\ proc[p].pc \in TaskPc /\ proc[p].who \in UserOrNull
    BY <1>1, <1>9 DEF ReleaseEscrow, TaskPc, ProcsOK, Proc
  <2>2. ProcsOK'
    BY <1>9, <2>1, ReturnEffect, GotoEffect DEF ReleaseEscrow, TaskPc
  <2>3. task' \in [Tasks -> TaskRow]
    BY ZenonT(40), <1>9, <2>1 DEF ReleaseEscrow, RowsOK, TaskRow
  <2> DEFINE d == IF proc[p].who = NoUser THEN escrow[t].doer ELSE proc[p].who
             r == [escrow[t] EXCEPT !.status = "RELEASED", !.doer = d]
  <2>a. r \in EscrowRow
    BY <2>1 DEF RowsOK, EscrowRow, EscrowStatus
  <2>b. escrow' \in {escrow, [escrow EXCEPT ![t] = r]}
    BY <1>9 DEF ReleaseEscrow
  <2>4. escrow' \in [Tasks -> EscrowRow]
    BY <2>1, <2>a, <2>b DEF RowsOK
  <2>5. jobs' \in [Users -> Nat]
    BY <1>9, <2>1 DEF ReleaseEscrow, RowsOK, UserOrNull
  <2> QED BY <1>9, <2>2, <2>3, <2>4, <2>5 DEF ReleaseEscrow, RowsOK
<1>10. CASE CancelTx(p)
  <2>1. t \in Tasks /\ proc[p].pc \in TaskPc
    BY <1>1, <1>10 DEF CancelTx, TaskPc
  <2>2. ProcsOK'
    BY <1>10, <2>1, ReturnEffect, GotoEffect DEF CancelTx, TaskPc
  <2>a. /\ task' \in {task, [task EXCEPT ![t].status = "CANCELLED"]}
        /\ escrow' \in {escrow, [escrow EXCEPT ![t].status = "REFUND_PENDING"]}
    BY <1>10 DEF CancelTx
  <2>3. task' \in [Tasks -> TaskRow]
    BY SMTT(30), <2>1, <2>a DEF RowsOK, TaskRow, TaskStatus
  <2>4. escrow' \in [Tasks -> EscrowRow]
    BY <1>a, <2>1, <2>a DEF EscrowRow, EscrowStatus
  <2> QED BY <1>10, <2>2, <2>3, <2>4 DEF CancelTx, RowsOK
<1>11. CASE CancelEscrow(p)
  BY <1>1, <1>11, ReturnEffect, GotoEffect DEF CancelEscrow, TaskPc, RowsOK, rows
<1>12. CASE DisputeTx(p)
  <2>1. t \in Tasks
    BY <1>1, <1>12 DEF DisputeTx, TaskPc
  <2>2. ProcsOK'
    BY <1>12, ReturnEffect DEF DisputeTx
  <2>3. task' \in [Tasks -> TaskRow]
    BY SMTT(90), <1>12, <2>1 DEF DisputeTx, RowsOK, TaskRow, TaskStatus
  <2>a. escrow' \in {escrow, [escrow EXCEPT ![t].status = "DISPUTED"]}
    BY <1>12 DEF DisputeTx
  <2>4. escrow' \in [Tasks -> EscrowRow]
    BY <1>a, <2>1, <2>a DEF EscrowRow, EscrowStatus
  <2>5. dispute' \in [Tasks -> DisputeStatus]
    BY <1>12, <2>1 DEF DisputeTx, RowsOK, DisputeStatus
  <2> QED BY <1>12, <2>2, <2>3, <2>4, <2>5 DEF DisputeTx, RowsOK
<1> QED
  BY <1>2, <1>3, <1>4, <1>5, <1>6, <1>7, <1>8, <1>9, <1>10, <1>11, <1>12
     DEF TaskStep

LEMMA RefundStepType ==
    ASSUME TypeOK, NEW p \in Procs, RefundStep(p)
    PROVE  TypeOK'
<1> USE DEF TypeOK
<1> DEFINE t == proc[p].t
<1>1. ASSUME NEW l \in TaskPc, At(p, l) PROVE t \in Tasks /\ proc[p].pc \in TaskPc
  BY <1>1 DEF At, ProcsOK
<1>a. /\ escrow \in [Tasks -> EscrowRow]
      /\ refund \in [Tasks -> RefundStatus]
      /\ gateway \in [Tasks -> GatewayOrder]
      /\ proc \in [Procs -> Proc]
  BY DEF RowsOK, ProcsOK
<1>2. CASE RefundReadEscrow(p)
  <2>1. proc[p].pc \in TaskPc
    BY <1>1, <1>2 DEF RefundReadEscrow, TaskPc
  <2> DEFINE ok == /\ escrow[t].status \in REFUNDABLE_ESCROW_STATES
                   /\ escrow[t].pay # 0
             r == [proc[p] EXCEPT !.pc = "refundExisting", !.refundable = ok]
  <2>2. proc' = [proc EXCEPT ![p] = r]
    BY <1>2 DEF RefundReadEscrow
  <2>3. proc[p] \in Proc /\ ok \in BOOLEAN
    BY <1>a
  <2> HIDE DEF ok
  <2>4. r \in Proc /\ r.t = t
    BY <2>3 DEF Proc, TaskPc
  <2> HIDE DEF r
  <2>5. ProcsOK'
    BY <2>1, <2>2, <2>4, <1>a DEF ProcsOK
  <2> QED BY <1>2, <2>5 DEF RefundReadEscrow, RowsOK, rows
<1>3. CASE RefundReadExisting(p)
  <2>1. /\ proc[p].pc \in TaskPc
        /\ Return(p) \/ Goto(p, "execute") \/ Goto(p, "refundClaim")
    BY <1>1, <1>3 DEF RefundReadExisting, TaskPc
  <2>2. ProcsOK'
    BY <2>1, ReturnEffect, GotoEffect DEF TaskPc
  <2> QED BY <1>3, <2>2 DEF RefundReadExisting, RowsOK, rows
<1>4. CASE RefundClaim(p)
  <2>1. t \in Tasks /\ proc[p].pc \in TaskPc
    BY <1>1, <1>4 DEF RefundClaim, TaskPc
  <2>2. ProcsOK'
    BY <1>4, <2>1, GotoEffect DEF RefundClaim, TaskPc
  <2>3. escrow' \in {escrow, [escrow EXCEPT ![t].status = "REFUND_PENDING"]}
    BY <1>4 DEF RefundClaim
  <2>4. escrow' \in [Tasks -> EscrowRow]
    BY <1>a, <2>1, <2>3 DEF EscrowRow, EscrowStatus
  <2> QED BY <1>4, <2>2, <2>4 DEF RefundClaim, RowsOK
<1>5. CASE RefundCreate(p)
  <2>1. t \in Tasks /\ proc[p].pc \in TaskPc
    BY <1>1, <1>5 DEF RefundCreate, TaskPc
  <2>2. ProcsOK'
    BY <1>5, <2>1, GotoEffect DEF RefundCreate, TaskPc
  <2>3. refund' \in [Tasks -> RefundStatus]
    BY <1>a, <1>5, <2>1 DEF RefundCreate, RefundStatus
  <2> QED BY <1>5, <2>2, <2>3 DEF RefundCreate, RowsOK
<1>6. CASE Execute(p)
  <2>1. t \in Tasks /\ proc[p].pc \in TaskPc
    BY <1>1, <1>6 DEF Execute, TaskPc
  <2>2. ProcsOK'
    BY <1>6, <2>1, GotoEffect, ReturnEffect DEF Execute, TaskPc
  <2>3. refund' \in [Tasks -> RefundStatus]
    BY <1>a, <1>6, <2>1 DEF Execute, RefundStatus
  <2> QED BY <1>6, <2>2, <2>3 DEF Execute, RowsOK
<1>7. CASE ProviderConfirms(p) \/ ProviderAnswerLost(p)
  <2>1. t \in Tasks /\ proc[p].pc \in TaskPc
    BY <1>1, <1>7 DEF ProviderConfirms, ProviderAnswerLost, TaskPc
  <2>2. ProcsOK'
    BY <1>7, <2>1, GotoEffect DEF ProviderConfirms, ProviderAnswerLost, TaskPc
  <2>3. gateway' = [gateway EXCEPT ![t].refunded = TRUE]
    BY <1>7 DEF ProviderConfirms, ProviderAnswerLost
  <2>4. gateway' \in [Tasks -> GatewayOrder]
    BY <1>a, <2>1, <2>3 DEF GatewayOrder
  <2> QED BY <1>7, <2>2, <2>4 DEF ProviderConfirms, ProviderAnswerLost, RowsOK
<1>8. CASE ProviderRefuses(p)
  <2>1. t \in Tasks /\ proc[p].pc \in TaskPc
    BY <1>1, <1>8 DEF ProviderRefuses, TaskPc
  <2>2. ProcsOK'
    BY <1>8, <2>1, GotoEffect DEF ProviderRefuses, TaskPc
  <2> QED BY <1>8, <2>2 DEF ProviderRefuses, RowsOK, rows
<1>9. CASE RefundComplete(p)
  <2>1. t \in Tasks
    BY <1>1, <1>9 DEF RefundComplete, TaskPc
  <2>2. ProcsOK'
    BY <1>9, ReturnEffect DEF RefundComplete
  <2>3. refund' \in [Tasks -> RefundStatus]
    BY <1>a, <1>9, <2>1 DEF RefundComplete, RefundStatus
  <2>4. escrow' \in [Tasks -> EscrowRow]
    BY <1>a, <1>9, <2>1 DEF RefundComplete, EscrowRow, EscrowStatus
  <2> QED BY <1>9, <2>2, <2>3, <2>4 DEF RefundComplete, RowsOK
<1>10. CASE RefundFailed(p)
  <2>1. t \in Tasks
    BY <1>1, <1>10 DEF RefundFailed, TaskPc
  <2>2. ProcsOK'
    BY <1>10, ReturnEffect DEF RefundFailed
  <2>3. refund' \in [Tasks -> RefundStatus]
    BY <1>a, <1>10, <2>1 DEF RefundFailed, RefundStatus
  <2> QED BY <1>10, <2>2, <2>3 DEF RefundFailed, RowsOK
<1> QED
  BY <1>2, <1>3, <1>4, <1>5, <1>6, <1>7, <1>8, <1>9, <1>10 DEF RefundStep

LEMMA PayoutStepType ==
    ASSUME TypeOK, NEW p \in Procs, PayoutStep(p)
    PROVE  TypeOK'
<1> USE DEF TypeOK
<1>1. proc[p].pc \in TaskPc /\ proc[p].t \in Tasks
  BY DEF PayoutStep, PayoutFind, PayoutCreate, PayoutUpdate, At, TaskPc, ProcsOK
<1>2. ProcsOK'
  <2>1. Return(p) \/ \E l \in TaskPc : Goto(p, l)
    BY DEF PayoutStep, PayoutFind, PayoutCreate, PayoutUpdate, TaskPc
  <2> QED BY <1>1, <2>1, ReturnEffect, GotoEffect
<1>3. payout' \in {payout, [payout EXCEPT ![proc[p].t] = "PENDING"]}
  BY DEF PayoutStep, PayoutFind, PayoutCreate, PayoutUpdate, rows
<1>4. payout' \in [Tasks -> PayoutStatus]
  BY <1>1, <1>3 DEF RowsOK, PayoutStatus
<1> QED
  BY <1>2, <1>4 DEF PayoutStep, PayoutFind, PayoutCreate, PayoutUpdate, RowsOK, rows

LEMMA PaymentStepType ==
    ASSUME TypeOK, NEW p \in Procs, PaymentStep(p)
    PROVE  TypeOK'
<1> USE DEF TypeOK
<1> DEFINE t == proc[p].t
<1>1. t \in Tasks /\ proc[p].pc \in TaskPc /\ proc[p].pay \in Payments
  BY DEF PaymentStep, OrderWrite, EscrowPaymentTx, FeePaymentTx, Announce, At,
         TaskPc, ProcsOK, Proc
<1>2. ProcsOK'
  <2>1. Return(p) \/ \E l \in TaskPc : Goto(p, l)
    BY DEF PaymentStep, OrderWrite, EscrowPaymentTx, FeePaymentTx, Announce, TaskPc
  <2> QED BY <1>1, <2>1, ReturnEffect, GotoEffect
<1>3. task \in [Tasks -> TaskRow] /\ escrow \in [Tasks -> EscrowRow] /\ fee \in [Tasks -> FeeRow]
  BY DEF RowsOK
<1>4. task' \in {task, [task EXCEPT ![t].status = "OPEN"]} => task' \in [Tasks -> TaskRow]
  BY <1>1, <1>3 DEF TaskRow, TaskStatus
<1>5. CASE OrderWrite(p)
  <2>1. gateway' \in [Tasks -> GatewayOrder]
    BY <1>1, <1>5 DEF OrderWrite, RowsOK, GatewayOrder
  <2> QED BY <1>2, <1>5, <2>1 DEF OrderWrite, RowsOK
<1>6. CASE EscrowPaymentTx(p)
  <2> DEFINE s == IF task[t].status = "CANCELLED" THEN "REFUND_PENDING" ELSE "HELD"
             r == [escrow[t] EXCEPT !.pay = proc[p].pay, !.status = s]
  <2>1. r \in EscrowRow
    BY <1>1, <1>3 DEF EscrowRow, EscrowStatus
  <2>2. /\ escrow' \in {escrow, [escrow EXCEPT ![t] = r]}
        /\ task' \in {task, [task EXCEPT ![t].status = "OPEN"]}
    BY <1>6 DEF EscrowPaymentTx
  <2> HIDE DEF r
  <2>3. escrow' \in [Tasks -> EscrowRow]
    BY <1>1, <1>3, <2>1, <2>2
  <2> QED BY <1>2, <1>4, <1>6, <2>2, <2>3 DEF EscrowPaymentTx, RowsOK
<1>7. CASE FeePaymentTx(p)
  <2> DEFINE s == IF task[t].status = "CANCELLED" THEN "REFUNDED" ELSE "PAID"
             r == [fee[t] EXCEPT !.pay = proc[p].pay, !.status = s]
  <2>1. r \in FeeRow
    BY <1>1, <1>3 DEF FeeRow, FeeStatus
  <2>2. /\ fee' \in {fee, [fee EXCEPT ![t] = r]}
        /\ task' \in {task, [task EXCEPT ![t].status = "OPEN"]}
    BY <1>7 DEF FeePaymentTx
  <2> HIDE DEF r
  <2>3. fee' \in [Tasks -> FeeRow]
    BY <1>1, <1>3, <2>1, <2>2
  <2> QED BY <1>2, <1>4, <1>7, <2>2, <2>3 DEF FeePaymentTx, RowsOK
<1>8. CASE Announce(p)
  <2>1. announced' \in [Tasks -> Nat]
    BY <1>1, <1>8 DEF Announce, RowsOK
  <2> QED BY <1>2, <1>8, <2>1 DEF Announce, RowsOK
<1> QED
  BY <1>5, <1>6, <1>7, <1>8 DEF PaymentStep

\* What the webhook and the admin begin leaves every row as it is.
LEMMA OtherRequestType ==
    ASSUME TypeOK, NEW p, NEW t \in Tasks, PaymentRequest(p, t) \/ AdminRequest(p, t)
    PROVE  TypeOK'
<1> USE DEF TypeOK
<1>1. NoUser \in UserOrNull /\ 0 \in Payments
  BY LedgerAssumption DEF LedgerAssumption, UserOrNull, Payments
<1>2. /\ UNCHANGED rows
      /\ \E l \in TaskPc, pay \in Payments : Begin(p, l, t, NoUser, pay)
  BY <1>1 DEF PaymentRequest, InitiatePayment, Webhook, AdminRequest,
              InitiateEscrowRefund, RetryRefund, TaskPc
<1>3. ProcsOK'
  BY <1>1, <1>2, BeginEffect
<1> QED
  BY <1>2, <1>3 DEF RowsOK, rows

\* What a cron job reads and remembers leaves every row as it is.
LEMMA CronType ==
    ASSUME TypeOK, NEW p \in Procs, CronStarts(p) \/ CronStep(p)
    PROVE  TypeOK'
<1> USE DEF TypeOK
<1>1. ASSUME NEW l \in SweepPc, NEW batch, batch \in SUBSET Tasks, StartSweep(p, l, batch)
      PROVE  ProcsOK'
  <2> DEFINE r == [Idle EXCEPT !.pc = l, !.todo = batch]
  <2>1. proc' = [proc EXCEPT ![p] = r]
    BY <1>1 DEF StartSweep
  <2>2. r \in Proc /\ r.pc = l
    BY <1>1, IdleType DEF Proc, Idle
  <2> HIDE DEF r
  <2>3. r.pc \notin TaskPc
    BY <2>2, PcDisjoint
  <2> QED BY <2>1, <2>2, <2>3 DEF ProcsOK
<1>2. ASSUME NEW S \in SUBSET Tasks, NEW B \in Batches(S) PROVE B \in SUBSET Tasks
  BY <1>2 DEF Batches
<1>3. proc[p] \in Proc
  BY DEF ProcsOK
<1>4. UNCHANGED rows
  BY DEF CronStarts, CronStep, ReconcileScan, AutoReleaseScan, AnomalyScan,
         ReconcileNext, AutoReleaseNext, SweepDone
<1>5. ProcsOK'
  <2>1. CASE ReconcileScan(p)
    BY <1>1, <1>2, <2>1 DEF ReconcileScan, SweepPc
  <2>2. CASE AnomalyScan(p)
    BY <1>1, <1>2, <2>2 DEF AnomalyScan, SweepPc
  <2>3. CASE AutoReleaseScan(p)
    BY <1>1, <2>3 DEF AutoReleaseScan, SweepPc
  <2>4. CASE ReconcileNext(p)
    <3>1. PICK t \in proc[p].todo :
            proc' = [proc EXCEPT ![p].pc = "refundFind", ![p].t = t,
                                 ![p].caller = proc[p].pc, ![p].todo = @ \ {t}]
      BY <2>4 DEF ReconcileNext
    <3> DEFINE r == [proc[p] EXCEPT !.pc = "refundFind", !.t = t,
                                    !.caller = proc[p].pc, !.todo = @ \ {t}]
    <3>2. proc' = [proc EXCEPT ![p] = r]
      BY <3>1
    <3>3. proc[p].pc \in SweepPc /\ t \in Tasks
      BY <1>3, <2>4 DEF ReconcileNext, SweepPc, Proc
    <3>4. r \in Proc /\ r.t = t
      BY <1>3, <3>3 DEF Proc, TaskPc
    <3> HIDE DEF r
    <3> QED BY <3>2, <3>3, <3>4 DEF ProcsOK
  <2>5. CASE AutoReleaseNext(p)
    <3>1. PICK t \in proc[p].todo :
            proc' = [proc EXCEPT ![p].pc = "release", ![p].t = t,
                                 ![p].who = task[t].doer,
                                 ![p].caller = "autoRelease", ![p].todo = @ \ {t}]
      BY <2>5 DEF AutoReleaseNext
    <3> DEFINE r == [proc[p] EXCEPT !.pc = "release", !.t = t,
                                    !.who = task[t].doer,
                                    !.caller = "autoRelease", !.todo = @ \ {t}]
    <3>2. proc' = [proc EXCEPT ![p] = r]
      BY <3>1
    <3>3. t \in Tasks /\ task[t].doer \in UserOrNull
      BY <1>3, <3>1 DEF Proc, RowsOK, TaskRow
    <3>4. r \in Proc /\ r.t = t
      BY <1>3, <3>3 DEF Proc, TaskPc, SweepPc
    <3> HIDE DEF r
    <3> QED BY <3>2, <3>3, <3>4 DEF ProcsOK
  <2>6. CASE SweepDone(p)
    BY <2>6, IdleType, PcDisjoint DEF SweepDone, ProcsOK
  <2> QED
    BY <2>1, <2>2, <2>3, <2>4, <2>5, <2>6 DEF CronStarts, CronStep
<1> QED
  BY <1>4, <1>5 DEF RowsOK, rows

LEMMA FailType ==
    ASSUME TypeOK, NEW p \in Procs, Fail(p)
    PROVE  TypeOK'
<1> USE DEF TypeOK
<1>1. ProcsOK'
  <2>1. CASE Return(p)
    BY <2>1, ReturnEffect
  <2>2. CASE proc' = [proc EXCEPT ![p] = Idle]
    BY <2>2, IdleType, PcDisjoint DEF ProcsOK
  <2> QED BY <2>1, <2>2 DEF Fail
<1> QED
  BY <1>1 DEF Fail, RowsOK, rows

LEMMA EnvironmentType ==
    ASSUME TypeOK, NEW t \in Tasks, Environment(t)
    PROVE  TypeOK'
<1> USE DEF TypeOK
<1>1. ProcsOK'
  BY DEF Environment, PosterPays, CompletionAges, AdminWrite, MarkPaid,
         ResolveDispute, ProcsOK
<1>2. /\ task \in [Tasks -> TaskRow]
      /\ escrow \in [Tasks -> EscrowRow]
      /\ gateway \in [Tasks -> GatewayOrder]
  BY DEF RowsOK
<1>3. CASE PosterPays(t)
  <2>1. gateway[t].charges + 1 \in Payments
    BY <1>2, <1>3, LedgerAssumption
       DEF PosterPays, GatewayOrder, Payments, LedgerAssumption
  <2>2. gateway' = [gateway EXCEPT ![t].charges = gateway[t].charges + 1]
    BY <1>3 DEF PosterPays
  <2>3. gateway' \in [Tasks -> GatewayOrder]
    BY <1>2, <2>1, <2>2 DEF GatewayOrder
  <2> QED BY <1>1, <1>3, <2>3 DEF PosterPays, RowsOK
<1>4. CASE CompletionAges(t)
  <2>1. task' \in [Tasks -> TaskRow]
    BY <1>2, <1>4 DEF CompletionAges, TaskRow
  <2> QED BY <1>1, <1>4, <2>1 DEF CompletionAges, RowsOK
<1>5. CASE MarkPaid(t)
  <2>1. payout' \in [Tasks -> PayoutStatus]
    BY <1>5 DEF MarkPaid, RowsOK, PayoutStatus
  <2> QED BY <1>1, <1>5, <2>1 DEF MarkPaid, RowsOK
<1>6. ASSUME NEW b \in BOOLEAN, ResolveDispute(t, b) PROVE TypeOK'
  <2>1. dispute' \in [Tasks -> DisputeStatus]
    BY <1>6 DEF ResolveDispute, RowsOK, DisputeStatus
  <2>2. task' \in [Tasks -> TaskRow]
    BY <1>2, <1>6 DEF ResolveDispute, TaskRow, TaskStatus
  <2>3. escrow' \in {escrow, [escrow EXCEPT ![t].status = "REFUNDED"],
                     [escrow EXCEPT ![t].status = "RELEASED"]}
    BY <1>6 DEF ResolveDispute
  <2>4. escrow' \in [Tasks -> EscrowRow]
    BY <1>2, <2>3 DEF EscrowRow, EscrowStatus
  <2> QED BY <1>1, <1>6, <2>1, <2>2, <2>4 DEF ResolveDispute, RowsOK
<1> QED
  BY <1>3, <1>4, <1>5, <1>6 DEF Environment, AdminWrite

-----------------------------------------------------------------------------
LEMMA InitType == Init => TypeOK
<1> SUFFICES ASSUME Init PROVE TypeOK
  OBVIOUS
<1>1. RowsOK
  BY LedgerAssumption
     DEF LedgerAssumption, Init, LedgerInit, RowsOK, TaskRow, EscrowRow, FeeRow,
         GatewayOrder, TaskStatus, EscrowStatus, FeeStatus, RefundStatus,
         PayoutStatus, DisputeStatus, UserOrNull, Payments
<1>2. ProcsOK
  BY IdleType, PcDisjoint DEF Init, LedgerInit, ProcsOK
<1> QED
  BY <1>1, <1>2 DEF TypeOK

LEMMA NextType == TypeOK /\ [Next]_vars => TypeOK'
<1> SUFFICES ASSUME TypeOK, [Next]_vars PROVE TypeOK'
  OBVIOUS
<1>1. ASSUME NEW p \in Reqs, NEW t \in Tasks, Request(p, t) PROVE TypeOK'
  BY <1>1, TaskRequestType, OtherRequestType DEF Request
<1>2. ASSUME NEW p \in Crons, CronStarts(p) PROVE TypeOK'
  BY <1>2, CronType DEF Procs
<1>3. ASSUME NEW p \in Procs, Step(p) PROVE TypeOK'
  BY <1>3, TaskStepType, PaymentStepType, RefundStepType, PayoutStepType, CronType
     DEF Step
<1>4. ASSUME NEW p \in Procs, Fail(p) PROVE TypeOK'
  BY <1>4, FailType
<1>5. ASSUME NEW t \in Tasks, Environment(t) PROVE TypeOK'
  BY <1>5, EnvironmentType
<1>6. CASE UNCHANGED vars
  BY <1>6 DEF vars, TypeOK, RowsOK, ProcsOK
<1> QED
  BY <1>1, <1>2, <1>3, <1>4, <1>5, <1>6 DEF Next

\* Every row and every request in flight keeps its type, whatever requests,
\* cron jobs, webhooks and failures interleave (all of the modelled services).
THEOREM TypeCorrect == Spec => []TypeOK
BY InitType, NextType, PTL DEF Spec

-----------------------------------------------------------------------------
(* What the steps that write two columns at once do, row by row.           *)

LEMMA AcceptWriteEffect ==
    ASSUME TypeOK, NEW p \in Procs, AcceptWrite(p), NEW t \in Tasks
    PROVE  \/ task'[t] = task[t]
           \/ /\ t = proc[p].t
              /\ task[t].status = "OPEN" /\ task[t].doer = NoUser
              /\ task'[t].status = "ASSIGNED" /\ task'[t].doer = proc[p].who
<1> DEFINE r == [task[proc[p].t] EXCEPT !.status = "ASSIGNED", !.doer = proc[p].who]
<1>1. task \in [Tasks -> TaskRow]
  BY DEF TypeOK, RowsOK
<1>2. \/ task' = task
      \/ /\ task' = [task EXCEPT ![proc[p].t] = r]
         /\ task[proc[p].t].status = "OPEN" /\ task[proc[p].t].doer = NoUser
  BY DEF AcceptWrite
<1>3. t = proc[p].t => r.status = "ASSIGNED" /\ r.doer = proc[p].who
  BY <1>1 DEF TaskRow
<1> HIDE DEF r
<1> QED
  BY <1>1, <1>2, <1>3

LEMMA CompleteWriteEffect ==
    ASSUME TypeOK, NEW p \in Procs, CompleteWrite(p), NEW t \in Tasks
    PROVE  \/ t # proc[p].t /\ task'[t] = task[t]
           \/ /\ t = proc[p].t
              /\ task'[t].status = "COMPLETED" /\ task'[t].doer = task[t].doer
<1> DEFINE r == [task[proc[p].t] EXCEPT !.status = "COMPLETED", !.due = FALSE]
<1>1. task \in [Tasks -> TaskRow]
  BY DEF TypeOK, RowsOK
<1>2. task' = [task EXCEPT ![proc[p].t] = r]
  BY DEF CompleteWrite
<1>3. t = proc[p].t => r.status = "COMPLETED" /\ r.doer = task[t].doer
  BY <1>1 DEF TaskRow
<1> HIDE DEF r
<1> QED
  BY <1>1, <1>2, <1>3

LEMMA ReleaseEffect ==
    ASSUME TypeOK, NEW p \in Procs, ReleaseEscrow(p), NEW t \in Tasks
    PROVE  \/ escrow'[t] = escrow[t]
           \/ /\ t = proc[p].t
              /\ escrow[t].status = "HELD"
              /\ escrow'[t].status = "RELEASED"
              /\ escrow'[t].pay = escrow[t].pay
              /\ escrow'[t].doer = IF proc[p].who = NoUser THEN escrow[t].doer
                                   ELSE proc[p].who
<1> DEFINE u == proc[p].t
           d == IF proc[p].who = NoUser THEN escrow[u].doer ELSE proc[p].who
           r == [escrow[u] EXCEPT !.status = "RELEASED", !.doer = d]
<1>1. escrow \in [Tasks -> EscrowRow]
  BY DEF TypeOK, RowsOK
<1>2. escrow' \in {escrow, [escrow EXCEPT ![u] = r]}
  BY DEF ReleaseEscrow
<1>4. escrow[u].status # "HELD" => escrow' = escrow
  BY DEF ReleaseEscrow
<1>3. t = u => r.status = "RELEASED" /\ r.pay = escrow[t].pay /\ r.doer = d
  <2> HIDE DEF d
  <2> QED BY <1>1 DEF EscrowRow
<1> HIDE DEF r
<1> QED
  BY <1>1, <1>2, <1>3, <1>4

LEMMA EscrowPaymentEffect ==
    ASSUME TypeOK, NEW p \in Procs, EscrowPaymentTx(p), NEW t \in Tasks
    PROVE  \/ escrow'[t] = escrow[t]
           \/ /\ t = proc[p].t
              /\ escrow[t].status = "PENDING"
              /\ escrow'[t].pay = proc[p].pay
              /\ escrow'[t].doer = escrow[t].doer
              /\ escrow'[t].status = IF task[t].status = "CANCELLED"
                                     THEN "REFUND_PENDING" ELSE "HELD"
<1> DEFINE u == proc[p].t
           s == IF task[u].status = "CANCELLED" THEN "REFUND_PENDING" ELSE "HELD"
           r == [escrow[u] EXCEPT !.pay = proc[p].pay, !.status = s]
<1>1. escrow \in [Tasks -> EscrowRow]
  BY DEF TypeOK, RowsOK
<1>2. escrow' \in {escrow, [escrow EXCEPT ![u] = r]}
  BY DEF EscrowPaymentTx
<1>4. escrow[u].status # "PENDING" => escrow' = escrow
  BY DEF EscrowPaymentTx
<1>3. t = u => r.status = s /\ r.pay = proc[p].pay /\ r.doer = escrow[t].doer
  <2> HIDE DEF s
  <2> QED BY <1>1 DEF EscrowRow
<1> HIDE DEF r
<1> QED
  BY <1>1, <1>2, <1>3, <1>4

\* A loop starts, ends, or calls with the next task of its batch; a release then
\* acts for the doer that is read at the call.
LEMMA CronEffect ==
    ASSUME TypeOK, NEW p \in Procs, CronStarts(p) \/ CronStep(p)
    PROVE  /\ UNCHANGED rows
           /\ \A q \in Procs \ {p} : proc'[q] = proc[q]
           /\ \/ proc'[p].pc \in SweepPc \cup {"idle", "refundFind"}
              \/ proc'[p].pc = "release" /\ proc'[p].who = task[proc'[p].t].doer
<1>1. UNCHANGED rows
  BY DEF CronStarts, CronStep, ReconcileScan, AutoReleaseScan, AnomalyScan,
         ReconcileNext, AutoReleaseNext, SweepDone
<1>2. \A q \in Procs \ {p} : proc'[q] = proc[q]
  BY DEF CronStarts, CronStep, ReconcileScan, AutoReleaseScan, AnomalyScan,
         StartSweep, ReconcileNext, AutoReleaseNext, SweepDone, TypeOK, ProcsOK
<1>3. ASSUME NEW r, proc' = [proc EXCEPT ![p] = r] PROVE proc'[p] = r
  BY <1>3 DEF TypeOK, ProcsOK
<1>4. ASSUME NEW l, NEW batch, StartSweep(p, l, batch) PROVE proc'[p].pc = l
  <2> DEFINE r == [Idle EXCEPT !.pc = l, !.todo = batch]
  <2>1. proc' = [proc EXCEPT ![p] = r]
    BY <1>4 DEF StartSweep
  <2>2. r.pc = l
    BY DEF Idle
  <2> HIDE DEF r
  <2> QED BY <1>3, <2>1, <2>2
<1>5. CASE ReconcileScan(p) \/ AnomalyScan(p) \/ AutoReleaseScan(p)
  <2>1. proc'[p].pc \in SweepPc
    BY <1>4, <1>5 DEF ReconcileScan, AnomalyScan, AutoReleaseScan, SweepPc
  <2> QED BY <1>1, <1>2, <2>1
<1>6. CASE ReconcileNext(p)
  <2>1. PICK t \in proc[p].todo :
          proc' = [proc EXCEPT ![p].pc = "refundFind", ![p].t = t,
                               ![p].caller = proc[p].pc, ![p].todo = @ \ {t}]
    BY <1>6 DEF ReconcileNext
  <2> DEFINE r == [proc[p] EXCEPT !.pc = "refundFind", !.t = t,
                                  !.caller = proc[p].pc, !.todo = @ \ {t}]
  <2>2. proc' = [proc EXCEPT ![p] = r]
    BY <2>1
  <2>3. r.pc = "refundFind"
    BY DEF TypeOK, ProcsOK, Proc
  <2> HIDE DEF r
  <2> QED BY <1>1, <1>2, <1>3, <2>2, <2>3
<1>7. CASE AutoReleaseNext(p)
  <2>1. PICK t \in proc[p].todo :
          proc' = [proc EXCEPT ![p].pc = "release", ![p].t = t,
                               ![p].who = task[t].doer,
                               ![p].caller = "autoRelease", ![p].todo = @ \ {t}]
    BY <1>7 DEF AutoReleaseNext
  <2> DEFINE r == [proc[p] EXCEPT !.pc = "release", !.t = t, !.who = task[t].doer,
                                  !.caller = "autoRelease", !.todo = @ \ {t}]
  <2>2. proc' = [proc EXCEPT ![p] = r]
    BY <2>1
  <2>3. r.pc = "release" /\ r.t = t /\ r.who = task[t].doer
    BY DEF TypeOK, ProcsOK, Proc
  <2> HIDE DEF r
  <2> QED BY <1>1, <1>2, <1>3, <2>2, <2>3
<1>8. CASE SweepDone(p)
  <2>1. proc'[p].pc = "idle"
    BY <1>3, <1>8, IdleType DEF SweepDone
  <2> QED BY <1>1, <1>2, <2>1
<1> QED
  BY <1>5, <1>6, <1>7, <1>8 DEF CronStarts, CronStep

-----------------------------------------------------------------------------
(***************************************************************************)
(* No task is CANCELLED with its money HELD, for any number of tasks, users*)
(* and interleaved requests.  NoCancelledHeld is not inductive: a cancel   *)
(* of a CASH task leaves the escrow alone.  CashHoldsNothing adds that such*)
(* a task has no escrow that holds or awaits money.                        *)
(***************************************************************************)
CashHoldsNothing ==
    \A t \in Tasks : escrow[t].status \in {"PENDING", "HELD"} => IsEscrow(t)

HeldInv == NoCancelledHeld /\ CashHoldsNothing

\* What a step may do to the status of a task and of its escrow.
Harmless(t) ==
    /\ escrow'[t].status = "HELD" => \/ escrow[t].status = "HELD"
                                     \/ escrow[t].status = "PENDING"
    /\ escrow'[t].status = "PENDING" => escrow[t].status = "PENDING" \/ IsEscrow(t)
    /\ task'[t].status = "CANCELLED" /\ escrow'[t].status = "HELD"
         => \/ task[t].status = "CANCELLED" /\ escrow[t].status = "HELD"
            \/ ~IsEscrow(t)

\* Harmless steps keep HeldInv.
LEMMA HarmlessKeeps ==
    ASSUME HeldInv, \A t \in Tasks : Harmless(t)
    PROVE  HeldInv'
<1>1. CashHoldsNothing'
  BY DEF HeldInv, CashHoldsNothing, Harmless, IsEscrow
<1>2. NoCancelledHeld'
  BY DEF HeldInv, NoCancelledHeld, CashHoldsNothing, Harmless
<1> QED
  BY <1>1, <1>2 DEF HeldInv

\* A step that leaves both tables alone is harmless.
LEMMA UnchangedHarmless ==
    UNCHANGED <<task, escrow>> => \A t \in Tasks : Harmless(t)
BY DEF Harmless

LEMMA TaskStepHarmless ==
    ASSUME TypeOK, NEW p \in Procs, TaskStep(p)
    PROVE  \A t \in Tasks : Harmless(t)
<1> DEFINE u == proc[p].t
<1>1. task \in [Tasks -> TaskRow] /\ escrow \in [Tasks -> EscrowRow]
  BY DEF TypeOK, RowsOK
<1>2. u \in Tasks
  BY DEF TaskStep, CreateMoney, AcceptEscrow, AcceptWrite, StartWrite, CompleteWrite,
         ConfirmEscrow, ConfirmCash, ReleaseEscrow, CancelTx, CancelEscrow, DisputeTx,
         At, TaskPc, TypeOK, ProcsOK
<1>3. ASSUME NEW s \in TaskStatus, s # "CANCELLED", task' \in {task, [task EXCEPT ![u].status = s]},
             UNCHANGED escrow
      PROVE  \A t \in Tasks : Harmless(t)
  BY <1>1, <1>2, <1>3 DEF Harmless, TaskRow
<1>4. CASE CreateMoney(p)
  BY <1>1, <1>2, <1>4 DEF CreateMoney, Harmless, EscrowRow
<1>5. CASE AcceptEscrow(p) \/ ConfirmEscrow(p) \/ CancelEscrow(p)
  BY <1>5, UnchangedHarmless DEF AcceptEscrow, ConfirmEscrow, CancelEscrow, rows
<1>6. CASE AcceptWrite(p)
  BY <1>6, AcceptWriteEffect DEF AcceptWrite, Harmless
<1>7. CASE StartWrite(p)
  BY <1>3, <1>7 DEF StartWrite, TaskStatus
<1>8. CASE CompleteWrite(p)
  BY <1>8, CompleteWriteEffect DEF CompleteWrite, Harmless
<1>9. CASE ConfirmCash(p)
  BY <1>1, <1>2, <1>9 DEF ConfirmCash, Harmless, TaskRow
<1>10. CASE ReleaseEscrow(p)
  <2> SUFFICES ASSUME NEW t \in Tasks PROVE Harmless(t)
    OBVIOUS
  <2>1. task'[t].status = task[t].status
    BY <1>1, <1>2, <1>10 DEF ReleaseEscrow, TaskRow
  <2>2. escrow'[t].status \in {escrow[t].status, "RELEASED"}
    BY <1>10, ReleaseEffect
  <2> QED BY <2>1, <2>2 DEF Harmless
<1>11. CASE CancelTx(p)
  <2> SUFFICES ASSUME NEW t \in Tasks PROVE Harmless(t)
    OBVIOUS
  <2>1. escrow'[t].status \in {escrow[t].status, "REFUND_PENDING"}
    BY <1>1, <1>2, <1>11 DEF CancelTx, EscrowRow
  <2>2. t # u => task'[t] = task[t]
    BY <1>1, <1>2, <1>11 DEF CancelTx
  <2>3. CASE task[u].status \in CANCELLABLE_STATUSES /\ IsEscrow(u)
    <3>1. escrow'[u].status # "HELD"
      BY <1>1, <1>2, <1>11, <2>3 DEF CancelTx, EscrowRow, CANCELLABLE_STATUSES
    <3> QED BY <2>1, <2>2, <3>1 DEF Harmless
  <2>4. CASE task[u].status \notin CANCELLABLE_STATUSES
    BY <1>11, <2>1, <2>4 DEF CancelTx, Harmless
  <2>5. CASE ~IsEscrow(u)
    BY <2>1, <2>2, <2>5 DEF Harmless
  <2> QED BY <2>3, <2>4, <2>5
<1>12. CASE DisputeTx(p)
  <2> SUFFICES ASSUME NEW t \in Tasks PROVE Harmless(t)
    OBVIOUS
  <2>1. escrow'[t].status \in {escrow[t].status, "DISPUTED"}
    BY <1>1, <1>2, <1>12 DEF DisputeTx, EscrowRow
  <2>2. task'[t].status \in {task[t].status, "DISPUTED"}
    BY <1>1, <1>2, <1>12 DEF DisputeTx, TaskRow
  <2> QED BY <2>1, <2>2 DEF Harmless
<1> QED
  BY <1>4, <1>5, <1>6, <1>7, <1>8, <1>9, <1>10, <1>11, <1>12 DEF TaskStep

LEMMA PaymentStepHarmless ==
    ASSUME TypeOK, NEW p \in Procs, PaymentStep(p), NEW t \in Tasks
    PROVE  Harmless(t)
<1>1. task \in [Tasks -> TaskRow] /\ escrow \in [Tasks -> EscrowRow]
  BY DEF TypeOK, RowsOK
<1>2. proc[p].t \in Tasks
  BY DEF PaymentStep, OrderWrite, EscrowPaymentTx, FeePaymentTx, Announce,
         At, TaskPc, TypeOK, ProcsOK
<1>3. CASE OrderWrite(p) \/ Announce(p)
  BY <1>3, UnchangedHarmless DEF OrderWrite, Announce
<1>4. CASE EscrowPaymentTx(p)
  <2>1. task'[t].status \in {task[t].status, "OPEN"}
    BY <1>1, <1>2, <1>4 DEF EscrowPaymentTx, TaskRow
  <2>2. \/ escrow'[t] = escrow[t]
        \/ /\ escrow[t].status = "PENDING"
           /\ escrow'[t].status = IF task[t].status = "CANCELLED"
                                  THEN "REFUND_PENDING" ELSE "HELD"
    BY <1>4, EscrowPaymentEffect
  <2> QED BY <2>1, <2>2 DEF Harmless
<1>5. CASE FeePaymentTx(p)
  <2>1. task'[t].status \in {task[t].status, "OPEN"}
    BY <1>1, <1>2, <1>5 DEF FeePaymentTx, TaskRow
  <2> QED BY <1>5, <2>1 DEF FeePaymentTx, Harmless
<1> QED
  BY <1>3, <1>4, <1>5 DEF PaymentStep

LEMMA RefundStepHarmless ==
    ASSUME TypeOK, NEW p \in Procs, RefundStep(p), NEW t \in Tasks
    PROVE  Harmless(t)
<1>1. escrow \in [Tasks -> EscrowRow]
  BY DEF TypeOK, RowsOK
<1>2. ASSUME UNCHANGED task,
             escrow'[t].status \in {escrow[t].status, "REFUND_PENDING", "REFUNDED"}
      PROVE  Harmless(t)
  BY <1>2 DEF Harmless
<1>3. CASE RefundClaim(p)
  <2>1. proc[p].t \in Tasks
    BY <1>3 DEF RefundClaim, At, TaskPc, TypeOK, ProcsOK
  <2> QED BY <1>1, <1>2, <1>3, <2>1 DEF RefundClaim, EscrowRow
<1>4. CASE RefundComplete(p)
  <2>1. proc[p].t \in Tasks
    BY <1>4 DEF RefundComplete, At, TaskPc, TypeOK, ProcsOK
  <2> QED BY <1>1, <1>2, <1>4, <2>1 DEF RefundComplete, EscrowRow
<1>5. CASE UNCHANGED <<task, escrow>>
  BY <1>5, UnchangedHarmless
<1> QED
  BY <1>3, <1>4, <1>5
     DEF RefundStep, RefundReadEscrow, RefundReadExisting, RefundCreate, Execute,
         ProviderConfirms, ProviderRefuses, ProviderAnswerLost, RefundFailed, rows

LEMMA EnvironmentHarmless ==
    ASSUME TypeOK, NEW u \in Tasks, Environment(u), NEW t \in Tasks
    PROVE  Harmless(t)
<1>1. task \in [Tasks -> TaskRow] /\ escrow \in [Tasks -> EscrowRow]
  BY DEF TypeOK, RowsOK
<1>2. CASE PosterPays(u) \/ MarkPaid(u)
  BY <1>2, UnchangedHarmless DEF PosterPays, MarkPaid
<1>3. CASE CompletionAges(u)
  BY <1>1, <1>3 DEF CompletionAges, Harmless, TaskRow
<1>4. ASSUME NEW b \in BOOLEAN, ResolveDispute(u, b) PROVE Harmless(t)
  <2>1. task'[t].status \in {task[t].status, "COMPLETED"}
    BY <1>1, <1>4 DEF ResolveDispute, TaskRow
  <2>2. escrow'[t].status \in {escrow[t].status, "REFUNDED", "RELEASED"}
    BY <1>1, <1>4 DEF ResolveDispute, EscrowRow
  <2> QED BY <2>1, <2>2 DEF Harmless
<1> QED
  BY <1>2, <1>3, <1>4 DEF Environment, AdminWrite

LEMMA HeldInvStep == TypeOK /\ HeldInv /\ [Next]_vars => HeldInv'
<1> SUFFICES ASSUME TypeOK, HeldInv, [Next]_vars PROVE \A t \in Tasks : Harmless(t)
  BY HarmlessKeeps
<1>1. ASSUME NEW p \in Reqs, NEW u \in Tasks, Request(p, u)
      PROVE  \A t \in Tasks : Harmless(t)
  <2>1. CASE CreateTask(p, u)
    BY <2>1 DEF CreateTask, Harmless, TypeOK, RowsOK, TaskRow
  <2>2. CASE UNCHANGED <<task, escrow>>
    BY <2>2, UnchangedHarmless
  <2> QED
    BY <1>1, <2>1, <2>2
       DEF Request, TaskRequest, MarkStarted, MarkComplete, Confirm, ForceCancel,
           Accept, Cancel, RaiseDispute, PaymentRequest, InitiatePayment, Webhook,
           AdminRequest, InitiateEscrowRefund, RetryRefund, rows
<1>2. ASSUME NEW p \in Procs,
             CronStarts(p) \/ CronStep(p) \/ PayoutStep(p) \/ Fail(p)
      PROVE  UNCHANGED <<task, escrow>>
  BY <1>2 DEF CronStarts, CronStep, ReconcileScan, AutoReleaseScan, AnomalyScan,
              ReconcileNext, AutoReleaseNext, SweepDone, PayoutStep, PayoutFind,
              PayoutCreate, PayoutUpdate, Fail, rows
<1>3. ASSUME NEW p \in Crons, CronStarts(p) PROVE \A t \in Tasks : Harmless(t)
  BY <1>2, <1>3, UnchangedHarmless DEF Procs
<1>4. ASSUME NEW p \in Procs, Step(p) \/ Fail(p) PROVE \A t \in Tasks : Harmless(t)
  BY <1>2, <1>4, UnchangedHarmless, TaskStepHarmless, PaymentStepHarmless,
     RefundStepHarmless DEF Step
<1>5. ASSUME NEW u \in Tasks, Environment(u) PROVE \A t \in Tasks : Harmless(t)
  BY <1>5, EnvironmentHarmless
<1>6. CASE UNCHANGED vars
  BY <1>6, UnchangedHarmless DEF vars
<1> QED
  BY <1>1, <1>3, <1>4, <1>5, <1>6 DEF Next

\* Whatever cancels, webhooks, disputes, releases and sweeps interleave, no
\* task is CANCELLED while its escrow is HELD (executeCancel and
\* applyEscrowPayment).
THEOREM CancelledNeverHeld == Spec => []NoCancelledHeld
<1>1. Init => HeldInv
  BY DEF Init, LedgerInit, HeldInv, NoCancelledHeld, CashHoldsNothing
<1>2. HeldInv => NoCancelledHeld
  BY DEF HeldInv
<1> QED
  BY <1>1, <1>2, TypeCorrect, HeldInvStep, PTL DEF Spec

-----------------------------------------------------------------------------
(***************************************************************************)
(* The refund lifecycle is safe for any number of cancels, webhooks, sweeps*)
(* and admins that execute one refund at once: one of them calls the       *)
(* provider at a time, and COMPLETED is written only after it paid back.   *)
(***************************************************************************)
\* Whoever executes a refund holds its claim.
ExecutorClaimed ==
    \A p \in Procs : proc[p].pc \in Executing => refund[proc[p].t] = "PROCESSING"

\* Whoever is about to complete a refund has the gateway's confirmation.
CompletesConfirmed ==
    \A p \in Procs : At(p, "refundOk") => gateway[proc[p].t].refunded

RefundInv == ExecutorClaimed /\ CompletesConfirmed /\ OneExecutor /\ RefundConfirmed

\* A step that admits no executor and leaves refunds and repayments alone.
Quiet ==
    /\ \A q \in Procs : proc'[q].pc \in Executing =>
           proc'[q].pc = proc[q].pc /\ proc'[q].t = proc[q].t
    /\ refund' = refund
    /\ \A t \in Tasks : gateway[t].refunded => gateway'[t].refunded

LEMMA ExecutingPc == Executing \subseteq TaskPc /\ "refundOk" \in Executing
BY DEF Executing, TaskPc

LEMMA QuietKeeps ==
    ASSUME TypeOK, RefundInv, Quiet
    PROVE  RefundInv'
<1>1. ExecutorClaimed'
  BY DEF RefundInv, ExecutorClaimed, Quiet
<1>2. CompletesConfirmed'
  BY ExecutingPc DEF RefundInv, CompletesConfirmed, Quiet, At, TypeOK, ProcsOK
<1>3. OneExecutor'
  BY DEF RefundInv, OneExecutor, Quiet
<1>4. RefundConfirmed'
  BY DEF RefundInv, RefundConfirmed, Quiet
<1> QED
  BY <1>1, <1>2, <1>3, <1>4 DEF RefundInv

\* One request moves to where nothing is executed.
LEMMA MoveQuiet ==
    ASSUME NEW p \in Procs, \A q \in Procs \ {p} : proc'[q] = proc[q],
           proc'[p].pc \notin Executing, UNCHANGED refund,
           \A t \in Tasks : gateway[t].refunded => gateway'[t].refunded
    PROVE  Quiet
BY DEF Quiet

LEMMA ReturnQuiet ==
    ASSUME TypeOK, NEW p \in Procs, Return(p), UNCHANGED <<refund, gateway>>
    PROVE  Quiet
<1>1. proc'[p].pc \notin Executing
  BY ReturnEffect, ExecutingPc, PcDisjoint DEF TypeOK
<1> QED
  BY <1>1, ReturnEffect, MoveQuiet DEF TypeOK

LEMMA GotoQuiet ==
    ASSUME TypeOK, NEW p \in Procs, NEW l \in TaskPc \ Executing, Goto(p, l),
           proc[p].pc \in TaskPc, UNCHANGED <<refund, gateway>>
    PROVE  Quiet
<1>1. proc'[p].pc \notin Executing
  BY GotoEffect DEF TypeOK
<1> QED
  BY <1>1, GotoEffect, MoveQuiet DEF TypeOK

LEMMA BeginQuiet ==
    ASSUME TypeOK, NEW p, NEW l \in TaskPc \ Executing, NEW t \in Tasks,
           NEW pay \in Payments, NEW who \in UserOrNull,
           Begin(p, l, t, who, pay), UNCHANGED <<refund, gateway>>
    PROVE  Quiet
<1>1. p \in Procs /\ proc'[p].pc \notin Executing
  BY BeginEffect DEF TypeOK
<1> QED
  BY <1>1, BeginEffect, MoveQuiet DEF TypeOK

-----------------------------------------------------------------------------
LEMMA RequestQuiet ==
    ASSUME TypeOK, NEW p \in Reqs, NEW t \in Tasks, Request(p, t)
    PROVE  Quiet
<1>1. NoUser \in UserOrNull /\ task[t].doer \in UserOrNull /\ Users \subseteq UserOrNull
      /\ 0 \in Payments
  BY LedgerAssumption DEF LedgerAssumption, TypeOK, RowsOK, TaskRow, UserOrNull, Payments
<1>2. UNCHANGED <<refund, gateway>>
  BY DEF Request, TaskRequest, CreateTask, MarkStarted, MarkComplete, Confirm,
         ForceCancel, Accept, Cancel, RaiseDispute, PaymentRequest, InitiatePayment,
         Webhook, AdminRequest, InitiateEscrowRefund, RetryRefund, rows
<1>3. \E l \in TaskPc \ Executing, who \in UserOrNull, pay \in Payments :
          Begin(p, l, t, who, pay)
  <2>1. CASE TaskRequest(p, t)
    BY <1>1, <2>1 DEF TaskRequest, CreateTask, MarkStarted, MarkComplete, Confirm,
                      ForceCancel, Accept, Cancel, RaiseDispute, TaskPc, Executing
  <2>2. CASE PaymentRequest(p, t) \/ AdminRequest(p, t)
    BY <1>1, <2>2 DEF PaymentRequest, InitiatePayment, Webhook, AdminRequest,
                      InitiateEscrowRefund, RetryRefund, TaskPc, Executing
  <2> QED BY <2>1, <2>2 DEF Request
<1> QED
  BY <1>2, <1>3, BeginQuiet

LEMMA TaskStepQuiet ==
    ASSUME TypeOK, NEW p \in Procs, TaskStep(p)
    PROVE  Quiet
<1>1. proc[p].pc \in TaskPc /\ UNCHANGED <<refund, gateway>>
  BY DEF TaskStep, CreateMoney, AcceptEscrow, AcceptWrite, StartWrite, CompleteWrite,
         ConfirmEscrow, ConfirmCash, ReleaseEscrow, CancelTx, CancelEscrow, DisputeTx,
         At, TaskPc, rows
<1>2. Return(p) \/ \E l \in TaskPc \ Executing : Goto(p, l)
  BY DEF TaskStep, CreateMoney, AcceptEscrow, AcceptWrite, StartWrite, CompleteWrite,
         ConfirmEscrow, ConfirmCash, ReleaseEscrow, CancelTx, CancelEscrow, DisputeTx,
         TaskPc, Executing
<1> QED
  BY <1>1, <1>2, ReturnQuiet, GotoQuiet

LEMMA PaymentStepQuiet ==
    ASSUME TypeOK, NEW p \in Procs, PaymentStep(p)
    PROVE  Quiet
<1>1. proc[p].pc \in TaskPc /\ proc[p].t \in Tasks
  BY DEF PaymentStep, OrderWrite, EscrowPaymentTx, FeePaymentTx, Announce, At,
         TaskPc, TypeOK, ProcsOK
<1>2. CASE OrderWrite(p)
  <2>1. proc'[p].pc \notin Executing /\ \A q \in Procs \ {p} : proc'[q] = proc[q]
    BY <1>2, ReturnEffect, ExecutingPc, PcDisjoint DEF OrderWrite, TypeOK
  <2>2. \A t \in Tasks : gateway[t].refunded => gateway'[t].refunded
    BY <1>1, <1>2 DEF OrderWrite, TypeOK, RowsOK, GatewayOrder
  <2> QED BY <1>2, <2>1, <2>2, MoveQuiet DEF OrderWrite
<1>3. CASE EscrowPaymentTx(p) \/ FeePaymentTx(p) \/ Announce(p)
  <2>1. /\ UNCHANGED <<refund, gateway>>
        /\ Return(p) \/ Goto(p, "announce") \/ Goto(p, "refundFind")
    BY <1>3 DEF EscrowPaymentTx, FeePaymentTx, Announce
  <2> QED BY <1>1, <2>1, ReturnQuiet, GotoQuiet DEF TaskPc, Executing
<1> QED
  BY <1>2, <1>3 DEF PaymentStep

LEMMA CronQuiet ==
    ASSUME TypeOK, NEW p \in Procs, CronStarts(p) \/ CronStep(p)
    PROVE  Quiet
<1>1. UNCHANGED <<refund, gateway>> /\ \A q \in Procs \ {p} : proc'[q] = proc[q]
  BY CronEffect DEF rows
<1>2. proc'[p].pc \notin Executing
  BY CronEffect, PcDisjoint, ExecutingPc DEF Executing
<1> QED
  BY <1>1, <1>2, MoveQuiet

LEMMA OtherQuiet ==
    ASSUME TypeOK, NEW p \in Procs, PayoutStep(p) \/ Fail(p)
    PROVE  Quiet
<1>1. CASE PayoutStep(p)
  <2>1. /\ proc[p].pc \in TaskPc /\ UNCHANGED <<refund, gateway>>
        /\ Return(p) \/ Goto(p, "payoutCreate") \/ Goto(p, "payoutUpdate")
    BY <1>1 DEF PayoutStep, PayoutFind, PayoutCreate, PayoutUpdate, At, TaskPc, rows
  <2> QED BY <2>1, ReturnQuiet, GotoQuiet DEF TaskPc, Executing
<1>2. CASE Fail(p)
  <2>1. CASE Return(p)
    BY <1>2, <2>1, ReturnQuiet DEF Fail, rows
  <2>2. CASE proc' = [proc EXCEPT ![p] = Idle]
    <3>1. proc'[p].pc \notin Executing /\ \A q \in Procs \ {p} : proc'[q] = proc[q]
      BY <2>2, IdleType, PcDisjoint, ExecutingPc DEF TypeOK, ProcsOK
    <3> QED BY <1>2, <3>1, MoveQuiet DEF Fail, rows
  <2> QED BY <1>2, <2>1, <2>2 DEF Fail
<1> QED
  BY <1>1, <1>2

LEMMA EnvironmentQuiet ==
    ASSUME TypeOK, NEW t \in Tasks, Environment(t)
    PROVE  Quiet
<1>1. proc' = proc /\ refund' = refund
  BY DEF Environment, PosterPays, CompletionAges, AdminWrite, MarkPaid, ResolveDispute
<1>2. \A u \in Tasks : gateway[u].refunded => gateway'[u].refunded
  BY DEF Environment, PosterPays, CompletionAges, AdminWrite, MarkPaid, ResolveDispute,
         TypeOK, RowsOK, GatewayOrder
<1> QED
  BY <1>1, <1>2 DEF Quiet

-----------------------------------------------------------------------------
(* The steps of RefundService, the only ones that are not all Quiet.       *)

\* The one executor p of a refund leaves: what it wrote about that refund
\* disturbs no one else, for no one else executes it.
LEMMA ExecutorMoves ==
    ASSUME TypeOK, RefundInv, NEW p \in Procs, proc[p].pc \in Executing,
           \A q \in Procs \ {p} : proc'[q] = proc[q],
           \A t \in Tasks \ {proc[p].t} : refund'[t] = refund[t],
           \A t \in Tasks : gateway[t].refunded => gateway'[t].refunded
    PROVE  /\ \A q \in Procs \ {p} : proc[q].pc \in Executing =>
                 proc[q].t # proc[p].t /\ refund'[proc[q].t] = "PROCESSING"
           /\ \A q \in Procs \ {p} : At(q, "refundOk") => gateway'[proc[q].t].refunded
<1>1. \A q \in Procs : proc[q].pc \in Executing => proc[q].t \in Tasks
  BY ExecutingPc DEF TypeOK, ProcsOK
<1>2. \A q \in Procs \ {p} : proc[q].pc \in Executing => proc[q].t # proc[p].t
  BY DEF RefundInv, OneExecutor
<1>3. \A q \in Procs \ {p} : proc[q].pc \in Executing => refund'[proc[q].t] = "PROCESSING"
  BY <1>1, <1>2 DEF RefundInv, ExecutorClaimed
<1>4. \A q \in Procs \ {p} : At(q, "refundOk") => gateway'[proc[q].t].refunded
  BY <1>1, ExecutingPc DEF RefundInv, CompletesConfirmed, At
<1> QED
  BY <1>2, <1>3, <1>4

LEMMA ExecuteKeeps ==
    ASSUME TypeOK, RefundInv, NEW p \in Procs, Execute(p)
    PROVE  RefundInv'
<1> DEFINE t == proc[p].t
<1>1. proc[p].pc \in TaskPc \ Executing /\ t \in Tasks
  BY DEF Execute, At, TaskPc, Executing, TypeOK, ProcsOK
<1>2. CASE Return(p) /\ UNCHANGED refund
  BY <1>2, ReturnQuiet, QuietKeeps DEF Execute
<1>3. CASE /\ RefundRetryable(t)
           /\ refund' = [refund EXCEPT ![t] = "PROCESSING"]
           /\ Goto(p, "provider")
  <2>1. /\ proc'[p].pc = "provider" /\ proc'[p].t = t
        /\ \A q \in Procs \ {p} : proc'[q] = proc[q]
    BY <1>1, <1>3, GotoEffect DEF TypeOK, TaskPc
  <2>2. refund'[t] = "PROCESSING" /\ \A u \in Tasks \ {t} : refund'[u] = refund[u]
    BY <1>1, <1>3 DEF TypeOK, RowsOK
  <2>3. \A q \in Procs : proc[q].pc \in Executing => proc[q].t \in Tasks /\ proc[q].t # t
    BY <1>3, ExecutingPc
       DEF RefundInv, ExecutorClaimed, RefundRetryable, TypeOK, ProcsOK
  <2>4. ExecutorClaimed'
    BY <2>1, <2>2, <2>3 DEF RefundInv, ExecutorClaimed
  <2>5. CompletesConfirmed'
    BY <2>1 DEF Execute, RefundInv, CompletesConfirmed, At
  <2>6. OneExecutor'
    BY <2>1, <2>3 DEF RefundInv, OneExecutor
  <2>7. RefundConfirmed'
    BY <1>1, <2>2 DEF Execute, RefundInv, RefundConfirmed
  <2> QED BY <2>4, <2>5, <2>6, <2>7 DEF RefundInv
<1> QED
  BY <1>2, <1>3 DEF Execute

LEMMA ProviderKeeps ==
    ASSUME TypeOK, RefundInv, NEW p \in Procs,
           ProviderConfirms(p) \/ ProviderRefuses(p) \/ ProviderAnswerLost(p)
    PROVE  RefundInv'
<1> DEFINE t == proc[p].t
<1>1. proc[p].pc = "provider" /\ proc[p].pc \in TaskPc /\ t \in Tasks
      /\ proc[p].pc \in Executing
  BY DEF ProviderConfirms, ProviderRefuses, ProviderAnswerLost, At, TaskPc, Executing,
         TypeOK, ProcsOK
<1>2. /\ proc'[p].pc \in {"refundOk", "refundFail"} /\ proc'[p].t = t
      /\ \A q \in Procs \ {p} : proc'[q] = proc[q]
  BY <1>1, GotoEffect
     DEF ProviderConfirms, ProviderRefuses, ProviderAnswerLost, TypeOK, TaskPc
<1>3. refund' = refund
  BY DEF ProviderConfirms, ProviderRefuses, ProviderAnswerLost, rows
<1>4. \A u \in Tasks : gateway[u].refunded => gateway'[u].refunded
  BY <1>1 DEF ProviderConfirms, ProviderRefuses, ProviderAnswerLost, rows,
              TypeOK, RowsOK, GatewayOrder
<1>5. proc'[p].pc = "refundOk" => gateway'[t].refunded
  <2>1. CASE ProviderConfirms(p)
    BY <1>1, <2>1 DEF ProviderConfirms, TypeOK, RowsOK, GatewayOrder
  <2>2. CASE ProviderRefuses(p) \/ ProviderAnswerLost(p)
    <3>1. Goto(p, "refundFail")
      BY <2>2 DEF ProviderRefuses, ProviderAnswerLost
    <3> QED BY <1>1, <3>1, GotoEffect DEF TypeOK, TaskPc
  <2> QED BY <2>1, <2>2
<1>6. /\ \A q \in Procs \ {p} : proc[q].pc \in Executing =>
             proc[q].t # t /\ refund'[proc[q].t] = "PROCESSING"
      /\ \A q \in Procs \ {p} : At(q, "refundOk") => gateway'[proc[q].t].refunded
  BY <1>1, <1>2, <1>3, <1>4, ExecutorMoves
<1>7. ExecutorClaimed'
  BY <1>1, <1>2, <1>3, <1>6 DEF RefundInv, ExecutorClaimed
<1>8. CompletesConfirmed'
  BY <1>2, <1>5, <1>6 DEF CompletesConfirmed, At
<1>9. OneExecutor'
  BY <1>1, <1>2, <1>6 DEF RefundInv, OneExecutor
<1>10. RefundConfirmed'
  BY <1>3, <1>4 DEF RefundInv, RefundConfirmed
<1> QED
  BY <1>7, <1>8, <1>9, <1>10 DEF RefundInv

LEMMA ResultKeeps ==
    ASSUME TypeOK, RefundInv, NEW p \in Procs, RefundComplete(p) \/ RefundFailed(p)
    PROVE  RefundInv'
<1> DEFINE t == proc[p].t
<1>1. proc[p].pc \in Executing /\ t \in Tasks
  BY ExecutingPc DEF RefundComplete, RefundFailed, At, Executing, TypeOK, ProcsOK
<1>2. /\ proc'[p].pc \notin Executing
      /\ \A q \in Procs \ {p} : proc'[q] = proc[q]
  BY ReturnEffect, ExecutingPc, PcDisjoint DEF RefundComplete, RefundFailed, TypeOK
<1>3. /\ \A u \in Tasks \ {t} : refund'[u] = refund[u]
      /\ refund'[t] = "COMPLETED" => gateway[t].refunded
  BY <1>1 DEF RefundComplete, RefundFailed, TypeOK, RowsOK, RefundInv, CompletesConfirmed
<1>4. gateway' = gateway
  BY DEF RefundComplete, RefundFailed
<1>5. /\ \A q \in Procs \ {p} : proc[q].pc \in Executing =>
             proc[q].t # t /\ refund'[proc[q].t] = "PROCESSING"
      /\ \A q \in Procs \ {p} : At(q, "refundOk") => gateway'[proc[q].t].refunded
  BY <1>1, <1>2, <1>3, <1>4, ExecutorMoves
<1>6. ExecutorClaimed'
  BY <1>2, <1>5 DEF ExecutorClaimed
<1>7. CompletesConfirmed'
  BY <1>2, <1>5, ExecutingPc DEF CompletesConfirmed, At
<1>8. OneExecutor'
  BY <1>2 DEF RefundInv, OneExecutor
<1>9. RefundConfirmed'
  BY <1>3, <1>4 DEF RefundInv, RefundConfirmed
<1> QED
  BY <1>6, <1>7, <1>8, <1>9 DEF RefundInv

LEMMA CreateKeeps ==
    ASSUME TypeOK, RefundInv, NEW p \in Procs, RefundCreate(p)
    PROVE  RefundInv'
<1> DEFINE t == proc[p].t
<1>1. proc[p].pc \in TaskPc /\ t \in Tasks
  BY DEF RefundCreate, At, TaskPc, TypeOK, ProcsOK
<1>2. CASE refund' = refund
  BY <1>1, <1>2, GotoQuiet, QuietKeeps DEF RefundCreate, TaskPc, Executing
<1>3. CASE refund[t] = "NONE" /\ refund' = [refund EXCEPT ![t] = "PENDING"]
  <2>1. /\ proc'[p].pc \notin Executing
        /\ \A q \in Procs \ {p} : proc'[q] = proc[q]
    BY <1>1, GotoEffect DEF RefundCreate, TypeOK, TaskPc, Executing
  <2>2. refund'[t] = "PENDING" /\ \A u \in Tasks \ {t} : refund'[u] = refund[u]
    BY <1>1, <1>3 DEF TypeOK, RowsOK
  <2>3. \A q \in Procs : proc[q].pc \in Executing => proc[q].t \in Tasks /\ proc[q].t # t
    BY <1>3, ExecutingPc DEF RefundInv, ExecutorClaimed, TypeOK, ProcsOK
  <2>4. ExecutorClaimed'
    BY <2>1, <2>2, <2>3 DEF RefundInv, ExecutorClaimed
  <2>5. CompletesConfirmed'
    BY <2>1, ExecutingPc DEF RefundCreate, RefundInv, CompletesConfirmed, At
  <2>6. OneExecutor'
    BY <2>1 DEF RefundInv, OneExecutor
  <2>7. RefundConfirmed'
    BY <1>1, <2>2 DEF RefundCreate, RefundInv, RefundConfirmed
  <2> QED BY <2>4, <2>5, <2>6, <2>7 DEF RefundInv
<1> QED
  BY <1>2, <1>3 DEF RefundCreate

LEMMA RefundStepKeeps ==
    ASSUME TypeOK, RefundInv, NEW p \in Procs, RefundStep(p)
    PROVE  RefundInv'
<1>1. CASE RefundReadEscrow(p)
  <2> DEFINE ok == /\ escrow[proc[p].t].status \in REFUNDABLE_ESCROW_STATES
                   /\ escrow[proc[p].t].pay # 0
             r == [proc[p] EXCEPT !.pc = "refundExisting", !.refundable = ok]
  <2>1. proc' = [proc EXCEPT ![p] = r]
    BY <1>1 DEF RefundReadEscrow
  <2>2. r.pc = "refundExisting"
    BY DEF TypeOK, ProcsOK, Proc
  <2> HIDE DEF r
  <2>3. proc'[p].pc \notin Executing /\ \A q \in Procs \ {p} : proc'[q] = proc[q]
    BY <2>1, <2>2 DEF TypeOK, ProcsOK, Executing
  <2> QED BY <1>1, <2>3, MoveQuiet, QuietKeeps DEF RefundReadEscrow, rows
<1>2. CASE RefundReadExisting(p) \/ RefundClaim(p)
  <2>1. /\ proc[p].pc \in TaskPc /\ UNCHANGED <<refund, gateway>>
        /\ Return(p) \/ \E l \in TaskPc \ Executing : Goto(p, l)
    BY <1>2 DEF RefundReadExisting, RefundClaim, At, TaskPc, Executing, rows
  <2> QED BY <2>1, ReturnQuiet, GotoQuiet, QuietKeeps
<1> QED
  BY <1>1, <1>2, CreateKeeps, ExecuteKeeps, ProviderKeeps, ResultKeeps DEF RefundStep

-----------------------------------------------------------------------------
LEMMA RefundInvStep == TypeOK /\ RefundInv /\ [Next]_vars => RefundInv'
<1> SUFFICES ASSUME TypeOK, RefundInv, [Next]_vars PROVE RefundInv'
  OBVIOUS
<1>1. ASSUME NEW p \in Reqs, NEW t \in Tasks, Request(p, t) PROVE RefundInv'
  BY <1>1, RequestQuiet, QuietKeeps
<1>2. ASSUME NEW p \in Crons, CronStarts(p) PROVE RefundInv'
  BY <1>2, CronQuiet, QuietKeeps DEF Procs
<1>3. ASSUME NEW p \in Procs, Step(p) PROVE RefundInv'
  BY <1>3, TaskStepQuiet, PaymentStepQuiet, CronQuiet, OtherQuiet, QuietKeeps,
     RefundStepKeeps DEF Step
<1>4. ASSUME NEW p \in Procs, Fail(p) PROVE RefundInv'
  BY <1>4, OtherQuiet, QuietKeeps
<1>5. ASSUME NEW t \in Tasks, Environment(t) PROVE RefundInv'
  BY <1>5, EnvironmentQuiet, QuietKeeps
<1>6. CASE UNCHANGED vars
  BY <1>6, QuietKeeps DEF vars, Quiet
<1> QED
  BY <1>1, <1>2, <1>3, <1>4, <1>5, <1>6 DEF Next

LEMMA RefundInvInit == Init => RefundInv
BY IdleType
   DEF Init, LedgerInit, RefundInv, ExecutorClaimed, CompletesConfirmed, OneExecutor,
       RefundConfirmed, Executing, At

\* However many cancels, webhooks, sweeps and retries execute one refund, one
\* of them at a time is between the claim and the result (execute's CAS).
THEOREM OneExecutorAlways == Spec => []OneExecutor
<1>1. RefundInv => OneExecutor
  BY DEF RefundInv
<1> QED
  BY <1>1, TypeCorrect, RefundInvInit, RefundInvStep, PTL DEF Spec

\* A refund is COMPLETED only if the gateway paid back, with lost answers and
\* crashes at every await (RefundService.execute).
THEOREM CompletedWasPaidBack == Spec => []RefundConfirmed
<1>1. RefundInv => RefundConfirmed
  BY DEF RefundInv
<1> QED
  BY <1>1, TypeCorrect, RefundInvInit, RefundInvStep, PTL DEF Spec
=============================================================================
