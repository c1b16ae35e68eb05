------------------------------ MODULE Promise -------------------------------
(***************************************************************************)
(* The services implement Marketplace: Spec => KeepsPromise.  A step maps  *)
(* to an action of the promise only if its request still has the right to  *)
(* it, which its own guard does not show: a task is announced by whoever   *)
(* opened it, long after the commit, and hired for without a look at the   *)
(* payment.  PostInv says that an announcement to come is the only one of  *)
(* its task and that everything announced or begun has been paid.          *)
(* The second half shows that they also implement Transactions.            *)
(***************************************************************************)
EXTENDS MoneyFlow, FiniteSetTheorems

\* A task that left PENDING_PAYMENT because it was paid.
Posted(t) ==
    /\ task[t].status \notin {"NONE", "PENDING_PAYMENT"}
    /\ IF IsEscrow(t) THEN escrow[t].pay # 0 ELSE fee[t].status = "PAID"

PostSound(t) ==
    /\ IsEscrow(t) \/ task[t].status = "NONE" => fee[t].status = "NONE"
    /\ fee[t].pay # 0 <=> fee[t].status \in {"PAID", "REFUNDED"}
    /\ ~IsEscrow(t) /\ task[t].status \in Begun => fee[t].status = "PAID"
    /\ ~IsEscrow(t) /\ dispute[t] # "NONE" => fee[t].status = "PAID"
    /\ fee[t].status = "REFUNDED" => task[t].status = "CANCELLED"
    /\ announced[t] # 0 => announced[t] = 1 /\ Posted(t)

\* Who writes the fee or the task of a fee, and who announces.
Posting == Blind \cup {"createMoney", "feePaymentTx", "announce"}

\* What the request knew of the fee still holds, and it posts what is not posted.
Knows(p) ==
    /\ At(p, "createMoney") => fee[proc[p].t].status = "NONE"
    /\ proc[p].pc \in Blind /\ ~IsEscrow(proc[p].t) => fee[proc[p].t].status = "PAID"
    /\ At(p, "feePaymentTx") => fee[proc[p].t].status # "NONE" /\ proc[p].pay # 0
    /\ At(p, "announce") => Posted(proc[p].t) /\ announced[proc[p].t] = 0

OneAnnouncer ==
    \A p, q \in Procs :
        At(p, "announce") /\ At(q, "announce") /\ proc[p].t = proc[q].t => p = q

PostInv ==
    /\ \A t \in Tasks : PostSound(t)
    /\ \A p \in Procs : Knows(p)
    /\ OneAnnouncer

-----------------------------------------------------------------------------
(* Steps that undo nothing of what a request knew.                         *)

Lasts(t) ==
    /\ fee'[t].status = "NONE" <=> fee[t].status = "NONE"
    /\ fee[t].status = "PAID" => fee'[t].status = "PAID"
    /\ Posted(t) => Posted(t)'
    /\ announced'[t] = announced[t]

Good(t) == PostSound(t)' /\ Lasts(t)

LEMMA PostingPc == Posting \subseteq TaskPc /\ "idle" \notin Posting
BY DEF Posting, Blind, TaskPc

LEMMA NotPosting ==
    ASSUME NEW p \in Procs, proc'[p].pc \notin Posting
    PROVE  Knows(p)'
BY DEF Knows, Posting, At

LEMMA LastsKnown ==
    ASSUME TypeOK, NEW q \in Procs, Knows(q), proc'[q] = proc[q],
           proc[q].t \in Tasks => Lasts(proc[q].t)
    PROVE  Knows(q)'
<1>1. CASE proc[q].pc \notin Posting
  BY <1>1, NotPosting
<1>2. CASE proc[q].pc \in Posting
  <2>1. Lasts(proc[q].t)
    BY <1>2, PostingPc DEF TypeOK, ProcsOK
  <2> QED BY <2>1 DEF Knows, Lasts, At, IsEscrow
<1> QED
  BY <1>1, <1>2

LEMMA MovePosts ==
    ASSUME TypeOK, PostInv, NEW p \in Procs,
           \A q \in Procs \ {p} : proc'[q] = proc[q],
           \A t \in Tasks : Good(t),
           Knows(p)', proc'[p].pc # "announce"
    PROVE  PostInv'
<1>1. \A q \in Procs : Knows(q)'
  BY LastsKnown DEF PostInv, Good
<1>2. OneAnnouncer'
  BY DEF PostInv, OneAnnouncer, At
<1> QED
  BY <1>1, <1>2 DEF PostInv, Good

LEMMA ReturnPosts ==
    ASSUME TypeOK, PostInv, NEW p \in Procs, Return(p), \A t \in Tasks : Good(t)
    PROVE  PostInv'
<1>1. proc'[p].pc \notin Posting /\ \A q \in Procs \ {p} : proc'[q] = proc[q]
  BY ReturnEffect, PcDisjoint, PostingPc DEF TypeOK
<1>2. proc'[p].pc # "announce"
  BY <1>1 DEF Posting
<1> QED
  BY <1>1, <1>2, NotPosting, MovePosts

LEMMA GotoPosts ==
    ASSUME TypeOK, PostInv, NEW p \in Procs, NEW l \in TaskPc \ Posting, Goto(p, l),
           proc[p].pc \in TaskPc, \A t \in Tasks : Good(t)
    PROVE  PostInv'
<1>1. proc'[p].pc = l /\ \A q \in Procs \ {p} : proc'[q] = proc[q]
  BY GotoEffect DEF TypeOK
<1>2. proc'[p].pc # "announce"
  BY <1>1 DEF Posting
<1> QED
  BY <1>1, <1>2, NotPosting, MovePosts

\* Whoever opens a task is the first to announce it.
LEMMA OpenerPosts ==
    ASSUME TypeOK, PostInv, NEW p \in Procs, Goto(p, "announce"),
           proc[p].pc \in TaskPc, \A t \in Tasks : Good(t),
           task[proc[p].t].status = "PENDING_PAYMENT", Posted(proc[p].t)'
    PROVE  PostInv'
<1>1. /\ proc'[p].pc = "announce" /\ proc'[p].t = proc[p].t /\ proc[p].t \in Tasks
      /\ \A q \in Procs \ {p} : proc'[q] = proc[q]
  BY GotoEffect DEF TypeOK, ProcsOK, TaskPc
<1>2. ~Posted(proc[p].t)
  BY DEF Posted
<1>3. Knows(p)'
  BY <1>1, <1>2 DEF Knows, At, Blind, PostInv, PostSound, Good, Lasts
<1>4. \A q \in Procs : Knows(q)'
  BY <1>1, <1>3, LastsKnown DEF PostInv, Good
<1>5. \A q \in Procs \ {p} : ~(At(q, "announce") /\ proc[q].t = proc[p].t)
  BY <1>2 DEF PostInv, Knows
<1>6. OneAnnouncer'
  BY <1>1, <1>5 DEF PostInv, OneAnnouncer, At
<1> QED
  BY <1>4, <1>6 DEF PostInv, Good

\* A step that leaves fees and announcements alone: it cancels, or it moves
\* what has been paid for.
LEMMA RowGood ==
    ASSUME PostInv, NEW t \in Tasks, UNCHANGED <<fee, announced>>,
           escrow[t].pay # 0 => escrow'[t].pay # 0,
           dispute'[t] = "NONE" \/ dispute[t] # "NONE" \/ IsEscrow(t)
             \/ fee[t].status = "PAID",
           \/ task'[t].status = task[t].status
           \/ task'[t].status = "CANCELLED"
           \/ /\ task'[t].status \in Begun
              /\ IsEscrow(t) \/ fee[t].status = "PAID"
    PROVE  Good(t)
<1>1. PostSound(t)
  BY DEF PostInv
<1>2. Posted(t) => Posted(t)'
  BY DEF Posted, IsEscrow, Begun
<1> QED
  BY <1>1, <1>2 DEF Good, PostSound, Lasts, IsEscrow, Begun

LEMMA RowsGood ==
    ASSUME PostInv, UNCHANGED <<task, escrow, fee, dispute, announced>>
    PROVE  \A t \in Tasks : Good(t)
BY RowGood

-----------------------------------------------------------------------------
(* Requests.                                                               *)

LEMMA CreateTaskPosts ==
    ASSUME TypeOK, FundInv, PostInv, NEW p \in Reqs, NEW t \in Tasks, CreateTask(p, t)
    PROVE  PostInv'
<1>1. /\ p \in Procs /\ proc'[p].pc = "createMoney" /\ proc'[p].t = t
      /\ \A q \in Procs \ {p} : proc'[q] = proc[q]
  BY LedgerAssumption, BeginEffect
     DEF CreateTask, TypeOK, TaskPc, UserOrNull, Payments, LedgerAssumption
<1>2. /\ task[t].status = "NONE" /\ task'[t].status = "PENDING_PAYMENT"
      /\ \A u \in Tasks \ {t} : task'[u] = task[u]
      /\ UNCHANGED <<escrow, fee, dispute, announced>>
  BY DEF CreateTask, TypeOK, RowsOK, TaskRow
<1>3. ASSUME NEW u \in Tasks PROVE Good(u)
  <2>1. PostSound(u) /\ PostSound(t)
    BY DEF PostInv
  <2>2. CASE u = t
    BY <1>2, <2>1, <2>2 DEF Good, PostSound, Lasts, Posted, IsEscrow, Begun
  <2>3. CASE u # t
    BY <1>2, <2>1, <2>3 DEF Good, PostSound, Lasts, Posted, IsEscrow
  <2> QED BY <2>2, <2>3
<1>4. Knows(p)'
  BY <1>1, <1>2 DEF PostInv, PostSound, Knows, At, Blind
<1> QED
  BY <1>1, <1>3, <1>4, MovePosts

LEMMA RequestPosts ==
    ASSUME TypeOK, FundInv, PostInv, NEW p \in Reqs, NEW t \in Tasks, Request(p, t),
           ~CreateTask(p, t)
    PROVE  PostInv'
<1>1. NoUser \in UserOrNull /\ task[t].doer \in UserOrNull /\ Users \subseteq UserOrNull
      /\ 0 \in Payments
  BY LedgerAssumption DEF LedgerAssumption, TypeOK, RowsOK, TaskRow, UserOrNull, Payments
<1>2. UNCHANGED rows
  BY DEF Request, TaskRequest, MarkStarted, MarkComplete, Confirm,
         ForceCancel, Accept, Cancel, RaiseDispute, PaymentRequest, InitiatePayment,
         Webhook, AdminRequest, InitiateEscrowRefund, RetryRefund
<1>3. \A u \in Tasks : Good(u)
  BY <1>2, RowsGood DEF rows
<1>4. ASSUME NEW l \in TaskPc, NEW who \in UserOrNull, NEW pay \in Payments,
             Begin(p, l, t, who, pay), l \notin Posting
      PROVE  PostInv'
  <2>1. p \in Procs /\ proc'[p].pc = l /\ \A q \in Procs \ {p} : proc'[q] = proc[q]
    BY <1>4, BeginEffect DEF TypeOK
  <2>2. proc'[p].pc # "announce"
    BY <1>4, <2>1 DEF Posting
  <2> QED BY <1>3, <1>4, <2>1, <2>2, NotPosting, MovePosts
\* Written blindly, on a snapshot in which the task had begun.
<1>5. ASSUME NEW l \in Blind, Begin(p, l, t, NoUser, 0), task[t].status \in Begun
      PROVE  PostInv'
  <2>1. /\ p \in Procs /\ proc'[p].pc = l /\ proc'[p].t = t
        /\ \A q \in Procs \ {p} : proc'[q] = proc[q]
    BY <1>1, <1>5, BeginEffect DEF TypeOK, Blind, TaskPc
  <2>2. l \notin {"createMoney", "feePaymentTx", "announce"}
    BY DEF Blind
  <2>3. Knows(p)'
    BY <1>2, <1>5, <2>1, <2>2 DEF PostInv, PostSound, Knows, At, IsEscrow, rows
  <2> QED BY <1>3, <2>1, <2>2, <2>3, MovePosts
<1>6. CASE TaskRequest(p, t)
  <2>1. ASSUME NEW l \in {"acceptEscrow", "acceptWrite", "confirmEscrow", "confirmCash",
                          "cancelTx"},
               NEW who \in UserOrNull, Begin(p, l, t, who, 0)
        PROVE  PostInv'
    BY <1>1, <1>4, <2>1 DEF TaskPc, Posting, Blind
  <2> QED
    BY <1>1, <1>5, <1>6, <2>1
       DEF TaskRequest, MarkStarted, MarkComplete, Confirm, ForceCancel, Accept, Cancel,
           RaiseDispute, Blind, Begun
<1>7. CASE InitiatePayment(p, t) \/ AdminRequest(p, t)
  BY <1>1, <1>4, <1>7
     DEF InitiatePayment, AdminRequest, InitiateEscrowRefund, RetryRefund,
         TaskPc, Posting, Blind
<1>8. CASE \E pay \in Payments : Webhook(p, t, pay)
  <2>1. PICK pay \in Payments : Webhook(p, t, pay)
    BY <1>8
  <2>2. CASE Begin(p, "escrowPaymentTx", t, NoUser, pay)
    BY <1>1, <1>4, <2>2 DEF TaskPc, Posting, Blind
  <2>3. CASE Begin(p, "feePaymentTx", t, NoUser, pay) /\ fee[t].status = "PENDING"
    <3>1. /\ p \in Procs /\ proc'[p].pc = "feePaymentTx" /\ proc'[p].t = t
          /\ proc'[p].pay = pay
          /\ \A q \in Procs \ {p} : proc'[q] = proc[q]
      BY <1>1, <2>3, BeginEffect DEF TypeOK, TaskPc
    <3>2. gateway[t].charges \in Int
      BY LedgerAssumption DEF LedgerAssumption, TypeOK, RowsOK, GatewayOrder, Payments
    <3>3. pay # 0
      BY <2>1, <3>2 DEF Webhook
    <3>4. Knows(p)'
      BY <1>2, <2>3, <3>1, <3>3 DEF Knows, At, Blind, rows
    <3> QED BY <1>3, <3>1, <3>4, MovePosts
  <2> QED BY <2>1, <2>2, <2>3 DEF Webhook
<1> QED
  BY <1>6, <1>7, <1>8 DEF Request, PaymentRequest

-----------------------------------------------------------------------------
(* The steps of TasksService.                                              *)

LEMMA CreateMoneyPosts ==
    ASSUME TypeOK, FundInv, PostInv, NEW p \in Procs, CreateMoney(p)
    PROVE  PostInv'
<1> DEFINE t == proc[p].t
<1>1. /\ At(p, "createMoney") /\ t \in Tasks /\ fee[t].status = "NONE"
      /\ task[t].status # "NONE"
      /\ UNCHANGED <<task, dispute, announced>>
  BY DEF CreateMoney, At, TaskPc, TypeOK, ProcsOK, FundInv, Justified, PostInv, Knows
<1>2. proc'[p].pc \notin Posting /\ \A q \in Procs \ {p} : proc'[q] = proc[q]
  BY ReturnEffect, PcDisjoint, PostingPc DEF CreateMoney, TypeOK
<1>3. /\ \A u \in Tasks \ {t} : fee'[u] = fee[u]
      /\ fee'[t].pay = fee[t].pay
      /\ fee'[t].status = IF IsEscrow(t) THEN "NONE" ELSE "PENDING"
      /\ \A u \in Tasks : escrow'[u].pay = escrow[u].pay
  <2>1. fee \in [Tasks -> FeeRow] /\ escrow \in [Tasks -> EscrowRow]
    BY DEF TypeOK, RowsOK
  <2>2. CASE IsEscrow(t)
    BY <1>1, <2>1, <2>2 DEF CreateMoney, EscrowRow
  <2>3. CASE ~IsEscrow(t)
    BY <1>1, <2>1, <2>3 DEF CreateMoney, FeeRow
  <2> QED BY <2>2, <2>3
<1>4. ASSUME NEW u \in Tasks
      PROVE  PostSound(u)' /\ (u # t => Lasts(u)) /\ (Posted(u) => Posted(u)')
  <2>1. PostSound(u)
    BY DEF PostInv
  <2>2. CASE u = t
    BY <1>1, <1>3, <2>1, <2>2 DEF PostSound, Posted, IsEscrow, Begun
  <2>3. CASE u # t
    BY <1>1, <1>3, <2>1, <2>3 DEF PostSound, Posted, Lasts, IsEscrow
  <2> QED BY <2>2, <2>3
<1>5. ASSUME NEW q \in Procs \ {p} PROVE Knows(q)'
  <2>1. CASE proc[q].t # t
    BY <1>2, <1>4, <2>1, LastsKnown DEF PostInv
  <2>2. CASE proc[q].t = t
    <3>1. Knows(q) /\ proc'[q] = proc[q] /\ ~At(q, "createMoney")
      BY <1>1, <1>2, <2>2 DEF PostInv, FundInv, OneCreator
    <3> QED
      BY <1>1, <1>3, <1>4, <2>2, <3>1 DEF Knows, At, IsEscrow
  <2> QED BY <2>1, <2>2
<1>6. Knows(p)' /\ proc'[p].pc # "announce"
  BY <1>2, NotPosting DEF Posting
<1>7. OneAnnouncer'
  BY <1>2, <1>6 DEF PostInv, OneAnnouncer, At
<1> QED
  BY <1>4, <1>5, <1>6, <1>7 DEF PostInv

LEMMA TaskStepGood ==
    ASSUME TypeOK, PostInv, NEW p \in Procs, TaskStep(p), ~CreateMoney(p), NEW t \in Tasks
    PROVE  Good(t)
<1> DEFINE u == proc[p].t
<1>1. task \in [Tasks -> TaskRow] /\ escrow \in [Tasks -> EscrowRow]
      /\ dispute \in [Tasks -> DisputeStatus]
  BY DEF TypeOK, RowsOK
<1>2. u \in Tasks /\ Knows(p) /\ PostSound(t) /\ UNCHANGED <<fee, announced>>
  BY DEF TaskStep, AcceptEscrow, AcceptWrite, StartWrite, CompleteWrite, PostInv,
         ConfirmEscrow, ConfirmCash, ReleaseEscrow, CancelTx, CancelEscrow, DisputeTx,
         At, TaskPc, TypeOK, ProcsOK, rows
<1>3. ASSUME UNCHANGED <<escrow, dispute>>,
             \/ task'[t].status = task[t].status
             \/ /\ task'[t].status \in Begun
                /\ IsEscrow(t) \/ fee[t].status = "PAID"
      PROVE  Good(t)
  BY <1>2, <1>3, RowGood
<1>4. CASE AcceptEscrow(p) \/ ConfirmEscrow(p) \/ CancelEscrow(p)
  BY <1>3, <1>4 DEF AcceptEscrow, ConfirmEscrow, CancelEscrow, rows
<1>5. CASE AcceptWrite(p)
  <2>1. \/ task'[t] = task[t]
        \/ task[t].status = "OPEN" /\ task'[t].status = "ASSIGNED"
    BY <1>5, AcceptWriteEffect
  <2> QED BY <1>2, <1>3, <1>5, <2>1 DEF AcceptWrite, PostSound, Begun
<1>6. CASE StartWrite(p) \/ CompleteWrite(p)
  <2>1. IsEscrow(u) \/ fee[u].status = "PAID"
    BY <1>2, <1>6 DEF StartWrite, CompleteWrite, Knows, At, Blind
  <2>2. \/ task'[t].status = task[t].status
        \/ t = u /\ task'[t].status \in {"IN_PROGRESS", "COMPLETED"}
    <3>1. CASE StartWrite(p)
      BY <1>1, <3>1 DEF StartWrite, TaskRow
    <3>2. CASE CompleteWrite(p)
      BY <3>2, CompleteWriteEffect
    <3> QED BY <1>6, <3>1, <3>2
  <2> QED BY <1>3, <1>6, <2>1, <2>2 DEF StartWrite, CompleteWrite, Begun
<1>7. CASE ConfirmCash(p)
  <2>1. task'[t].status = task[t].status
    BY <1>1, <1>7 DEF ConfirmCash, TaskRow
  <2> QED BY <1>3, <1>7, <2>1 DEF ConfirmCash
<1>8. CASE ReleaseEscrow(p)
  <2>1. task'[t].status = task[t].status /\ dispute' = dispute
    BY <1>1, <1>8 DEF ReleaseEscrow, TaskRow
  <2>2. escrow'[t].pay = escrow[t].pay
    BY <1>8, ReleaseEffect
  <2> QED BY <1>2, <2>1, <2>2, RowGood
<1>9. CASE CancelTx(p)
  <2>1. task'[t].status \in {task[t].status, "CANCELLED"} /\ dispute' = dispute
    BY <1>1, <1>9 DEF CancelTx, TaskRow
  <2>2. escrow'[t].pay = escrow[t].pay
    BY <1>1, <1>9 DEF CancelTx, EscrowRow
  <2> QED BY <1>2, <2>1, <2>2, RowGood
<1>10. CASE DisputeTx(p)
  <2>1. IsEscrow(u) \/ fee[u].status = "PAID"
    BY <1>2, <1>10 DEF DisputeTx, Knows, At, Blind
  <2>2. escrow'[t].pay = escrow[t].pay
    BY <1>1, <1>10 DEF DisputeTx, EscrowRow
  <2>3. \/ task'[t].status = task[t].status /\ dispute'[t] = dispute[t]
        \/ t = u /\ task'[t].status = "DISPUTED"
    BY <1>1, <1>10 DEF DisputeTx, TaskRow
  <2> QED BY <1>2, <2>1, <2>2, <2>3, RowGood DEF Begun
<1> QED
  BY <1>4, <1>5, <1>6, <1>7, <1>8, <1>9, <1>10 DEF TaskStep

LEMMA TaskStepPosts ==
    ASSUME TypeOK, FundInv, PostInv, NEW p \in Procs, TaskStep(p)
    PROVE  PostInv'
<1>1. CASE CreateMoney(p)
  BY <1>1, CreateMoneyPosts
<1>2. CASE ~CreateMoney(p)
  <2>1. \A t \in Tasks : Good(t)
    BY <1>2, TaskStepGood
  <2>2. proc[p].pc \in TaskPc
    BY <1>2 DEF TaskStep, AcceptEscrow, AcceptWrite, StartWrite, CompleteWrite,
           ConfirmEscrow, ConfirmCash, ReleaseEscrow, CancelTx, CancelEscrow, DisputeTx,
           At, TaskPc
  <2>3. Return(p) \/ \E l \in TaskPc \ Posting : Goto(p, l)
    BY <1>2 DEF TaskStep, AcceptEscrow, AcceptWrite, StartWrite, CompleteWrite,
           ConfirmEscrow, ConfirmCash, ReleaseEscrow, CancelTx, CancelEscrow, DisputeTx,
           TaskPc, Posting, Blind
  <2> QED BY <2>1, <2>2, <2>3, ReturnPosts, GotoPosts
<1> QED
  BY <1>1, <1>2

-----------------------------------------------------------------------------
(* The steps of PaymentsService.                                           *)

LEMMA EscrowPaymentPosts ==
    ASSUME TypeOK, FundInv, PostInv, NEW p \in Procs, EscrowPaymentTx(p)
    PROVE  PostInv'
<1> DEFINE u == proc[p].t
<1>1. /\ u \in Tasks /\ proc[p].pc \in TaskPc
      /\ escrow[u].status # "NONE" /\ proc[p].pay # 0 /\ IsEscrow(u)
      /\ UNCHANGED <<fee, dispute, announced>>
  BY DEF EscrowPaymentTx, At, TaskPc, TypeOK, ProcsOK, FundInv, Justified, RowSound
<1>2. ASSUME NEW t \in Tasks
      PROVE  /\ escrow[t].pay # 0 => escrow'[t].pay # 0
             /\ \/ task'[t].status = task[t].status
                \/ t = u /\ task'[t].status = "OPEN"
  <2>1. escrow[t].pay # 0 => escrow'[t].pay # 0
    BY <1>1, EscrowPaymentEffect
  <2>2. task' \in {task, [task EXCEPT ![u].status = "OPEN"]}
    BY DEF EscrowPaymentTx
  <2> QED BY <1>1, <2>1, <2>2 DEF TypeOK, RowsOK, TaskRow
<1>3. \A t \in Tasks : Good(t)
  BY <1>1, <1>2, RowGood DEF Begun
<1>4. CASE task[u].status = "PENDING_PAYMENT"
  <2>1. escrow'[u].pay # 0
    <3>1. CASE escrow[u].status = "PENDING"
      BY <1>1, <3>1 DEF EscrowPaymentTx, TypeOK, RowsOK, EscrowRow
    <3>2. CASE escrow[u].status # "PENDING"
      BY <1>1, <1>2, <3>2 DEF FundInv, RowSound, Funded
    <3> QED BY <3>1, <3>2
  <2>2. task'[u].status = "OPEN"
    <3>1. task' = [task EXCEPT ![u].status = "OPEN"]
      BY <1>4 DEF EscrowPaymentTx
    <3> QED BY <1>1, <3>1 DEF TypeOK, RowsOK, TaskRow
  <2>3. Goto(p, "announce") /\ proc'[p].t = u
    BY <1>1, <1>4, GotoEffect DEF EscrowPaymentTx, TypeOK, TaskPc
  <2>4. Posted(u)'
    BY <1>1, <2>1, <2>2, <2>3 DEF Posted, IsEscrow
  <2> QED BY <1>1, <1>3, <1>4, <2>3, <2>4, OpenerPosts
<1>5. CASE task[u].status # "PENDING_PAYMENT"
  <2>1. Return(p) \/ Goto(p, "refundFind")
    BY <1>5 DEF EscrowPaymentTx
  <2> QED BY <1>1, <1>3, <2>1, ReturnPosts, GotoPosts DEF TaskPc, Posting, Blind
<1> QED
  BY <1>4, <1>5

LEMMA FeePaymentPosts ==
    ASSUME TypeOK, FundInv, PostInv, NEW p \in Procs, FeePaymentTx(p)
    PROVE  PostInv'
<1> DEFINE u == proc[p].t
<1>1. /\ u \in Tasks /\ proc[p].pc \in TaskPc
      /\ fee[u].status # "NONE" /\ proc[p].pay # 0 /\ ~IsEscrow(u)
      /\ UNCHANGED <<escrow, dispute, announced>>
  BY DEF FeePaymentTx, At, TaskPc, TypeOK, ProcsOK, FundInv, Justified, PostInv, Knows
<1>2. /\ task[u].status = "PENDING_PAYMENT" => task'[u].status = "OPEN"
      /\ task[u].status # "PENDING_PAYMENT" => task'[u].status = task[u].status
      /\ \A t \in Tasks \ {u} : task'[t] = task[t] /\ fee'[t] = fee[t]
  BY ZenonT(40), <1>1 DEF FeePaymentTx, TypeOK, RowsOK, TaskRow, FeeRow
<1>3. \/ fee[u].status # "PENDING" /\ fee'[u] = fee[u]
      \/ /\ fee[u].status = "PENDING" /\ fee'[u].pay # 0
         /\ fee'[u].status = IF task[u].status = "CANCELLED" THEN "REFUNDED" ELSE "PAID"
  BY <1>1 DEF FeePaymentTx, TypeOK, RowsOK, FeeRow
<1>4. task[u].status = "PENDING_PAYMENT" => fee'[u].status = "PAID"
  BY <1>1, <1>3 DEF PostInv, PostSound, TypeOK, RowsOK, FeeRow, FeeStatus
<1>5. ASSUME NEW t \in Tasks PROVE Good(t)
  <2>1. PostSound(t)
    BY DEF PostInv
  <2>2. CASE t # u
    BY <1>1, <1>2, <2>1, <2>2 DEF Good, PostSound, Lasts, Posted, IsEscrow
  <2>3. CASE t = u /\ fee[u].status # "PENDING"
    BY <1>1, <1>2, <1>3, <1>4, <2>1, <2>3
       DEF Good, PostSound, Lasts, Posted, IsEscrow, Begun
  <2>4. CASE t = u /\ fee[u].status = "PENDING"
    <3>1. /\ announced[u] = 0 /\ ~Posted(u) /\ dispute[u] = "NONE"
          /\ task[u].status \notin Begun \cup {"NONE"}
      BY <1>1, <2>1, <2>4 DEF PostSound, Posted
    <3>2. fee'[u].pay # 0 /\ fee'[u].status \in {"PAID", "REFUNDED"}
      BY <1>3, <2>4
    <3>3. fee'[u].status = "REFUNDED" => task'[u].status = "CANCELLED"
      BY <1>2, <1>3, <2>4
    <3>4. task'[u].status \in Begun => fee'[u].status = "PAID"
      BY <1>2, <1>4, <3>1
    <3>5. task'[u].status # "NONE"
      BY <1>2, <3>1
    <3> QED
      BY <1>1, <2>4, <3>1, <3>2, <3>3, <3>4, <3>5 DEF Good, PostSound, Lasts, IsEscrow
  <2> QED BY <2>2, <2>3, <2>4
<1>6. CASE task[u].status = "PENDING_PAYMENT"
  <2>1. Goto(p, "announce") /\ proc'[p].t = u
    BY <1>1, <1>6, GotoEffect DEF FeePaymentTx, TypeOK, TaskPc
  <2>2. Posted(u)'
    BY <1>1, <1>2, <1>4, <1>6, <2>1 DEF Posted, IsEscrow
  <2> QED BY <1>1, <1>5, <1>6, <2>1, <2>2, OpenerPosts
<1>7. CASE task[u].status # "PENDING_PAYMENT"
  BY <1>5, <1>7, ReturnPosts DEF FeePaymentTx
<1> QED
  BY <1>6, <1>7

\* Who announces is alone in it, so it comes to one.
LEMMA AnnouncePosts ==
    ASSUME TypeOK, PostInv, NEW p \in Procs, Announce(p)
    PROVE  PostInv'
<1> DEFINE u == proc[p].t
<1>1. /\ u \in Tasks /\ At(p, "announce") /\ Posted(u) /\ announced[u] = 0
      /\ UNCHANGED <<task, escrow, fee, dispute>>
  BY DEF Announce, At, TaskPc, TypeOK, ProcsOK, PostInv, Knows
<1>2. announced'[u] = 1 /\ \A t \in Tasks \ {u} : announced'[t] = announced[t]
  BY <1>1 DEF Announce, TypeOK, RowsOK
<1>3. proc'[p].pc \notin Posting /\ \A q \in Procs \ {p} : proc'[q] = proc[q]
  BY ReturnEffect, PcDisjoint, PostingPc DEF Announce, TypeOK
<1>4. ASSUME NEW t \in Tasks PROVE PostSound(t)' /\ (t # u => Lasts(t))
  BY <1>1, <1>2 DEF PostInv, PostSound, Lasts, Posted, IsEscrow
<1>5. ASSUME NEW q \in Procs \ {p} PROVE Knows(q)'
  <2>1. CASE proc[q].t # u
    BY <1>3, <1>4, <2>1, LastsKnown DEF PostInv
  <2>2. CASE proc[q].t = u
    <3>1. Knows(q) /\ proc'[q] = proc[q] /\ ~At(q, "announce")
      BY <1>1, <1>3, <2>2 DEF PostInv, OneAnnouncer
    <3> QED BY <1>1, <2>2, <3>1 DEF Knows, At, IsEscrow
  <2> QED BY <2>1, <2>2
<1>6. Knows(p)' /\ proc'[p].pc # "announce"
  BY <1>3, NotPosting DEF Posting
<1>7. OneAnnouncer'
  BY <1>3, <1>6 DEF PostInv, OneAnnouncer, At
<1> QED
  BY <1>4, <1>5, <1>6, <1>7 DEF PostInv

LEMMA PaymentStepPosts ==
    ASSUME TypeOK, FundInv, PostInv, NEW p \in Procs, PaymentStep(p)
    PROVE  PostInv'
<1>1. CASE OrderWrite(p)
  BY <1>1, RowsGood, ReturnPosts DEF OrderWrite
<1> QED
  BY <1>1, EscrowPaymentPosts, FeePaymentPosts, AnnouncePosts DEF PaymentStep

-----------------------------------------------------------------------------
(* The other steps know nothing of fees.                                   *)

LEMMA RefundStepPosts ==
    ASSUME TypeOK, PostInv, NEW p \in Procs, RefundStep(p)
    PROVE  PostInv'
<1> DEFINE u == proc[p].t
<1>1. /\ proc[p].pc \in TaskPc /\ u \in Tasks /\ UNCHANGED <<task, fee, dispute, announced>>
      /\ escrow \in [Tasks -> EscrowRow]
  BY DEF RefundStep, RefundReadEscrow, RefundReadExisting, RefundClaim, RefundCreate,
         Execute, ProviderConfirms, ProviderRefuses, ProviderAnswerLost, RefundComplete,
         RefundFailed, At, TaskPc, TypeOK, RowsOK, ProcsOK, rows
<1>2. ASSUME NEW t \in Tasks PROVE Good(t)
  <2>1. escrow'[t].pay = escrow[t].pay
    BY <1>1 DEF RefundStep, RefundReadEscrow, RefundReadExisting, RefundClaim, RefundCreate,
         Execute, ProviderConfirms, ProviderRefuses, ProviderAnswerLost, RefundComplete,
         RefundFailed, rows, EscrowRow
  <2> QED BY <1>1, <2>1, RowGood
<1>3. CASE RefundReadEscrow(p)
  <2> DEFINE ok == /\ escrow[u].status \in REFUNDABLE_ESCROW_STATES
                   /\ escrow[u].pay # 0
             r == [proc[p] EXCEPT !.pc = "refundExisting", !.refundable = ok]
  <2>1. proc' = [proc EXCEPT ![p] = r]
    BY <1>3 DEF RefundReadEscrow
  <2>2. r.pc = "refundExisting" /\ "refundExisting" \notin Posting
    BY DEF TypeOK, ProcsOK, Proc, Posting, Blind
  <2> HIDE DEF r, ok
  <2>3. proc'[p].pc \notin Posting /\ \A q \in Procs \ {p} : proc'[q] = proc[q]
    BY <2>1, <2>2 DEF TypeOK, ProcsOK
  <2> QED BY <1>2, <2>3, NotPosting, MovePosts DEF Posting
<1>4. CASE ~RefundReadEscrow(p)
  <2>1. Return(p) \/ \E l \in TaskPc \ Posting : Goto(p, l)
    BY <1>4 DEF RefundStep, RefundReadExisting, RefundClaim, RefundCreate,
         Execute, ProviderConfirms, ProviderRefuses, ProviderAnswerLost, RefundComplete,
         RefundFailed, TaskPc, Posting, Blind
  <2> QED BY <1>1, <1>2, <2>1, ReturnPosts, GotoPosts
<1> QED
  BY <1>3, <1>4

LEMMA OtherStepPosts ==
    ASSUME TypeOK, PostInv, NEW p \in Procs,
           CronStarts(p) \/ CronStep(p) \/ PayoutStep(p) \/ Fail(p)
    PROVE  PostInv'
<1>1. \A t \in Tasks : Good(t)
  BY RowsGood
     DEF CronStarts, CronStep, ReconcileScan, AutoReleaseScan, AnomalyScan,
         ReconcileNext, AutoReleaseNext, SweepDone, PayoutStep, PayoutFind, PayoutCreate,
         PayoutUpdate, Fail, rows
<1>2. CASE CronStarts(p) \/ CronStep(p)
  <2>1. proc'[p].pc \notin Posting /\ \A q \in Procs \ {p} : proc'[q] = proc[q]
    BY <1>2, CronEffect, PcDisjoint, PostingPc DEF Posting, Blind
  <2> QED BY <1>1, <2>1, NotPosting, MovePosts DEF Posting
<1>3. CASE PayoutStep(p)
  <2>1. /\ proc[p].pc \in TaskPc
        /\ Return(p) \/ Goto(p, "payoutCreate") \/ Goto(p, "payoutUpdate")
    BY <1>3 DEF PayoutStep, PayoutFind, PayoutCreate, PayoutUpdate, At, TaskPc
  <2> QED BY <1>1, <2>1, ReturnPosts, GotoPosts DEF TaskPc, Posting, Blind
<1>4. CASE Return(p)
  BY <1>1, <1>4, ReturnPosts
<1>5. CASE proc' = [proc EXCEPT ![p] = Idle]
  <2>1. proc'[p].pc \notin Posting /\ \A q \in Procs \ {p} : proc'[q] = proc[q]
    BY <1>5, IdleType, PostingPc DEF TypeOK, ProcsOK
  <2> QED BY <1>1, <2>1, NotPosting, MovePosts DEF Posting
<1> QED
  BY <1>2, <1>3, <1>4, <1>5 DEF Fail

LEMMA EnvironmentPosts ==
    ASSUME TypeOK, PostInv, NEW u \in Tasks, Environment(u)
    PROVE  PostInv'
<1>1. task \in [Tasks -> TaskRow] /\ escrow \in [Tasks -> EscrowRow]
      /\ dispute \in [Tasks -> DisputeStatus]
  BY DEF TypeOK, RowsOK
<1>2. UNCHANGED <<proc, fee, announced>>
  BY DEF Environment, PosterPays, CompletionAges, AdminWrite, MarkPaid, ResolveDispute
<1>3. ASSUME NEW t \in Tasks PROVE Good(t)
  <2>1. escrow'[t].pay = escrow[t].pay
    BY <1>1 DEF Environment, PosterPays, CompletionAges, AdminWrite, MarkPaid,
                ResolveDispute, EscrowRow
  <2>2. \/ task'[t].status = task[t].status /\ dispute'[t] = dispute[t]
        \/ task'[t].status = "COMPLETED" /\ dispute[t] # "NONE"
    BY <1>1 DEF Environment, PosterPays, CompletionAges, AdminWrite, MarkPaid,
                ResolveDispute, TaskRow
  <2>3. dispute[t] # "NONE" => IsEscrow(t) \/ fee[t].status = "PAID"
    BY DEF PostInv, PostSound
  <2> QED BY <1>2, <2>1, <2>2, <2>3, RowGood DEF Begun
<1>4. \A q \in Procs : Knows(q)'
  BY <1>2, <1>3, LastsKnown DEF PostInv, Good
<1>5. OneAnnouncer'
  BY <1>2 DEF PostInv, OneAnnouncer, At
<1> QED
  BY <1>3, <1>4, <1>5 DEF PostInv, Good

LEMMA PostInvInit == Init => PostInv
<1> SUFFICES ASSUME Init PROVE PostInv
  OBVIOUS
<1>1. \A t \in Tasks : PostSound(t)
  BY DEF Init, LedgerInit, PostSound, Begun
<1>2. \A p \in Procs : proc[p].pc \notin Posting
  BY IdleType, PostingPc DEF Init, LedgerInit
<1> QED
  BY <1>1, <1>2 DEF PostInv, Knows, OneAnnouncer, At, Posting

LEMMA PostInvStep == TypeOK /\ FundInv /\ PostInv /\ [Next]_vars => PostInv'
<1> SUFFICES ASSUME TypeOK, FundInv, PostInv, [Next]_vars PROVE PostInv'
  OBVIOUS
<1>1. ASSUME NEW p \in Reqs, NEW t \in Tasks, Request(p, t) PROVE PostInv'
  BY <1>1, RequestPosts, CreateTaskPosts
<1>2. ASSUME NEW p \in Crons, CronStarts(p) PROVE PostInv'
  BY <1>2, OtherStepPosts DEF Procs
<1>3. ASSUME NEW p \in Procs, Step(p) \/ Fail(p) PROVE PostInv'
  BY <1>3, TaskStepPosts, PaymentStepPosts, RefundStepPosts, OtherStepPosts DEF Step
<1>4. ASSUME NEW t \in Tasks, Environment(t) PROVE PostInv'
  BY <1>4, EnvironmentPosts
<1>5. CASE UNCHANGED vars
  BY <1>5 DEF vars, PostInv, PostSound, Posted, Knows, OneAnnouncer, At, IsEscrow
<1> QED
  BY <1>1, <1>2, <1>3, <1>4, <1>5 DEF Next

LEMMA PromiseInvAlways == Spec => [](TypeOK /\ FundInv /\ ReleaseInv /\ PostInv)
<1>1. Spec => [](TypeOK /\ FundInv /\ ReleaseInv)
  BY TypeCorrect, FundInvAlways, ReleaseInvAlways, PTL
<1> QED
  BY <1>1, PostInvInit, PostInvStep, PTL DEF Spec

\* A fee is written off only on a task that was cancelled before it was paid,
\* and that nobody, in whatever order webhooks, cancels and blind writes
\* commit, announces or revives (applyPostingFeePayment).
THEOREM WrittenOffIsDead == Spec => []FeeWrittenOffIfDead
<1>1. PostInv => FeeWrittenOffIfDead
  BY DEF PostInv, PostSound, Posted, FeeWrittenOffIfDead, TypeOK
<1> QED
  BY <1>1, PromiseInvAlways, PTL

-----------------------------------------------------------------------------
(* The refinement: what each step is of the promise.                       *)

PaidFor(t) == escrow[t].pay # 0 \/ fee[t].pay # 0

Promised == TypeOK /\ FundInv /\ ReleaseInv /\ PostInv

\* What most steps leave alone.
Stutters ==
    /\ \A t \in Tasks : /\ PaidFor(t)' <=> PaidFor(t)
                        /\ task'[t].doer = task[t].doer
                        /\ escrow'[t].doer = escrow[t].doer
                        /\ gateway'[t].refunded = gateway[t].refunded
    /\ announced' = announced /\ jobs' = jobs

LEMMA StuttersPromise == Stutters => UNCHANGED Market!promise
BY DEF Stutters, PaidFor, Market!promise

\* A payment recorded: a task is funded, or it was before.
LEMMA RecordsFund ==
    ASSUME NEW u \in Tasks, PaidFor(u)',
           \A t \in Tasks \ {u} : PaidFor(t)' <=> PaidFor(t),
           \A t \in Tasks : /\ task'[t].doer = task[t].doer
                            /\ escrow'[t].doer = escrow[t].doer,
           UNCHANGED <<gateway, announced, jobs>>
    PROVE  [Market!MarketNext]_(Market!promise)
<1>1. CASE PaidFor(u)
  <2>1. Stutters
    BY <1>1 DEF Stutters
  <2> QED BY <2>1, StuttersPromise
<1>2. CASE ~PaidFor(u)
  <2>1. Market!Fund(u)
    BY <1>2 DEF Market!Fund, PaidFor
  <2> QED BY <2>1 DEF Market!MarketNext
<1> QED
  BY <1>1, <1>2

LEMMA BegunIsPaid ==
    ASSUME Promised, NEW t \in Tasks, task[t].status \in Begun
    PROVE  PaidFor(t)
BY DEF Promised, FundInv, RowSound, Funded, PostInv, PostSound, PaidFor

LEMMA HireRefines ==
    ASSUME Promised, NEW p \in Procs, AcceptWrite(p)
    PROVE  [Market!MarketNext]_(Market!promise)
<1>0. PICK u \in Tasks, w \in UserOrNull : u = proc[p].t /\ w = proc[p].who
  BY DEF AcceptWrite, At, TaskPc, Promised, TypeOK, ProcsOK, Proc
<1>1. /\ task \in [Tasks -> TaskRow]
      /\ UNCHANGED <<escrow, fee, gateway, announced, jobs>>
  BY DEF AcceptWrite, Promised, TypeOK, RowsOK
<1>2. CASE task[u].status = "OPEN" /\ task[u].doer = NoUser /\ w # NoUser
  <2>1. task' = [task EXCEPT ![u].status = "ASSIGNED", ![u].doer = w]
    BY <1>0, <1>2 DEF AcceptWrite
  <2>2. PaidFor(u)
    BY <1>1, <1>2, BegunIsPaid DEF Begun
  <2>3. w \in Users
    BY <1>1, <1>2 DEF UserOrNull
  <2>4. \A t \in Tasks : task'[t].doer = IF t = u THEN w ELSE task[t].doer
    BY <1>0, <1>1, <1>2, AcceptWriteEffect, <2>1 DEF Promised, TaskRow
  <2>5. Market!Hire(u, w)
    BY <1>1, <1>2, <2>2, <2>4 DEF Market!Hire, PaidFor
  <2> QED BY <2>3, <2>5 DEF Market!MarketNext
<1>3. CASE ~(task[u].status = "OPEN" /\ task[u].doer = NoUser /\ w # NoUser)
  <2>1. \A t \in Tasks : task'[t].doer = task[t].doer
    BY <1>0, <1>3, AcceptWriteEffect DEF Promised
  <2>2. Stutters
    BY <1>1, <2>1 DEF Stutters, PaidFor
  <2> QED BY <2>2, StuttersPromise
<1> QED
  BY <1>2, <1>3

LEMMA ReleaseRefines ==
    ASSUME Promised, NEW p \in Procs, ReleaseEscrow(p)
    PROVE  [Market!MarketNext]_(Market!promise)
<1>0. PICK u \in Tasks, w \in UserOrNull : u = proc[p].t /\ w = proc[p].who
  BY DEF ReleaseEscrow, At, TaskPc, Promised, TypeOK, ProcsOK, Proc
<1> DEFINE won == escrow[u].status = "HELD" /\ w # NoUser
<1>1. /\ w # NoUser => w = task[u].doer
      /\ CreditSound(u)
      /\ UNCHANGED <<fee, gateway, announced>>
  BY <1>0 DEF ReleaseEscrow, At, Promised, ReleaseInv, ActsForDoer, Releasing
<1>2. \A t \in Tasks : task'[t].doer = task[t].doer
  BY <1>0 DEF ReleaseEscrow, Promised, TypeOK, RowsOK, TaskRow
<1>3. \A t \in Tasks : escrow'[t].pay = escrow[t].pay
  BY ReleaseEffect DEF Promised
<1>4. \A t \in Tasks : PaidFor(t)' <=> PaidFor(t)
  BY <1>1, <1>3 DEF PaidFor
<1>5. CASE ~won
  <2>1. jobs' = jobs
    BY <1>0, <1>5 DEF ReleaseEscrow
  <2>2. \A t \in Tasks : escrow'[t].doer = escrow[t].doer
    BY <1>0, <1>5, ReleaseEffect DEF Promised
  <2>3. Stutters
    BY <1>1, <1>2, <1>4, <2>1, <2>2 DEF Stutters
  <2> QED BY <2>3, StuttersPromise
<1>6. CASE won
  <2>1. /\ jobs' = [jobs EXCEPT ![w] = @ + 1]
        /\ w = task[u].doer /\ escrow[u].doer = NoUser
    BY <1>0, <1>1, <1>6 DEF ReleaseEscrow, CreditSound
  <2>2. escrow' = [escrow EXCEPT ![u].status = "RELEASED", ![u].doer = w]
    BY <1>0, <1>6 DEF ReleaseEscrow
  <2>3. \A t \in Tasks : escrow'[t].doer = IF t = u THEN w ELSE escrow[t].doer
    BY <2>2 DEF Promised, TypeOK, RowsOK, EscrowRow
  <2>4. Market!Credit(u)
    BY <1>1, <1>2, <1>4, <1>6, <2>1, <2>3 DEF Market!Credit, PaidFor
  <2> QED BY <2>4 DEF Market!MarketNext
<1> QED
  BY <1>5, <1>6

LEMMA AnnounceRefines ==
    ASSUME Promised, NEW p \in Procs, Announce(p)
    PROVE  [Market!MarketNext]_(Market!promise)
<1>0. PICK u \in Tasks : u = proc[p].t
  BY DEF Announce, At, TaskPc, Promised, TypeOK, ProcsOK
<1>1. /\ Posted(u) /\ announced[u] = 0 /\ PostSound(u)
      /\ UNCHANGED <<task, escrow, fee, gateway, jobs>>
  BY <1>0 DEF Announce, Promised, PostInv, Knows
<1>2. PaidFor(u)
  BY <1>1 DEF Posted, PostSound, PaidFor
<1>3. announced' = [announced EXCEPT ![u] = 1]
  BY <1>0, <1>1 DEF Announce
<1>4. Market!Post(u)
  BY <1>1, <1>2, <1>3 DEF Market!Post, PaidFor
<1> QED
  BY <1>4 DEF Market!MarketNext

LEMMA GiveBackRefines ==
    ASSUME Promised, NEW p \in Procs, ProviderConfirms(p) \/ ProviderAnswerLost(p)
    PROVE  [Market!MarketNext]_(Market!promise)
<1>0. PICK u \in Tasks : u = proc[p].t
  BY DEF ProviderConfirms, ProviderAnswerLost, At, TaskPc, Promised, TypeOK, ProcsOK
<1>1. /\ Funded(u) /\ RowSound(u) /\ ~gateway[u].refunded
      /\ UNCHANGED <<task, escrow, fee, announced, jobs>>
  BY <1>0 DEF ProviderConfirms, ProviderAnswerLost, At, Promised,
              FundInv, Justified, Refunding, Executing
<1>2. PaidFor(u)
  BY <1>1 DEF RowSound, PaidFor
<1>3. gateway' = [gateway EXCEPT ![u].refunded = TRUE]
  BY <1>0 DEF ProviderConfirms, ProviderAnswerLost
<1>4. \A t \in Tasks : gateway'[t].refunded = (t = u \/ gateway[t].refunded)
  BY <1>3 DEF Promised, TypeOK, RowsOK, GatewayOrder
<1>5. Market!GiveBack(u)
  BY <1>1, <1>2, <1>4 DEF Market!GiveBack, PaidFor
<1> QED
  BY <1>5 DEF Market!MarketNext

LEMMA PaymentRefines ==
    ASSUME Promised, NEW p \in Procs, PaymentStep(p)
    PROVE  [Market!MarketNext]_(Market!promise)
<1>0. PICK u \in Tasks : u = proc[p].t
  BY DEF PaymentStep, OrderWrite, EscrowPaymentTx, FeePaymentTx, Announce, At, TaskPc,
         Promised, TypeOK, ProcsOK
<1>1. /\ task \in [Tasks -> TaskRow] /\ fee \in [Tasks -> FeeRow]
      /\ gateway \in [Tasks -> GatewayOrder]
  BY DEF Promised, TypeOK, RowsOK
<1>2. CASE OrderWrite(p)
  <2>1. \A t \in Tasks : gateway'[t].refunded = gateway[t].refunded
    BY <1>1, <1>2 DEF OrderWrite, GatewayOrder
  <2>2. Stutters
    BY <1>2, <2>1 DEF OrderWrite, Stutters, PaidFor
  <2> QED BY <2>2, StuttersPromise
\* A payment transaction opens the task at most.
<1>3. ASSUME task' \in {task, [task EXCEPT ![u].status = "OPEN"]}, NEW t \in Tasks
      PROVE  task'[t].doer = task[t].doer
  BY <1>1, <1>3 DEF TaskRow
<1>4. CASE EscrowPaymentTx(p)
  <2>1. \A t \in Tasks : task'[t].doer = task[t].doer
    BY <1>0, <1>3, <1>4 DEF EscrowPaymentTx
  <2>2. /\ UNCHANGED <<fee, gateway, announced, jobs>>
        /\ escrow[u].status # "NONE" /\ proc[p].pay # 0
        /\ RowSound(u)
    BY <1>0, <1>4 DEF EscrowPaymentTx, Promised, FundInv, Justified
  <2>3. \A t \in Tasks :
            \/ escrow'[t] = escrow[t]
            \/ t = u /\ escrow'[t].pay = proc[p].pay /\ escrow'[t].doer = escrow[t].doer
    BY <1>0, <1>4, EscrowPaymentEffect DEF Promised
  <2>4. escrow'[u].pay # 0
    <3>1. CASE escrow[u].status = "PENDING"
      BY <1>0, <1>4, <2>2, <3>1 DEF EscrowPaymentTx, Promised, TypeOK, RowsOK, EscrowRow
    <3>2. CASE escrow[u].status # "PENDING"
      BY <2>2, <2>3, <3>2 DEF RowSound, Funded
    <3> QED BY <3>1, <3>2
  <2> QED BY <2>1, <2>2, <2>3, <2>4, RecordsFund DEF PaidFor
<1>5. CASE FeePaymentTx(p)
  <2>1. \A t \in Tasks : task'[t].doer = task[t].doer
    BY <1>0, <1>3, <1>5 DEF FeePaymentTx
  <2>2. /\ UNCHANGED <<escrow, gateway, announced, jobs>>
        /\ fee[u].status # "NONE" /\ proc[p].pay # 0
        /\ PostSound(u)
    BY <1>0, <1>5 DEF FeePaymentTx, At, Promised, PostInv, Knows
  <2>3. /\ \A t \in Tasks \ {u} : fee'[t] = fee[t]
        /\ fee[u].status = "PENDING" => fee'[u].pay = proc[p].pay
        /\ fee[u].status # "PENDING" => fee'[u] = fee[u]
    BY <1>0, <1>1, <1>5 DEF FeePaymentTx, FeeRow
  <2>4. fee'[u].pay # 0
    BY <1>1, <2>2, <2>3 DEF PostSound, FeeRow, FeeStatus
  <2> QED BY <2>1, <2>2, <2>3, <2>4, RecordsFund DEF PaidFor
<1> QED
  BY <1>2, <1>4, <1>5, AnnounceRefines DEF PaymentStep

LEMMA TaskStepRefines ==
    ASSUME Promised, NEW p \in Procs, TaskStep(p)
    PROVE  [Market!MarketNext]_(Market!promise)
<1>1. CASE ~AcceptWrite(p) /\ ~ReleaseEscrow(p)
  <2>1. /\ \A t \in Tasks : Idles(t)
        /\ UNCHANGED <<gateway, announced, jobs>>
    BY <1>1, TaskStepIdles
       DEF Promised, TaskStep, CreateMoney, AcceptEscrow, StartWrite, CompleteWrite,
           ConfirmEscrow, ConfirmCash, CancelTx, CancelEscrow, DisputeTx, rows
  <2>2. ASSUME NEW t \in Tasks PROVE task'[t].doer = task[t].doer
    <3>1. task \in [Tasks -> TaskRow]
      BY DEF Promised, TypeOK, RowsOK
    <3>2. CASE CompleteWrite(p)
      BY <3>2, CompleteWriteEffect DEF Promised
    <3>3. CASE ~CompleteWrite(p)
      BY SMTT(90), <1>1, <3>1, <3>3
         DEF TaskStep, CreateMoney, AcceptEscrow, StartWrite, ConfirmEscrow, ConfirmCash,
             CancelTx, CancelEscrow, DisputeTx, rows, TaskRow
    <3> QED BY <3>2, <3>3
  <2>3. ASSUME NEW t \in Tasks
        PROVE  escrow'[t].pay = escrow[t].pay /\ fee'[t].pay = fee[t].pay
    <3>1. escrow \in [Tasks -> EscrowRow] /\ fee \in [Tasks -> FeeRow]
      BY DEF Promised, TypeOK, RowsOK
    <3>2. fee'[t].pay = fee[t].pay
      BY SMTT(90), <1>1, <3>1
         DEF TaskStep, CreateMoney, AcceptEscrow, StartWrite, CompleteWrite,
             ConfirmEscrow, ConfirmCash, CancelTx, CancelEscrow, DisputeTx, rows, FeeRow
    <3>3. escrow'[t].pay = escrow[t].pay
      <4>1. CASE CreateMoney(p) \/ DisputeTx(p)
        BY <3>1, <4>1 DEF CreateMoney, DisputeTx, EscrowRow
      <4>2. CASE CancelTx(p)
        BY <3>1, <4>2 DEF CancelTx, EscrowRow
      <4>3. CASE ~(CreateMoney(p) \/ DisputeTx(p) \/ CancelTx(p))
        BY <1>1, <4>3
           DEF TaskStep, AcceptEscrow, StartWrite, CompleteWrite, ConfirmEscrow,
               ConfirmCash, CancelEscrow, rows
      <4> QED BY <4>1, <4>2, <4>3
    <3> QED BY <3>2, <3>3
  <2>4. Stutters
    BY <2>1, <2>2, <2>3 DEF Stutters, PaidFor, Idles
  <2> QED BY <2>4, StuttersPromise
<1> QED
  BY <1>1, HireRefines, ReleaseRefines

LEMMA RefundStepRefines ==
    ASSUME Promised, NEW p \in Procs, RefundStep(p)
    PROVE  [Market!MarketNext]_(Market!promise)
<1>1. CASE ~ProviderConfirms(p) /\ ~ProviderAnswerLost(p)
  <2>1. UNCHANGED <<task, fee, gateway, announced, jobs>>
    BY <1>1 DEF RefundStep, RefundReadEscrow, RefundReadExisting, RefundClaim, RefundCreate,
         Execute, ProviderRefuses, RefundComplete, RefundFailed, rows
  <2>2. \A t \in Tasks : escrow'[t].pay = escrow[t].pay /\ escrow'[t].doer = escrow[t].doer
    <3>1. escrow \in [Tasks -> EscrowRow]
      BY DEF Promised, TypeOK, RowsOK
    <3> QED
      BY <1>1, <3>1
         DEF RefundStep, RefundReadEscrow, RefundReadExisting, RefundClaim, RefundCreate,
             Execute, ProviderRefuses, RefundComplete, RefundFailed, rows, EscrowRow
  <2>3. Stutters
    BY <2>1, <2>2 DEF Stutters, PaidFor
  <2> QED BY <2>3, StuttersPromise
<1> QED
  BY <1>1, GiveBackRefines

LEMMA EnvironmentRefines ==
    ASSUME Promised, NEW u \in Tasks, Environment(u)
    PROVE  [Market!MarketNext]_(Market!promise)
<1>1. /\ task \in [Tasks -> TaskRow] /\ escrow \in [Tasks -> EscrowRow]
      /\ gateway \in [Tasks -> GatewayOrder]
  BY DEF Promised, TypeOK, RowsOK
<1>2. UNCHANGED <<fee, announced, jobs>>
  BY DEF Environment, PosterPays, CompletionAges, AdminWrite, MarkPaid, ResolveDispute
<1>3. ASSUME NEW t \in Tasks
      PROVE  /\ task'[t].doer = task[t].doer
             /\ escrow'[t].pay = escrow[t].pay /\ escrow'[t].doer = escrow[t].doer
  BY <1>1 DEF Environment, PosterPays, CompletionAges, AdminWrite, MarkPaid, ResolveDispute,
              TaskRow, EscrowRow
<1>4. \A t \in Tasks : gateway'[t].refunded = gateway[t].refunded
  BY <1>1 DEF Environment, PosterPays, CompletionAges, AdminWrite, MarkPaid, ResolveDispute,
              GatewayOrder
<1>5. Stutters
  BY <1>2, <1>3, <1>4 DEF Stutters, PaidFor
<1> QED
  BY <1>5, StuttersPromise

LEMMA InitRefines == Init => Market!MarketInit
BY DEF Init, LedgerInit, Market!MarketInit

LEMMA NextRefines == Promised /\ [Next]_vars => [Market!MarketNext]_(Market!promise)
<1> SUFFICES ASSUME Promised, [Next]_vars PROVE [Market!MarketNext]_(Market!promise)
  OBVIOUS
<1>1. ASSUME UNCHANGED <<escrow, fee, gateway, announced, jobs>>,
             \A t \in Tasks : task'[t].doer = task[t].doer
      PROVE  [Market!MarketNext]_(Market!promise)
  <2>1. Stutters
    BY <1>1 DEF Stutters, PaidFor
  <2> QED BY <2>1, StuttersPromise
<1>2. ASSUME NEW p \in Reqs, NEW t \in Tasks, Request(p, t)
      PROVE  [Market!MarketNext]_(Market!promise)
  <2>1. CASE CreateTask(p, t)
    <3>1. \A u \in Tasks : task'[u].doer = task[u].doer
      BY <2>1 DEF CreateTask, Promised, TypeOK, RowsOK, TaskRow
    <3> QED BY <1>1, <2>1, <3>1 DEF CreateTask
  <2>2. CASE UNCHANGED rows
    BY <1>1, <2>2 DEF rows
  <2> QED
    BY <1>2, <2>1, <2>2
       DEF Request, TaskRequest, MarkStarted, MarkComplete, Confirm, ForceCancel,
           Accept, Cancel, RaiseDispute, PaymentRequest, InitiatePayment, Webhook,
           AdminRequest, InitiateEscrowRefund, RetryRefund
<1>3. ASSUME NEW p \in Procs, CronStarts(p) \/ CronStep(p) \/ PayoutStep(p) \/ Fail(p)
      PROVE  [Market!MarketNext]_(Market!promise)
  BY <1>1, <1>3
     DEF CronStarts, CronStep, ReconcileScan, AutoReleaseScan, AnomalyScan,
         ReconcileNext, AutoReleaseNext, SweepDone, PayoutStep, PayoutFind, PayoutCreate,
         PayoutUpdate, Fail, rows
<1>4. ASSUME NEW p \in Procs, Step(p) PROVE [Market!MarketNext]_(Market!promise)
  BY <1>3, <1>4, TaskStepRefines, PaymentRefines, RefundStepRefines DEF Step
<1>5. ASSUME NEW t \in Tasks, Environment(t) PROVE [Market!MarketNext]_(Market!promise)
  BY <1>5, EnvironmentRefines
<1>6. CASE UNCHANGED vars
  BY <1>1, <1>6 DEF vars
<1> QED
  BY <1>2, <1>3, <1>4, <1>5, <1>6 DEF Next, Procs

\* Whatever requests, webhooks, sweeps, refusals and crashes interleave, every
\* step of the services is an action of the promise or none: paid, announced
\* once, given to one doer, credited once, paid back at most once.
THEOREM ServicesKeepPromise == Spec => KeepsPromise
<1>1. Spec => []Promised
  BY PromiseInvAlways DEF Promised
<1> QED
  BY <1>1, InitRefines, NextRefines, PTL DEF Spec, KeepsPromise, Market!MarketSpec

-----------------------------------------------------------------------------
(* The steps are transactions.  A release is Transactions' Release only if *)
(* it credits somebody, and a webhook's is Fund only if it does not open a *)
(* task whose money came in before.  WorkInv says that work that has begun *)
(* has its doer, which all who act on it have seen, and that a funded task *)
(* does not await its payment.                                             *)

Working == {"ASSIGNED", "IN_PROGRESS", "COMPLETED", "DISPUTED"}
HasDoer(t) == task[t].doer # NoUser

Worked(t) ==
    /\ task[t].status \in Working => HasDoer(t)
    /\ dispute[t] # "NONE" => HasDoer(t)
    /\ Funded(t) => task[t].status \notin {"NONE", "PENDING_PAYMENT"}

\* Who acts for a doer.
ForDoer == {"acceptEscrow", "acceptWrite", "confirmEscrow", "release"}

Employed(p) ==
    /\ proc[p].pc \in Blind => HasDoer(proc[p].t)
    /\ proc[p].pc \in ForDoer => proc[p].who # NoUser
    /\ "autoRelease" \in {proc[p].pc, proc[p].caller} =>
         \A t \in proc[p].todo : HasDoer(t)

WorkInv ==
    /\ \A t \in Tasks : Worked(t)
    /\ \A p \in Procs : Employed(p)

\* What a step may do to a task.
Works(t) == Worked(t)' /\ (HasDoer(t) => HasDoer(t)')

LEMMA ActingPc ==
    /\ Blind \cup ForDoer \subseteq TaskPc
    /\ "autoRelease" \notin TaskPc
    /\ SweepPc \cap (Blind \cup ForDoer) = {}
    /\ "idle" \notin Blind \cup ForDoer
    /\ Blind \cap ForDoer = {}
BY DEF Blind, ForDoer, TaskPc, SweepPc

LEMMA StaysEmployed ==
    ASSUME TypeOK, NEW q \in Procs, Employed(q), proc'[q] = proc[q],
           \A t \in Tasks : HasDoer(t) => HasDoer(t)'
    PROVE  Employed(q)'
<1>1. proc[q].todo \subseteq Tasks /\ (proc[q].pc \in Blind => proc[q].t \in Tasks)
  BY ActingPc DEF TypeOK, ProcsOK, Proc
<1> QED
  BY <1>1 DEF Employed

LEMMA MoveWorks ==
    ASSUME TypeOK, WorkInv, NEW p \in Procs,
           \A q \in Procs \ {p} : proc'[q] = proc[q],
           \A t \in Tasks : Works(t), Employed(p)'
    PROVE  WorkInv'
BY StaysEmployed DEF WorkInv, Works

LEMMA ReturnWorks ==
    ASSUME TypeOK, WorkInv, NEW p \in Procs, Return(p), \A t \in Tasks : Works(t)
    PROVE  WorkInv'
<1> DEFINE c == [Idle EXCEPT !.pc = proc[p].caller, !.todo = proc[p].todo]
<1>1. c.pc = proc[p].caller /\ c.caller = "idle" /\ c.todo = proc[p].todo
  BY DEF Idle
<1>2. proc' = [proc EXCEPT ![p] = c]
  BY DEF Return
<1> HIDE DEF c
<1>3. proc'[p] = c /\ \A q \in Procs \ {p} : proc'[q] = proc[q]
  BY <1>2 DEF TypeOK, ProcsOK
<1>4. proc[p].caller \in SweepPc \cup {"idle"} /\ proc[p].todo \subseteq Tasks
  BY DEF TypeOK, ProcsOK, Proc
<1>5. Employed(p)'
  BY <1>1, <1>3, <1>4, ActingPc DEF WorkInv, Employed, Works
<1> QED
  BY <1>3, <1>5, MoveWorks

\* A request goes on within the call it serves.
LEMMA GoesOn ==
    ASSUME TypeOK, WorkInv, NEW p \in Procs,
           \A q \in Procs \ {p} : proc'[q] = proc[q],
           proc'[p].pc \in TaskPc \ Blind,
           proc'[p].pc \in ForDoer => proc'[p].who # NoUser,
           proc'[p].caller = proc[p].caller, proc'[p].todo = proc[p].todo,
           \A t \in Tasks : Works(t)
    PROVE  WorkInv'
<1>1. proc[p].todo \subseteq Tasks /\ proc'[p].pc # "autoRelease"
  BY ActingPc DEF TypeOK, ProcsOK, Proc
<1>2. Employed(p)'
  BY <1>1 DEF WorkInv, Employed, Works
<1> QED
  BY <1>2, MoveWorks

LEMMA GotoWorks ==
    ASSUME TypeOK, WorkInv, NEW p \in Procs, NEW l \in TaskPc \ Blind, Goto(p, l),
           l \in ForDoer => proc[p].who # NoUser, \A t \in Tasks : Works(t)
    PROVE  WorkInv'
<1> DEFINE r == [proc[p] EXCEPT !.pc = l]
<1>1. proc' = [proc EXCEPT ![p] = r]
  BY DEF Goto
<1>2. r.pc = l /\ r.who = proc[p].who /\ r.caller = proc[p].caller /\ r.todo = proc[p].todo
  BY DEF TypeOK, ProcsOK, Proc
<1> HIDE DEF r
<1>3. proc'[p] = r /\ \A q \in Procs \ {p} : proc'[q] = proc[q]
  BY <1>1 DEF TypeOK, ProcsOK
<1> QED
  BY <1>2, <1>3, GoesOn

LEMMA BeginWorks ==
    ASSUME TypeOK, WorkInv, NEW p, NEW l \in TaskPc, NEW t \in Tasks, NEW who, NEW pay,
           Begin(p, l, t, who, pay), \A u \in Tasks : Works(u),
           l \in Blind => HasDoer(t), l \in ForDoer => who # NoUser
    PROVE  WorkInv'
<1> DEFINE r == [Idle EXCEPT !.pc = l, !.t = t, !.who = who, !.pay = pay]
<1>1. proc' = [proc EXCEPT ![p] = r] /\ p \in Procs
  BY DEF Begin, Procs
<1>2. r.pc = l /\ r.t = t /\ r.who = who /\ r.caller = "idle"
  BY DEF Idle
<1> HIDE DEF r
<1>3. proc'[p] = r /\ \A q \in Procs \ {p} : proc'[q] = proc[q]
  BY <1>1 DEF TypeOK, ProcsOK
<1>4. l # "autoRelease"
  BY ActingPc
<1>5. Employed(p)'
  BY <1>2, <1>3, <1>4 DEF Employed, Works
<1> QED
  BY <1>1, <1>3, <1>5, MoveWorks

LEMMA RowsWork ==
    ASSUME WorkInv, UNCHANGED <<task, escrow, dispute>>
    PROVE  \A t \in Tasks : Works(t)
BY DEF WorkInv, Works, Worked, HasDoer, Funded

\* A step on a task that funds nothing, or no task that awaits its payment.
LEMMA RowWorks ==
    ASSUME WorkInv, NEW t \in Tasks,
           HasDoer(t) => task'[t].doer # NoUser,
           \/ task'[t].status = task[t].status
           \/ task'[t].status \in {"OPEN", "CANCELLED"}
           \/ task'[t].status \in Working /\ task'[t].doer # NoUser,
           dispute'[t] = "NONE" \/ dispute[t] # "NONE" \/ task'[t].doer # NoUser,
           \/ escrow'[t].status \in {"NONE", "PENDING"}
           \/ Funded(t)
           \/ task'[t].status \notin {"NONE", "PENDING_PAYMENT"}
    PROVE  Works(t)
BY DEF WorkInv, Works, Worked, HasDoer, Funded, Working

LEMMA RequestWorks ==
    ASSUME TypeOK, FundInv, WorkInv, NEW p \in Reqs, NEW t \in Tasks, Request(p, t)
    PROVE  WorkInv'
<1>1. CASE CreateTask(p, t)
  <2>1. /\ task[t].status = "NONE" /\ task'[t].status = "PENDING_PAYMENT"
        /\ task'[t].doer = task[t].doer
        /\ \A u \in Tasks \ {t} : task'[u] = task[u]
        /\ UNCHANGED <<escrow, dispute>>
    BY <1>1 DEF CreateTask, TypeOK, RowsOK, TaskRow
  <2>2. ~Funded(t)
    BY <2>1 DEF FundInv, RowSound, Funded
  <2>3. ASSUME NEW u \in Tasks PROVE Works(u)
    BY <2>1, <2>2, <2>3 DEF WorkInv, Works, Worked, HasDoer, Funded, Working
  <2>4. Begin(p, "createMoney", t, NoUser, 0) /\ "createMoney" \in TaskPc
        /\ "createMoney" \notin Blind \cup ForDoer
    BY <1>1 DEF CreateTask, TaskPc, Blind, ForDoer
  <2> QED BY <2>3, <2>4, BeginWorks
<1>2. CASE ~CreateTask(p, t)
  <2>1. UNCHANGED rows
    BY <1>2 DEF Request, TaskRequest, MarkStarted, MarkComplete, Confirm,
         ForceCancel, Accept, Cancel, RaiseDispute, PaymentRequest, InitiatePayment,
         Webhook, AdminRequest, InitiateEscrowRefund, RetryRefund
  <2>2. \A u \in Tasks : Works(u)
    BY <2>1, RowsWork DEF rows
  <2>3. ASSUME NEW l \in Blind, NEW pay, Begin(p, l, t, NoUser, pay), HasDoer(t)
        PROVE  WorkInv'
    BY <2>2, <2>3, ActingPc, BeginWorks
  <2>4. ASSUME NEW l \in ForDoer, NEW who, NEW pay, Begin(p, l, t, who, pay), who # NoUser
        PROVE  WorkInv'
    BY <2>2, <2>4, ActingPc, BeginWorks
  <2>5. ASSUME NEW l \in {"confirmCash", "cancelTx", "orderWrite", "escrowPaymentTx",
                         "feePaymentTx", "refundFind", "execute"},
               NEW who, NEW pay, Begin(p, l, t, who, pay)
        PROVE  WorkInv'
    <3>1. l \in TaskPc /\ l \notin Blind \cup ForDoer
      BY <2>5 DEF TaskPc, Blind, ForDoer
    <3> QED BY <2>2, <2>5, <3>1, BeginWorks
  <2>6. CASE MarkStarted(p, t) \/ MarkComplete(p, t)
    BY <2>3, <2>6 DEF MarkStarted, MarkComplete, Blind, HasDoer
  <2>7. CASE \E u \in Users : RaiseDispute(p, t, u)
    <3>1. HasDoer(t)
      BY <2>7 DEF RaiseDispute, WorkInv, Worked, Working
    <3> QED BY <2>3, <2>7, <3>1 DEF RaiseDispute, Blind
  <2>8. CASE Confirm(p, t)
    <3>1. task[t].doer # NoUser
      BY <2>8 DEF Confirm, WorkInv, Worked, Working, HasDoer
    <3> QED BY <2>4, <2>5, <2>8, <3>1 DEF Confirm, ForDoer
  <2>9. CASE \E u \in Users : Accept(p, t, u)
    <3>1. NoUser \notin Users
      BY LedgerAssumption DEF LedgerAssumption
    <3> QED BY <2>4, <2>9, <3>1 DEF Accept, ForDoer
  <2>10. CASE ForceCancel(p, t) \/ (\E u \in Users : Cancel(p, t, u))
    BY <2>5, <2>10 DEF ForceCancel, Cancel
  <2>11. CASE PaymentRequest(p, t) \/ AdminRequest(p, t)
    BY <2>5, <2>11 DEF PaymentRequest, InitiatePayment, Webhook, AdminRequest,
         InitiateEscrowRefund, RetryRefund
  <2> QED
    BY <1>2, <2>6, <2>7, <2>8, <2>9, <2>10, <2>11 DEF Request, TaskRequest
<1> QED
  BY <1>1, <1>2

LEMMA TaskStepRows ==
    ASSUME TypeOK, FundInv, WorkInv, NEW p \in Procs, TaskStep(p), NEW t \in Tasks
    PROVE  Works(t)
<1> DEFINE u == proc[p].t
<1>1. task \in [Tasks -> TaskRow] /\ escrow \in [Tasks -> EscrowRow]
      /\ dispute \in [Tasks -> DisputeStatus]
  BY DEF TypeOK, RowsOK
<1>2. u \in Tasks /\ Employed(p)
  BY DEF TaskStep, CreateMoney, AcceptEscrow, AcceptWrite, StartWrite, CompleteWrite,
         ConfirmEscrow, ConfirmCash, ReleaseEscrow, CancelTx, CancelEscrow, DisputeTx,
         At, TaskPc, TypeOK, ProcsOK, WorkInv
<1>3. CASE CreateMoney(p)
  <2>1. task' = task /\ dispute' = dispute
        /\ (escrow'[t] = escrow[t] \/ escrow'[t].status = "PENDING")
    BY <1>1, <1>3 DEF CreateMoney, EscrowRow
  <2> QED BY <2>1, RowWorks DEF HasDoer, Funded
<1>4. CASE AcceptEscrow(p) \/ ConfirmEscrow(p) \/ CancelEscrow(p)
  BY <1>4, RowsWork DEF AcceptEscrow, ConfirmEscrow, CancelEscrow, rows
<1>5. CASE AcceptWrite(p)
  <2>1. \/ task'[t] = task[t]
        \/ /\ task[t].status = "OPEN"
           /\ task'[t].status = "ASSIGNED" /\ task'[t].doer = proc[p].who
    BY <1>5, AcceptWriteEffect
  <2>2. proc[p].who # NoUser /\ UNCHANGED <<escrow, dispute>>
    BY <1>2, <1>5 DEF AcceptWrite, At, Employed, ForDoer
  <2> QED BY <2>1, <2>2, RowWorks DEF HasDoer, Funded, Working
<1>6. CASE StartWrite(p)
  <2>1. \/ task'[t] = task[t]
        \/ task'[t].status = "IN_PROGRESS" /\ task'[t].doer = task[t].doer /\ HasDoer(t)
    BY <1>1, <1>2, <1>6 DEF StartWrite, TaskRow, At, Employed, Blind
  <2>2. UNCHANGED <<escrow, dispute>>
    BY <1>6 DEF StartWrite
  <2> QED BY <2>1, <2>2, RowWorks DEF HasDoer, Funded, Working
<1>7. CASE CompleteWrite(p)
  <2>1. \/ task'[t] = task[t]
        \/ task'[t].status = "COMPLETED" /\ task'[t].doer = task[t].doer /\ HasDoer(t)
    BY <1>2, <1>7, CompleteWriteEffect DEF CompleteWrite, At, Employed, Blind
  <2>2. UNCHANGED <<escrow, dispute>>
    BY <1>7 DEF CompleteWrite
  <2> QED BY <2>1, <2>2, RowWorks DEF HasDoer, Funded, Working
<1>8. CASE ConfirmCash(p)
  <2>1. task'[t].status = task[t].status /\ task'[t].doer = task[t].doer
        /\ UNCHANGED <<escrow, dispute>>
    BY <1>1, <1>8 DEF ConfirmCash, TaskRow
  <2> QED BY <2>1, RowWorks DEF HasDoer, Funded
<1>9. CASE ReleaseEscrow(p)
  <2>1. task'[t].status = task[t].status /\ task'[t].doer = task[t].doer
        /\ dispute' = dispute
    BY <1>1, <1>9 DEF ReleaseEscrow, TaskRow
  <2>2. escrow'[t] = escrow[t] \/ escrow[t].status = "HELD"
    BY <1>9, ReleaseEffect
  <2> QED BY <2>1, <2>2, RowWorks DEF HasDoer, Funded
<1>10. CASE CancelTx(p)
  <2>1. task'[t].status \in {task[t].status, "CANCELLED"} /\ task'[t].doer = task[t].doer
        /\ dispute' = dispute
    BY <1>1, <1>10 DEF CancelTx, TaskRow
  <2>2. escrow'[t] = escrow[t] \/ escrow[t].status = "HELD"
    BY <1>1, <1>2, <1>10 DEF CancelTx
  <2> QED BY <2>1, <2>2, RowWorks DEF HasDoer, Funded
<1>11. CASE DisputeTx(p)
  <2>1. HasDoer(u)
    BY <1>2, <1>11 DEF DisputeTx, At, Employed, Blind
  <2>2. \/ UNCHANGED <<task, escrow, dispute>>
        \/ /\ task' = [task EXCEPT ![u].status = "DISPUTED"]
           /\ \A v \in Tasks \ {u} : escrow'[v] = escrow[v] /\ dispute'[v] = dispute[v]
    BY <1>1, <1>11 DEF DisputeTx
  <2>3. CASE UNCHANGED <<task, escrow, dispute>>
    BY <2>3, RowsWork
  <2>4. CASE t = u /\ task' = [task EXCEPT ![u].status = "DISPUTED"]
    <3>1. task'[t].status = "DISPUTED" /\ task'[t].doer = task[t].doer
      BY <1>1, <2>4 DEF TaskRow
    <3> QED BY <2>1, <2>4, <3>1, RowWorks DEF HasDoer, Working
  <2>5. CASE t # u /\ ~UNCHANGED <<task, escrow, dispute>>
    <3>1. task'[t] = task[t] /\ escrow'[t] = escrow[t] /\ dispute'[t] = dispute[t]
      BY <1>1, <2>2, <2>5
    <3> QED BY <3>1, RowWorks DEF HasDoer, Funded
  <2> QED BY <2>2, <2>3, <2>4, <2>5
<1> QED
  BY <1>3, <1>4, <1>5, <1>6, <1>7, <1>8, <1>9, <1>10, <1>11 DEF TaskStep

LEMMA TaskStepWorks ==
    ASSUME TypeOK, FundInv, WorkInv, NEW p \in Procs, TaskStep(p)
    PROVE  WorkInv'
<1>1. \A t \in Tasks : Works(t)
  BY TaskStepRows
<1>2. \/ Return(p)
      \/ \E l \in {"payoutFind", "cancelEscrow", "refundFind"} : Goto(p, l)
      \/ At(p, "acceptEscrow") /\ Goto(p, "acceptWrite")
      \/ At(p, "confirmEscrow") /\ Goto(p, "release")
  BY DEF TaskStep, CreateMoney, AcceptEscrow, AcceptWrite, StartWrite, CompleteWrite,
         ConfirmEscrow, ConfirmCash, ReleaseEscrow, CancelTx, CancelEscrow, DisputeTx
<1>3. ASSUME NEW l \in {"payoutFind", "cancelEscrow", "refundFind"}, Goto(p, l)
      PROVE  WorkInv'
  <2>1. l \in TaskPc \ Blind /\ l \notin ForDoer
    BY <1>3 DEF TaskPc, Blind, ForDoer
  <2> QED BY <1>1, <1>3, <2>1, GotoWorks
<1>4. ASSUME NEW l \in {"acceptWrite", "release"}, Goto(p, l), proc[p].pc \in ForDoer
      PROVE  WorkInv'
  <2>1. l \in TaskPc \ Blind /\ proc[p].who # NoUser
    BY <1>4 DEF TaskPc, Blind, WorkInv, Employed
  <2> QED BY <1>1, <1>4, <2>1, GotoWorks
<1> QED
  BY <1>1, <1>2, <1>3, <1>4, ReturnWorks DEF At, ForDoer

LEMMA PaymentStepWorks ==
    ASSUME TypeOK, FundInv, WorkInv, NEW p \in Procs, PaymentStep(p)
    PROVE  WorkInv'
<1> DEFINE u == proc[p].t
<1>1. task \in [Tasks -> TaskRow] /\ dispute' = dispute
  BY DEF TypeOK, RowsOK, PaymentStep, OrderWrite, EscrowPaymentTx, FeePaymentTx, Announce
<1>2. ASSUME NEW t \in Tasks PROVE Works(t)
  <2>1. /\ task'[t].doer = task[t].doer
        /\ task'[t].status \in {task[t].status, "OPEN"}
    <3>1. task' \in {task, [task EXCEPT ![u].status = "OPEN"]}
      BY DEF PaymentStep, OrderWrite, EscrowPaymentTx, FeePaymentTx, Announce
    <3> QED BY <1>1, <3>1 DEF TaskRow
  <2>2. CASE EscrowPaymentTx(p)
    <3>1. escrow'[t] = escrow[t] \/ (t = u /\ escrow[t].status = "PENDING")
      BY <2>2, EscrowPaymentEffect
    <3>2. t = u => task'[t].status \notin {"NONE", "PENDING_PAYMENT"}
      <4>1. CASE t = u /\ task[u].status = "PENDING_PAYMENT"
        BY <1>1, <2>2, <4>1 DEF EscrowPaymentTx, TaskRow
      <4>2. CASE t = u /\ task[u].status # "PENDING_PAYMENT"
        BY <2>2, <4>2 DEF EscrowPaymentTx, FundInv, Justified, RowSound
      <4> QED BY <4>1, <4>2
    <3> QED BY <1>1, <2>1, <3>1, <3>2, RowWorks DEF HasDoer, Funded
  <2>3. CASE ~EscrowPaymentTx(p)
    <3>1. escrow' = escrow
      BY <2>3 DEF PaymentStep, OrderWrite, FeePaymentTx, Announce
    <3> QED BY <1>1, <2>1, <3>1, RowWorks DEF HasDoer, Funded
  <2> QED BY <2>2, <2>3
<1>3. Return(p) \/ Goto(p, "announce") \/ Goto(p, "refundFind")
  BY DEF PaymentStep, OrderWrite, EscrowPaymentTx, FeePaymentTx, Announce
<1>4. {"announce", "refundFind"} \subseteq TaskPc \ (Blind \cup ForDoer)
  BY DEF TaskPc, Blind, ForDoer
<1> QED
  BY <1>2, <1>3, <1>4, ReturnWorks, GotoWorks

LEMMA RefundStepWorks ==
    ASSUME TypeOK, FundInv, WorkInv, NEW p \in Procs, RefundStep(p)
    PROVE  WorkInv'
<1> DEFINE u == proc[p].t
<1>1. UNCHANGED <<task, dispute>> /\ escrow \in [Tasks -> EscrowRow]
  BY DEF RefundStep, RefundReadEscrow, RefundReadExisting, RefundClaim, RefundCreate,
         Execute, ProviderConfirms, ProviderRefuses, ProviderAnswerLost, RefundComplete,
         RefundFailed, TypeOK, RowsOK, rows
<1>2. ASSUME NEW t \in Tasks PROVE Works(t)
  <2>1. escrow'[t] = escrow[t] \/ Funded(t)
    <3>1. CASE RefundClaim(p) \/ RefundComplete(p)
      <4>1. Funded(u)
        BY <3>1
           DEF RefundClaim, RefundComplete, At, FundInv, Justified, Refunding, Executing
      <4>2. \A v \in Tasks \ {u} : escrow'[v] = escrow[v]
        BY <1>1, <3>1 DEF RefundClaim, RefundComplete
      <4> QED BY <4>1, <4>2
    <3>2. CASE ~(RefundClaim(p) \/ RefundComplete(p))
      BY <3>2 DEF RefundStep, RefundReadEscrow, RefundReadExisting, RefundCreate,
         Execute, ProviderConfirms, ProviderRefuses, ProviderAnswerLost, RefundFailed, rows
    <3> QED BY <3>1, <3>2
  <2> QED BY <1>1, <2>1, RowWorks DEF HasDoer, Funded
<1>3. CASE RefundReadEscrow(p)
  <2> DEFINE ok == /\ escrow[u].status \in REFUNDABLE_ESCROW_STATES
                   /\ escrow[u].pay # 0
             r == [proc[p] EXCEPT !.pc = "refundExisting", !.refundable = ok]
  <2>1. proc' = [proc EXCEPT ![p] = r]
    BY <1>3 DEF RefundReadEscrow
  <2>2. r.pc = "refundExisting" /\ r.caller = proc[p].caller /\ r.todo = proc[p].todo
    BY DEF TypeOK, ProcsOK, Proc
  <2> HIDE DEF r, ok
  <2>3. proc'[p] = r /\ \A q \in Procs \ {p} : proc'[q] = proc[q]
    BY <2>1 DEF TypeOK, ProcsOK
  <2>4. "refundExisting" \in TaskPc \ (Blind \cup ForDoer)
    BY DEF TaskPc, Blind, ForDoer
  <2> QED BY <1>2, <2>2, <2>3, <2>4, GoesOn
<1>4. CASE ~RefundReadEscrow(p)
  <2>1. Return(p) \/ \E l \in TaskPc \ (Blind \cup ForDoer) : Goto(p, l)
    BY <1>4 DEF RefundStep, RefundReadExisting, RefundClaim, RefundCreate,
         Execute, ProviderConfirms, ProviderRefuses, ProviderAnswerLost, RefundComplete,
         RefundFailed, TaskPc, Blind, ForDoer
  <2> QED BY <1>2, <2>1, ReturnWorks, GotoWorks
<1> QED
  BY <1>3, <1>4

LEMMA CronWorks ==
    ASSUME TypeOK, WorkInv, NEW p \in Procs, CronStarts(p) \/ CronStep(p)
    PROVE  WorkInv'
<1>1. \A t \in Tasks : Works(t)
  BY CronEffect, RowsWork DEF rows
<1>2. \A q \in Procs \ {p} : proc'[q] = proc[q]
  BY CronEffect
<1>3. ASSUME NEW r, proc' = [proc EXCEPT ![p] = r] PROVE proc'[p] = r
  BY <1>3 DEF TypeOK, ProcsOK
<1>4. ASSUME NEW l \in {"sweep", "anomalies", "idle"}, proc'[p].pc = l, proc'[p].caller = "idle"
      PROVE  Employed(p)'
  BY <1>4 DEF Employed, Blind, ForDoer
<1>5. ASSUME NEW l, NEW batch, StartSweep(p, l, batch)
      PROVE  proc'[p].pc = l /\ proc'[p].caller = "idle" /\ proc'[p].todo = batch
  <2> DEFINE r == [Idle EXCEPT !.pc = l, !.todo = batch]
  <2>1. proc' = [proc EXCEPT ![p] = r]
    BY <1>5 DEF StartSweep
  <2>2. r.pc = l /\ r.caller = "idle" /\ r.todo = batch
    BY DEF Idle
  <2> HIDE DEF r
  <2> QED BY <1>3, <2>1, <2>2
<1>6. CASE ReconcileScan(p) \/ AnomalyScan(p)
  BY <1>1, <1>2, <1>4, <1>5, <1>6, MoveWorks DEF ReconcileScan, AnomalyScan
<1>7. CASE AutoReleaseScan(p)
  <2>1. /\ proc'[p].pc = "autoRelease" /\ task' = task
        /\ proc'[p].todo = {t \in Tasks : DueForRelease(t)}
    BY <1>5, <1>7 DEF AutoReleaseScan, rows
  <2>2. \A t \in proc'[p].todo : HasDoer(t)'
    BY <2>1 DEF DueForRelease, WorkInv, Worked, Working, HasDoer
  <2>3. Employed(p)'
    BY <2>1, <2>2, ActingPc DEF Employed, Blind, ForDoer
  <2> QED BY <1>1, <1>2, <2>3, MoveWorks
<1>8. CASE ReconcileNext(p)
  <2>1. PICK t \in proc[p].todo :
          proc' = [proc EXCEPT ![p].pc = "refundFind", ![p].t = t,
                               ![p].caller = proc[p].pc, ![p].todo = @ \ {t}]
    BY <1>8 DEF ReconcileNext
  <2> DEFINE r == [proc[p] EXCEPT !.pc = "refundFind", !.t = t,
                                  !.caller = proc[p].pc, !.todo = @ \ {t}]
  <2>2. proc' = [proc EXCEPT ![p] = r]
    BY <2>1
  <2>3. r.pc = "refundFind" /\ r.caller = proc[p].pc
    BY DEF TypeOK, ProcsOK, Proc
  <2> HIDE DEF r
  <2>4. proc'[p].pc = "refundFind" /\ proc'[p].caller \in {"sweep", "anomalies"}
    BY <1>3, <1>8, <2>2, <2>3 DEF ReconcileNext
  <2>5. Employed(p)'
    BY <2>4 DEF Employed, Blind, ForDoer
  <2> QED BY <1>1, <1>2, <2>5, MoveWorks
<1>9. CASE AutoReleaseNext(p)
  <2>1. PICK t \in proc[p].todo :
          proc' = [proc EXCEPT ![p].pc = "release", ![p].t = t,
                               ![p].who = task[t].doer,
                               ![p].caller = "autoRelease", ![p].todo = @ \ {t}]
    BY <1>9 DEF AutoReleaseNext
  <2> DEFINE r == [proc[p] EXCEPT !.pc = "release", !.t = t, !.who = task[t].doer,
                                  !.caller = "autoRelease", !.todo = @ \ {t}]
  <2>2. proc' = [proc EXCEPT ![p] = r]
    BY <2>1
  <2>3. r.pc = "release" /\ r.who = task[t].doer /\ r.todo = proc[p].todo \ {t}
    BY DEF TypeOK, ProcsOK, Proc
  <2> HIDE DEF r
  <2>4. proc'[p] = r /\ proc[p].todo \subseteq Tasks
    BY <1>3, <2>2 DEF TypeOK, ProcsOK, Proc
  <2>5. \A v \in proc[p].todo : HasDoer(v)
    BY <1>9 DEF AutoReleaseNext, At, WorkInv, Employed
  <2>6. Employed(p)'
    BY <1>1, <2>3, <2>4, <2>5 DEF Employed, Works, Blind, HasDoer
  <2> QED BY <1>1, <1>2, <2>6, MoveWorks
<1>10. CASE SweepDone(p)
  <2>1. proc'[p] = Idle
    BY <1>3, <1>10 DEF SweepDone
  <2>2. Employed(p)'
    BY <1>4, <2>1 DEF Idle
  <2> QED BY <1>1, <1>2, <2>2, MoveWorks
<1> QED
  BY <1>6, <1>7, <1>8, <1>9, <1>10 DEF CronStarts, CronStep

LEMMA OtherStepWorks ==
    ASSUME TypeOK, WorkInv, NEW p \in Procs, PayoutStep(p) \/ Fail(p)
    PROVE  WorkInv'
<1>1. \A t \in Tasks : Works(t)
  BY RowsWork DEF PayoutStep, PayoutFind, PayoutCreate, PayoutUpdate, Fail, rows
<1>2. CASE Return(p) \/ Goto(p, "payoutCreate") \/ Goto(p, "payoutUpdate")
  <2>1. {"payoutCreate", "payoutUpdate"} \subseteq TaskPc \ (Blind \cup ForDoer)
    BY DEF TaskPc, Blind, ForDoer
  <2> QED BY <1>1, <1>2, <2>1, ReturnWorks, GotoWorks
<1>3. CASE proc' = [proc EXCEPT ![p] = Idle]
  <2>1. proc'[p] = Idle /\ \A q \in Procs \ {p} : proc'[q] = proc[q]
    BY <1>3 DEF TypeOK, ProcsOK
  <2>2. Employed(p)'
    BY <2>1, ActingPc DEF Employed, Idle
  <2> QED BY <1>1, <2>1, <2>2, MoveWorks
<1> QED
  BY <1>2, <1>3 DEF PayoutStep, PayoutFind, PayoutCreate, PayoutUpdate, Fail

LEMMA EnvironmentWorks ==
    ASSUME TypeOK, WorkInv, NEW u \in Tasks, Environment(u)
    PROVE  WorkInv'
<1>1. task \in [Tasks -> TaskRow] /\ dispute \in [Tasks -> DisputeStatus]
      /\ escrow \in [Tasks -> EscrowRow]
  BY DEF TypeOK, RowsOK
<1>2. proc' = proc
  BY DEF Environment, PosterPays, CompletionAges, AdminWrite, MarkPaid, ResolveDispute
<1>3. ASSUME NEW t \in Tasks PROVE Works(t)
  <2>1. CASE \E b \in BOOLEAN : ResolveDispute(u, b)
    <3>1. /\ dispute[u] # "NONE"
          /\ dispute'[t] # "NONE" => dispute[t] # "NONE"
          /\ task'[t].doer = task[t].doer
          /\ \/ t = u /\ task'[t].status = "COMPLETED"
             \/ task'[t].status = task[t].status /\ escrow'[t] = escrow[t]
      BY <1>1, <2>1 DEF ResolveDispute, TaskRow
    <3>2. HasDoer(u)
      BY <3>1 DEF WorkInv, Worked
    <3> QED BY <3>1, <3>2, RowWorks DEF HasDoer, Funded, Working
  <2>2. CASE ~\E b \in BOOLEAN : ResolveDispute(u, b)
    <3>1. /\ UNCHANGED <<escrow, dispute>>
          /\ task'[t].doer = task[t].doer /\ task'[t].status = task[t].status
      BY <1>1, <2>2
         DEF Environment, PosterPays, CompletionAges, AdminWrite, MarkPaid, TaskRow
    <3> QED BY <3>1, RowWorks DEF HasDoer, Funded
  <2> QED BY <2>1, <2>2
<1> QED
  BY <1>2, <1>3, StaysEmployed DEF WorkInv, Works

LEMMA WorkInvInit == Init => WorkInv
<1> SUFFICES ASSUME Init PROVE WorkInv
  OBVIOUS
<1>1. \A t \in Tasks : Worked(t)
  BY DEF Init, LedgerInit, Worked, Working, Funded
<1>2. \A p \in Procs : Employed(p)
  BY ActingPc DEF Init, LedgerInit, Employed, Idle
<1> QED
  BY <1>1, <1>2 DEF WorkInv

LEMMA WorkInvStep == TypeOK /\ FundInv /\ WorkInv /\ [Next]_vars => WorkInv'
<1> SUFFICES ASSUME TypeOK, FundInv, WorkInv, [Next]_vars PROVE WorkInv'
  OBVIOUS
<1>1. ASSUME NEW p \in Reqs, NEW t \in Tasks, Request(p, t) PROVE WorkInv'
  BY <1>1, RequestWorks
<1>2. ASSUME NEW p \in Crons, CronStarts(p) PROVE WorkInv'
  BY <1>2, CronWorks DEF Procs
<1>3. ASSUME NEW p \in Procs, Step(p) \/ Fail(p) PROVE WorkInv'
  BY <1>3, TaskStepWorks, PaymentStepWorks, RefundStepWorks, OtherStepWorks, CronWorks
     DEF Step
<1>4. ASSUME NEW t \in Tasks, Environment(t) PROVE WorkInv'
  BY <1>4, EnvironmentWorks
<1>5. CASE UNCHANGED vars
  BY <1>5 DEF vars, WorkInv, Worked, Employed, HasDoer, Funded
<1> QED
  BY <1>1, <1>2, <1>3, <1>4, <1>5 DEF Next

-----------------------------------------------------------------------------
(* What each step is of Transactions.                                      *)

Sure == TypeOK /\ RefundInv /\ FundInv /\ ReleaseInv /\ PostInv /\ WorkInv

\* What a transaction that writes other rows leaves of a task's rows.
SameTask(t) == task'[t].status = task[t].status
SameMoney(t) == escrow'[t].status = escrow[t].status /\ escrow'[t].doer = escrow[t].doer
SameRefund(t) == refund'[t] = "COMPLETED" <=> refund[t] = "COMPLETED"
Rests(t) == SameTask(t) /\ SameMoney(t) /\ SameRefund(t) /\ dispute'[t] = dispute[t]

\* A record of the columns of Transactions and no others; two with the same
\* fields are equal.
IsRow(r) == r = [c \in {"task", "escrow", "profile", "dispute", "refund"} |-> r[c]]
SameRow(r, s) ==
    /\ r.task = s.task /\ r.escrow = s.escrow /\ r.profile = s.profile
    /\ r.dispute = s.dispute /\ r.refund = s.refund

LEMMA RowExtensional ==
    ASSUME NEW r, NEW s, IsRow(r), IsRow(s), SameRow(r, s)
    PROVE  r = s
BY DEF IsRow, SameRow

LEMMA RowsAreRows == ASSUME NEW t PROVE IsRow(RowsOf(t)) /\ IsRow(RowsOf(t)')
BY DEF IsRow, RowsOf

LEMMA RowReleased ==
    ASSUME NEW r, NEW s, IsRow(r), IsRow(s), s.task = r.task, s.escrow = "RELEASED",
           s.profile = "credited", s.dispute = r.dispute, s.refund = r.refund
    PROVE  s = [r EXCEPT !.escrow = "RELEASED", !.profile = "credited"]
<1>1. PICK w : w = [r EXCEPT !.escrow = "RELEASED", !.profile = "credited"]
  OBVIOUS
<1>2. IsRow(w) /\ SameRow(w, s)
  BY <1>1 DEF IsRow, SameRow
<1> QED BY <1>1, <1>2, RowExtensional

LEMMA RowCancelled ==
    ASSUME NEW r, NEW s, IsRow(r), IsRow(s), s.task = "CANCELLED",
           s.escrow = IF r.escrow = "HELD" THEN "REFUND_PENDING" ELSE r.escrow,
           s.profile = r.profile, s.dispute = r.dispute, s.refund = r.refund
    PROVE  s = [r EXCEPT !.task = "CANCELLED",
                         !.escrow = IF @ = "HELD" THEN "REFUND_PENDING" ELSE @]
<1>1. PICK w : w = [r EXCEPT !.task = "CANCELLED", !.escrow = s.escrow]
  OBVIOUS
<1>2. IsRow(w) /\ SameRow(w, s)
  BY <1>1 DEF IsRow, SameRow
<1> QED BY <1>1, <1>2, RowExtensional

LEMMA RowFunded ==
    ASSUME NEW r, NEW s, IsRow(r), IsRow(s),
           s.task = IF r.task = "PENDING_PAYMENT" THEN "OPEN" ELSE r.task,
           s.escrow = IF r.task = "CANCELLED" THEN "REFUND_PENDING" ELSE "HELD",
           s.profile = r.profile, s.dispute = r.dispute, s.refund = r.refund
    PROVE  s = [r EXCEPT
                  !.task = IF @ = "PENDING_PAYMENT" THEN "OPEN" ELSE @,
                  !.escrow = IF r.task = "CANCELLED" THEN "REFUND_PENDING" ELSE "HELD"]
<1>1. PICK w : w = [r EXCEPT !.task = s.task, !.escrow = s.escrow]
  OBVIOUS
<1>2. IsRow(w) /\ SameRow(w, s)
  BY <1>1 DEF IsRow, SameRow
<1> QED BY <1>1, <1>2, RowExtensional

LEMMA RowDisputed ==
    ASSUME NEW r, NEW s, IsRow(r), IsRow(s), s.task = "DISPUTED", s.escrow = "DISPUTED",
           s.profile = r.profile, s.dispute = "OPEN", s.refund = r.refund
    PROVE  s = [r EXCEPT !.task = "DISPUTED", !.dispute = "OPEN", !.escrow = "DISPUTED"]
<1>1. PICK w : w = [r EXCEPT !.task = "DISPUTED", !.dispute = "OPEN", !.escrow = "DISPUTED"]
  OBVIOUS
<1>2. IsRow(w) /\ SameRow(w, s)
  BY <1>1 DEF IsRow, SameRow
<1> QED BY <1>1, <1>2, RowExtensional

LEMMA RowResolved ==
    ASSUME NEW r, NEW s, IsRow(r), IsRow(s), NEW outcome, s.task = "COMPLETED",
           s.escrow = outcome, s.profile = r.profile, s.dispute = "RESOLVED",
           s.refund = r.refund
    PROVE  s = [r EXCEPT !.dispute = "RESOLVED", !.escrow = outcome, !.task = "COMPLETED"]
<1>1. PICK w : w = [r EXCEPT !.dispute = "RESOLVED", !.escrow = outcome, !.task = "COMPLETED"]
  OBVIOUS
<1>2. IsRow(w) /\ SameRow(w, s)
  BY <1>1 DEF IsRow, SameRow
<1> QED BY <1>1, <1>2, RowExtensional

LEMMA RowSettled ==
    ASSUME NEW r, NEW s, IsRow(r), IsRow(s), s.task = r.task, s.escrow = "REFUNDED",
           s.profile = r.profile, s.dispute = r.dispute, s.refund = "COMPLETED"
    PROVE  s = [r EXCEPT !.refund = "COMPLETED", !.escrow = "REFUNDED"]
<1>1. PICK w : w = [r EXCEPT !.refund = "COMPLETED", !.escrow = "REFUNDED"]
  OBVIOUS
<1>2. IsRow(w) /\ SameRow(w, s)
  BY <1>1 DEF IsRow, SameRow
<1> QED BY <1>1, <1>2, RowExtensional

LEMMA RestAlone ==
    ASSUME NEW t \in Tasks, Rests(t)
    PROVE  Alone(t)!TransactionsStep
<1>1. RowsOf(t)' = RowsOf(t)
  BY DEF Rests, SameTask, SameMoney, SameRefund, RowsOf
<1> QED
  BY <1>1 DEF Alone!TransactionsStep

\* A step that writes the status of a task and nothing else.
LEMMA TaskWriteAlone ==
    ASSUME NEW t \in Tasks, SameMoney(t), SameRefund(t), dispute'[t] = dispute[t],
           \/ task[t].status = "OPEN" /\ task'[t].status = "ASSIGNED"
           \/ task'[t].status \in {"IN_PROGRESS", "COMPLETED"}
    PROVE  Alone(t)!TransactionsStep
<1>1. CASE task[t].status = "OPEN" /\ task'[t].status = "ASSIGNED"
  <2>1. Alone(t)!Accept
    BY <1>1 DEF SameMoney, SameRefund, RowsOf, Alone!Accept
  <2> QED BY <2>1 DEF Alone!TransactionsStep, Alone!TransactionsNext
<1>2. CASE task'[t].status = "IN_PROGRESS"
  <2>1. Alone(t)!Start
    BY <1>2 DEF SameMoney, SameRefund, RowsOf, Alone!Start
  <2> QED BY <2>1 DEF Alone!TransactionsStep, Alone!TransactionsNext
<1>3. CASE task'[t].status = "COMPLETED"
  <2>1. Alone(t)!Complete
    BY <1>3 DEF SameMoney, SameRefund, RowsOf, Alone!Complete
  <2> QED BY <2>1 DEF Alone!TransactionsStep, Alone!TransactionsNext
<1> QED
  BY <1>1, <1>2, <1>3

LEMMA ReleaseAlone ==
    ASSUME NEW t \in Tasks, SameTask(t), SameRefund(t), dispute'[t] = dispute[t],
           escrow[t].status = "HELD", escrow'[t].status = "RELEASED",
           escrow'[t].doer # NoUser
    PROVE  Alone(t)!TransactionsStep
<1>1. /\ RowsOf(t).escrow = "HELD" /\ RowsOf(t)'.escrow = "RELEASED"
      /\ RowsOf(t)'.task = RowsOf(t).task /\ RowsOf(t)'.profile = "credited"
      /\ RowsOf(t)'.dispute = RowsOf(t).dispute /\ RowsOf(t)'.refund = RowsOf(t).refund
  BY DEF SameTask, SameRefund, RowsOf
<1>2. RowsOf(t)' = [RowsOf(t) EXCEPT !.escrow = "RELEASED", !.profile = "credited"]
  BY <1>1, RowReleased, RowsAreRows
<1>3. Alone(t)!Release
  BY <1>1, <1>2 DEF Alone!Release
<1> QED
  BY <1>3 DEF Alone!TransactionsStep, Alone!TransactionsNext

LEMMA CancelAlone ==
    ASSUME NEW t \in Tasks, SameRefund(t), dispute'[t] = dispute[t],
           task[t].status \in CANCELLABLE_STATUSES, task'[t].status = "CANCELLED",
           escrow'[t].doer = escrow[t].doer,
           escrow'[t].status = IF escrow[t].status = "HELD" THEN "REFUND_PENDING"
                               ELSE escrow[t].status
    PROVE  Alone(t)!TransactionsStep
<1>1. RowsOf(t).task \in Alone(t)!CANCELLABLE_STATUSES
  BY DEF RowsOf, Alone!CANCELLABLE_STATUSES, CANCELLABLE_STATUSES
<1>2. /\ RowsOf(t)'.escrow = IF RowsOf(t).escrow = "HELD" THEN "REFUND_PENDING"
                             ELSE RowsOf(t).escrow
      /\ RowsOf(t)'.task = "CANCELLED" /\ RowsOf(t)'.profile = RowsOf(t).profile
      /\ RowsOf(t)'.dispute = RowsOf(t).dispute /\ RowsOf(t)'.refund = RowsOf(t).refund
  BY DEF SameRefund, RowsOf
<1>3. RowsOf(t)' = [RowsOf(t) EXCEPT
                      !.task = "CANCELLED",
                      !.escrow = IF @ = "HELD" THEN "REFUND_PENDING" ELSE @]
  BY <1>2, RowCancelled, RowsAreRows
<1>4. Alone(t)!Cancel
  BY <1>1, <1>3 DEF Alone!Cancel
<1> QED
  BY <1>4 DEF Alone!TransactionsStep, Alone!TransactionsNext

LEMMA FundAlone ==
    ASSUME NEW t \in Tasks, SameRefund(t), dispute'[t] = dispute[t],
           escrow[t].status = "PENDING", escrow'[t].doer = escrow[t].doer,
           escrow'[t].status = IF task[t].status = "CANCELLED" THEN "REFUND_PENDING"
                               ELSE "HELD",
           task[t].status # "NONE",
           task'[t].status = IF task[t].status = "PENDING_PAYMENT" THEN "OPEN"
                             ELSE task[t].status
    PROVE  Alone(t)!TransactionsStep
<1>1. /\ RowsOf(t).escrow = "PENDING"
      /\ RowsOf(t)'.task = IF RowsOf(t).task = "PENDING_PAYMENT" THEN "OPEN"
                           ELSE RowsOf(t).task
      /\ RowsOf(t)'.escrow = IF RowsOf(t).task = "CANCELLED" THEN "REFUND_PENDING"
                             ELSE "HELD"
      /\ RowsOf(t)'.profile = RowsOf(t).profile
      /\ RowsOf(t)'.dispute = RowsOf(t).dispute /\ RowsOf(t)'.refund = RowsOf(t).refund
  BY DEF SameRefund, RowsOf
<1>2. RowsOf(t)' = [RowsOf(t) EXCEPT
                      !.task = IF @ = "PENDING_PAYMENT" THEN "OPEN" ELSE @,
                      !.escrow = IF RowsOf(t).task = "CANCELLED" THEN "REFUND_PENDING"
                                 ELSE "HELD"]
  BY <1>1, RowFunded, RowsAreRows
<1>3. Alone(t)!Fund
  BY <1>1, <1>2 DEF Alone!Fund
<1> QED
  BY <1>3 DEF Alone!TransactionsStep, Alone!TransactionsNext

LEMMA DisputeAlone ==
    ASSUME NEW t \in Tasks, SameRefund(t), dispute[t] = "NONE", dispute'[t] = "OPEN",
           task'[t].status = "DISPUTED",
           escrow'[t].status = "DISPUTED", escrow'[t].doer = escrow[t].doer
    PROVE  Alone(t)!TransactionsStep
<1>1. /\ RowsOf(t).dispute = "NONE" /\ RowsOf(t)'.dispute = "OPEN"
      /\ RowsOf(t)'.task = "DISPUTED" /\ RowsOf(t)'.escrow = "DISPUTED"
      /\ RowsOf(t)'.profile = RowsOf(t).profile /\ RowsOf(t)'.refund = RowsOf(t).refund
  BY DEF SameRefund, RowsOf
<1>2. RowsOf(t)' = [RowsOf(t) EXCEPT !.task = "DISPUTED", !.dispute = "OPEN",
                                     !.escrow = "DISPUTED"]
  BY <1>1, RowDisputed, RowsAreRows
<1>3. Alone(t)!Dispute
  BY <1>1, <1>2 DEF Alone!Dispute
<1> QED
  BY <1>3 DEF Alone!TransactionsStep, Alone!TransactionsNext

LEMMA ResolveAlone ==
    ASSUME NEW t \in Tasks, SameRefund(t), dispute[t] # "NONE", dispute'[t] = "RESOLVED",
           task'[t].status = "COMPLETED",
           escrow'[t].status \in {"REFUNDED", "RELEASED"}, escrow'[t].doer = escrow[t].doer
    PROVE  Alone(t)!TransactionsStep
<1>1. PICK outcome \in {"REFUNDED", "RELEASED"} : escrow'[t].status = outcome
  OBVIOUS
<1>2. /\ RowsOf(t).dispute # "NONE" /\ RowsOf(t)'.dispute = "RESOLVED"
      /\ RowsOf(t)'.task = "COMPLETED" /\ RowsOf(t)'.escrow = outcome
      /\ RowsOf(t)'.profile = RowsOf(t).profile /\ RowsOf(t)'.refund = RowsOf(t).refund
  BY <1>1 DEF SameRefund, RowsOf
<1>3. RowsOf(t)' = [RowsOf(t) EXCEPT !.dispute = "RESOLVED", !.escrow = outcome,
                                     !.task = "COMPLETED"]
  BY <1>2, RowResolved, RowsAreRows
<1>4. Alone(t)!Resolve
  BY <1>2, <1>3 DEF Alone!Resolve
<1> QED
  BY <1>4 DEF Alone!TransactionsStep, Alone!TransactionsNext

LEMMA ClaimAlone ==
    ASSUME NEW t \in Tasks, SameTask(t), SameRefund(t), dispute'[t] = dispute[t],
           escrow[t].status \in {"HELD", "DISPUTED"},
           escrow'[t].status = "REFUND_PENDING", escrow'[t].doer = escrow[t].doer
    PROVE  Alone(t)!TransactionsStep
<1>1. Alone(t)!Claim
  BY DEF SameTask, SameRefund, RowsOf, Alone!Claim
<1> QED
  BY <1>1 DEF Alone!TransactionsStep, Alone!TransactionsNext

LEMMA SettleAlone ==
    ASSUME NEW t \in Tasks, SameTask(t), dispute'[t] = dispute[t],
           refund'[t] = "COMPLETED",
           escrow'[t].status = "REFUNDED", escrow'[t].doer = escrow[t].doer
    PROVE  Alone(t)!TransactionsStep
<1>1. /\ RowsOf(t)'.task = RowsOf(t).task /\ RowsOf(t)'.escrow = "REFUNDED"
      /\ RowsOf(t)'.profile = RowsOf(t).profile
      /\ RowsOf(t)'.dispute = RowsOf(t).dispute /\ RowsOf(t)'.refund = "COMPLETED"
  BY DEF SameTask, RowsOf
<1>2. RowsOf(t)' = [RowsOf(t) EXCEPT !.refund = "COMPLETED", !.escrow = "REFUNDED"]
  BY <1>1, RowSettled, RowsAreRows
<1>3. Alone(t)!Settle
  BY <1>2 DEF Alone!Settle
<1> QED
  BY <1>3 DEF Alone!TransactionsStep, Alone!TransactionsNext

-----------------------------------------------------------------------------
LEMMA TaskStepAlone ==
    ASSUME Sure, NEW p \in Procs, TaskStep(p), NEW t \in Tasks \ CashTasks
    PROVE  Alone(t)!TransactionsStep
<1> DEFINE u == proc[p].t
<1>1. /\ task \in [Tasks -> TaskRow] /\ escrow \in [Tasks -> EscrowRow]
      /\ dispute \in [Tasks -> DisputeStatus] /\ TypeOK /\ Employed(p) /\ Justified(p)
      /\ IsEscrow(t)
  BY DEF Sure, TypeOK, RowsOK, WorkInv, FundInv, IsEscrow
<1>2. u \in Tasks /\ refund' = refund
  BY <1>1 DEF TaskStep, CreateMoney, AcceptEscrow, AcceptWrite, StartWrite, CompleteWrite,
         ConfirmEscrow, ConfirmCash, ReleaseEscrow, CancelTx, CancelEscrow, DisputeTx,
         At, TaskPc, TypeOK, ProcsOK, rows
<1>3. CASE CreateMoney(p)
  <2>1. escrow[u].status = "NONE" /\ UNCHANGED <<task, dispute>>
    BY <1>1, <1>3 DEF CreateMoney, Justified
  <2>2. \/ escrow'[t] = escrow[t]
        \/ /\ escrow[t].status = "NONE" /\ escrow'[t].status = "PENDING"
           /\ escrow'[t].doer = escrow[t].doer
    BY <1>1, <1>3, <2>1 DEF CreateMoney, EscrowRow
  <2>3. RowsOf(t)' = RowsOf(t)
    BY <1>2, <2>1, <2>2 DEF RowsOf
  <2> QED BY <2>3 DEF Alone!TransactionsStep
<1>4. CASE AcceptEscrow(p) \/ ConfirmEscrow(p) \/ CancelEscrow(p)
  BY <1>4, RestAlone
     DEF AcceptEscrow, ConfirmEscrow, CancelEscrow, rows, Rests, SameTask, SameMoney,
         SameRefund
<1>5. CASE AcceptWrite(p) \/ StartWrite(p) \/ CompleteWrite(p) \/ ConfirmCash(p)
  <2>1. SameMoney(t) /\ SameRefund(t) /\ dispute' = dispute
    BY <1>5 DEF AcceptWrite, StartWrite, CompleteWrite, ConfirmCash, SameMoney, SameRefund
  <2>2. \/ SameTask(t)
        \/ task[t].status = "OPEN" /\ task'[t].status = "ASSIGNED"
        \/ task'[t].status \in {"IN_PROGRESS", "COMPLETED"}
    <3>1. CASE AcceptWrite(p)
      BY <1>1, <3>1, AcceptWriteEffect DEF SameTask
    <3>2. CASE CompleteWrite(p)
      BY <1>1, <3>2, CompleteWriteEffect DEF SameTask
    <3>3. CASE StartWrite(p) \/ ConfirmCash(p)
      BY <1>1, <3>3 DEF StartWrite, ConfirmCash, SameTask, TaskRow
    <3> QED BY <1>5, <3>1, <3>2, <3>3
  <2> QED BY <2>1, <2>2, RestAlone, TaskWriteAlone DEF Rests
<1>6. CASE ReleaseEscrow(p)
  <2>1. proc[p].who # NoUser
    BY <1>1, <1>6 DEF ReleaseEscrow, At, Employed, ForDoer
  <2>2. SameTask(t) /\ SameRefund(t) /\ dispute' = dispute
    BY <1>1, <1>2, <1>6 DEF ReleaseEscrow, SameTask, SameRefund, TaskRow
  <2>3. \/ escrow'[t] = escrow[t]
        \/ /\ escrow[t].status = "HELD" /\ escrow'[t].status = "RELEASED"
           /\ escrow'[t].doer # NoUser
    BY <1>1, <1>6, <2>1, ReleaseEffect
  <2> QED BY <2>2, <2>3, RestAlone, ReleaseAlone DEF Rests, SameMoney
<1>7. CASE CancelTx(p)
  <2>1. CASE t = u /\ task[u].status \in CANCELLABLE_STATUSES
    <3>1. task' = [task EXCEPT ![u].status = "CANCELLED"]
          /\ escrow' = IF escrow[t].status = "HELD"
                       THEN [escrow EXCEPT ![u].status = "REFUND_PENDING"] ELSE escrow
      BY <1>1, <1>7, <2>1 DEF CancelTx
    <3>2. /\ task'[t].status = "CANCELLED" /\ escrow'[t].doer = escrow[t].doer
          /\ escrow'[t].status = IF escrow[t].status = "HELD" THEN "REFUND_PENDING"
                                 ELSE escrow[t].status
      BY <1>1, <2>1, <3>1 DEF TaskRow, EscrowRow
    <3> QED BY <1>2, <1>7, <2>1, <3>2, CancelAlone DEF CancelTx, SameRefund
  <2>2. CASE t # u \/ task[u].status \notin CANCELLABLE_STATUSES
    <3>1. task'[t] = task[t] /\ escrow'[t] = escrow[t] /\ dispute' = dispute
      BY <1>1, <1>2, <1>7, <2>2 DEF CancelTx
    <3> QED BY <1>2, <3>1, RestAlone DEF Rests, SameTask, SameMoney, SameRefund
  <2> QED BY <2>1, <2>2
<1>8. CASE DisputeTx(p)
  <2>1. CASE t = u /\ dispute[u] = "NONE"
    <3>1. /\ task' = [task EXCEPT ![u].status = "DISPUTED"]
          /\ dispute' = [dispute EXCEPT ![u] = "OPEN"]
          /\ escrow' = [escrow EXCEPT ![u].status = "DISPUTED"]
      BY <1>1, <1>8, <2>1 DEF DisputeTx
    <3>2. /\ task'[t].status = "DISPUTED" /\ dispute'[t] = "OPEN"
          /\ escrow'[t].status = "DISPUTED" /\ escrow'[t].doer = escrow[t].doer
      BY <1>1, <2>1, <3>1 DEF TaskRow, EscrowRow
    <3> QED BY <1>2, <2>1, <3>2, DisputeAlone DEF SameRefund
  <2>2. CASE t # u \/ dispute[u] # "NONE"
    <3>1. task'[t] = task[t] /\ escrow'[t] = escrow[t] /\ dispute'[t] = dispute[t]
      BY <1>1, <1>2, <1>8, <2>2 DEF DisputeTx
    <3> QED BY <1>2, <3>1, RestAlone DEF Rests, SameTask, SameMoney, SameRefund
  <2> QED BY <2>1, <2>2
<1> QED
  BY <1>3, <1>4, <1>5, <1>6, <1>7, <1>8 DEF TaskStep

LEMMA PaymentStepAlone ==
    ASSUME Sure, NEW p \in Procs, PaymentStep(p), NEW t \in Tasks \ CashTasks
    PROVE  Alone(t)!TransactionsStep
<1> DEFINE u == proc[p].t
<1>1. /\ task \in [Tasks -> TaskRow] /\ TypeOK /\ Justified(p) /\ IsEscrow(t)
      /\ UNCHANGED <<refund, dispute>>
  BY DEF Sure, TypeOK, RowsOK, FundInv, IsEscrow, PaymentStep, OrderWrite,
         EscrowPaymentTx, FeePaymentTx, Announce
<1>2. CASE OrderWrite(p) \/ Announce(p)
  BY <1>2, RestAlone DEF OrderWrite, Announce, Rests, SameTask, SameMoney, SameRefund
<1>3. CASE FeePaymentTx(p)
  <2>1. t # u
    BY <1>1, <1>3 DEF FeePaymentTx, Justified
  <2>2. task'[t] = task[t] /\ escrow' = escrow
    BY <1>1, <1>3, <2>1 DEF FeePaymentTx
  <2> QED BY <1>1, <2>2, RestAlone DEF Rests, SameTask, SameMoney, SameRefund
<1>4. CASE EscrowPaymentTx(p)
  <2>1. task' = IF task[u].status = "PENDING_PAYMENT"
                THEN [task EXCEPT ![u].status = "OPEN"] ELSE task
    BY <1>4 DEF EscrowPaymentTx
  <2>2. CASE t # u
    <3>1. task'[t] = task[t] /\ escrow'[t] = escrow[t]
      BY <1>1, <1>4, <2>1, <2>2, EscrowPaymentEffect
    <3> QED BY <1>1, <3>1, RestAlone DEF Rests, SameTask, SameMoney, SameRefund
  <2>3. CASE t = u
    <3>1. /\ escrow[t].status # "NONE" /\ RowSound(t) /\ Worked(t)
      BY <1>1, <1>4, <2>3 DEF EscrowPaymentTx, Justified, Sure, FundInv, WorkInv
    <3>2. task[t].status # "NONE"
      BY <3>1 DEF RowSound
    <3>3. task'[t].status = IF task[t].status = "PENDING_PAYMENT" THEN "OPEN"
                            ELSE task[t].status
      BY <1>1, <2>1, <2>3 DEF TaskRow
    <3>4. CASE escrow[t].status = "PENDING"
      <4>1. /\ escrow'[t].doer = escrow[t].doer
            /\ escrow'[t].status = IF task[t].status = "CANCELLED"
                                   THEN "REFUND_PENDING" ELSE "HELD"
        <5> DEFINE s == IF task[u].status = "CANCELLED" THEN "REFUND_PENDING" ELSE "HELD"
                   r == [escrow[u] EXCEPT !.pay = proc[p].pay, !.status = s]
        <5>1. escrow' = [escrow EXCEPT ![u] = r]
          BY <1>4, <2>3, <3>4 DEF EscrowPaymentTx
        <5>2. escrow \in [Tasks -> EscrowRow]
          BY <1>1 DEF TypeOK, RowsOK
        <5>3. r.status = s /\ r.doer = escrow[t].doer
          <6> HIDE DEF s
          <6> QED BY <2>3, <5>2 DEF EscrowRow
        <5> HIDE DEF r
        <5> QED BY <2>3, <5>1, <5>2, <5>3
      <4> QED BY <1>1, <3>2, <3>3, <3>4, <4>1, FundAlone DEF SameRefund
    <3>5. CASE escrow[t].status # "PENDING"
      <4>1. escrow'[t] = escrow[t]
        BY <1>1, <1>4, <3>5, EscrowPaymentEffect
      <4>2. task'[t].status = task[t].status
        BY <3>1, <3>3, <3>5 DEF Worked, Funded
      <4> QED BY <1>1, <4>1, <4>2, RestAlone DEF Rests, SameTask, SameMoney, SameRefund
    <3> QED BY <3>4, <3>5
  <2> QED BY <2>2, <2>3
<1> QED
  BY <1>2, <1>3, <1>4 DEF PaymentStep

LEMMA RefundStepAlone ==
    ASSUME Sure, NEW p \in Procs, RefundStep(p), NEW t \in Tasks \ CashTasks
    PROVE  Alone(t)!TransactionsStep
<1> DEFINE u == proc[p].t
<1>1. /\ escrow \in [Tasks -> EscrowRow] /\ refund \in [Tasks -> RefundStatus]
      /\ UNCHANGED <<task, dispute>>
  BY DEF Sure, TypeOK, RowsOK, RefundStep, RefundReadEscrow, RefundReadExisting,
         RefundClaim, RefundCreate, Execute, ProviderConfirms, ProviderRefuses,
         ProviderAnswerLost, RefundComplete, RefundFailed, rows
<1>2. CASE RefundClaim(p)
  <2>1. \/ escrow'[t] = escrow[t]
        \/ /\ escrow[t].status \in {"HELD", "DISPUTED"}
           /\ escrow'[t].status = "REFUND_PENDING" /\ escrow'[t].doer = escrow[t].doer
    BY <1>1, <1>2 DEF RefundClaim, EscrowRow
  <2>2. refund' = refund
    BY <1>2 DEF RefundClaim
  <2> QED
    BY <1>1, <2>1, <2>2, RestAlone, ClaimAlone DEF Rests, SameTask, SameMoney, SameRefund
<1>3. CASE RefundComplete(p)
  <2>1. CASE t = u
    <3>1. /\ refund'[t] = "COMPLETED"
          /\ escrow'[t].status = "REFUNDED" /\ escrow'[t].doer = escrow[t].doer
      BY <1>1, <1>3, <2>1 DEF RefundComplete, EscrowRow
    <3> QED BY <1>1, <3>1, SettleAlone DEF SameTask
  <2>2. CASE t # u
    <3>1. escrow'[t] = escrow[t] /\ refund'[t] = refund[t]
      BY <1>1, <1>3, <2>2 DEF RefundComplete
    <3> QED BY <1>1, <3>1, RestAlone DEF Rests, SameTask, SameMoney, SameRefund
  <2> QED BY <2>1, <2>2
\* The refund is not settled before its transaction.
<1>4. CASE RefundCreate(p) \/ Execute(p) \/ RefundFailed(p)
  <2>1. escrow' = escrow
    BY <1>4 DEF RefundCreate, Execute, RefundFailed
  <2>2. \/ refund'[t] = refund[t]
        \/ refund'[t] # "COMPLETED" /\ refund[t] # "COMPLETED"
    <3>1. CASE RefundFailed(p)
      <4>1. refund[u] = "PROCESSING"
        BY <3>1 DEF RefundFailed, At, Sure, RefundInv, ExecutorClaimed, Executing
      <4> QED BY <1>1, <3>1, <4>1 DEF RefundFailed
    <3>2. CASE RefundCreate(p) \/ Execute(p)
      BY <1>1, <3>2 DEF RefundCreate, Execute, RefundRetryable
    <3> QED BY <1>4, <3>1, <3>2
  <2> QED BY <1>1, <2>1, <2>2, RestAlone DEF Rests, SameTask, SameMoney, SameRefund
<1>5. CASE ~(RefundClaim(p) \/ RefundComplete(p) \/ RefundCreate(p) \/ Execute(p)
               \/ RefundFailed(p))
  <2>1. UNCHANGED <<escrow, refund>>
    BY <1>5 DEF RefundStep, RefundReadEscrow, RefundReadExisting, ProviderConfirms,
                ProviderRefuses, ProviderAnswerLost, rows
  <2> QED BY <1>1, <2>1, RestAlone DEF Rests, SameTask, SameMoney, SameRefund
<1> QED
  BY <1>2, <1>3, <1>4, <1>5

LEMMA EnvironmentAlone ==
    ASSUME Sure, NEW u \in Tasks, Environment(u), NEW t \in Tasks \ CashTasks
    PROVE  Alone(t)!TransactionsStep
<1>1. /\ task \in [Tasks -> TaskRow] /\ escrow \in [Tasks -> EscrowRow]
      /\ dispute \in [Tasks -> DisputeStatus] /\ refund' = refund
      /\ RowSound(t) /\ IsEscrow(t)
  BY DEF Sure, TypeOK, RowsOK, FundInv, IsEscrow, Environment, PosterPays, CompletionAges,
         AdminWrite, MarkPaid, ResolveDispute
<1>2. CASE \E b \in BOOLEAN : ResolveDispute(u, b)
  <2>1. PICK b \in BOOLEAN : ResolveDispute(u, b)
    BY <1>2
  <2> DEFINE outcome == IF b THEN "REFUNDED" ELSE "RELEASED"
  <2>2. outcome \in {"REFUNDED", "RELEASED"}
    OBVIOUS
  <2>3. /\ dispute[u] # "NONE"
        /\ dispute' = [dispute EXCEPT ![u] = "RESOLVED"]
        /\ task' = [task EXCEPT ![u].status = "COMPLETED"]
        /\ escrow' = IF escrow[u].status = "NONE" THEN escrow
                     ELSE [escrow EXCEPT ![u].status = outcome]
    BY <2>1 DEF ResolveDispute
  <2> HIDE DEF outcome
  <2>4. CASE t = u
    <3>1. escrow[t].status # "NONE"
      BY <1>1, <2>3, <2>4 DEF RowSound, Funded
    <3>2. /\ dispute'[t] = "RESOLVED" /\ task'[t].status = "COMPLETED"
          /\ escrow'[t].status = outcome /\ escrow'[t].doer = escrow[t].doer
      BY <1>1, <2>3, <2>4, <3>1 DEF TaskRow, EscrowRow
    <3> QED BY <1>1, <2>2, <2>3, <2>4, <3>2, ResolveAlone DEF SameRefund
  <2>5. CASE t # u
    <3>1. task'[t] = task[t] /\ escrow'[t] = escrow[t] /\ dispute'[t] = dispute[t]
      BY <1>1, <2>3, <2>5
    <3> QED BY <1>1, <3>1, RestAlone DEF Rests, SameTask, SameMoney, SameRefund
  <2> QED BY <2>4, <2>5
<1>3. CASE ~\E b \in BOOLEAN : ResolveDispute(u, b)
  <2>1. UNCHANGED <<escrow, dispute>> /\ task'[t].status = task[t].status
    BY <1>1, <1>3 DEF Environment, PosterPays, CompletionAges, AdminWrite, MarkPaid, TaskRow
  <2> QED BY <1>1, <2>1, RestAlone DEF Rests, SameTask, SameMoney, SameRefund
<1> QED
  BY <1>2, <1>3

LEMMA NextAlone ==
    ASSUME Sure, [Next]_vars, NEW t \in Tasks \ CashTasks
    PROVE  Alone(t)!TransactionsStep
<1>1. ASSUME UNCHANGED <<task, escrow, refund, dispute>> PROVE Alone(t)!TransactionsStep
  BY <1>1, RestAlone DEF Rests, SameTask, SameMoney, SameRefund
<1>2. ASSUME NEW p \in Reqs, NEW u \in Tasks, Request(p, u)
      PROVE  Alone(t)!TransactionsStep
  <2>1. CASE CreateTask(p, u)
    <3>1. /\ UNCHANGED <<escrow, refund, dispute>>
          /\ \/ task'[t].status = task[t].status
             \/ task[t].status = "NONE" /\ task'[t].status = "PENDING_PAYMENT"
      BY <2>1 DEF CreateTask, Sure, TypeOK, RowsOK, TaskRow
    <3>2. RowsOf(t)' = RowsOf(t)
      BY <3>1 DEF RowsOf
    <3> QED BY <3>2 DEF Alone!TransactionsStep
  <2>2. CASE UNCHANGED rows
    BY <1>1, <2>2 DEF rows
  <2> QED
    BY <1>2, <2>1, <2>2
       DEF Request, TaskRequest, MarkStarted, MarkComplete, Confirm, ForceCancel,
           Accept, Cancel, RaiseDispute, PaymentRequest, InitiatePayment, Webhook,
           AdminRequest, InitiateEscrowRefund, RetryRefund
<1>3. ASSUME NEW p \in Procs, CronStarts(p) \/ CronStep(p) \/ PayoutStep(p) \/ Fail(p)
      PROVE  Alone(t)!TransactionsStep
  BY <1>1, <1>3
     DEF CronStarts, CronStep, ReconcileScan, AutoReleaseScan, AnomalyScan,
         ReconcileNext, AutoReleaseNext, SweepDone, PayoutStep, PayoutFind, PayoutCreate,
         PayoutUpdate, Fail, rows
<1>4. ASSUME NEW p \in Procs, Step(p) PROVE Alone(t)!TransactionsStep
  BY <1>3, <1>4, TaskStepAlone, PaymentStepAlone, RefundStepAlone DEF Step
<1>5. ASSUME NEW u \in Tasks, Environment(u) PROVE Alone(t)!TransactionsStep
  BY <1>5, EnvironmentAlone
<1>6. CASE UNCHANGED vars
  BY <1>1, <1>6 DEF vars
<1> QED
  BY <1>2, <1>3, <1>4, <1>5, <1>6 DEF Next, Procs

\* Every step on the rows of an escrow task, of whatever service and in whatever
\* order, is one of the transactions that Locks shows to be atomic over row
\* locks, or none: no step writes a task without the money it decides about.
THEOREM ServicesAreTransactions == Spec => StepsAreTransactions
<1>1. Spec => [](TypeOK /\ RefundInv)
  BY TypeCorrect, RefundInvInit, RefundInvStep, PTL DEF Spec
<1>2. Spec => []WorkInv
  BY PromiseInvAlways, WorkInvInit, WorkInvStep, PTL DEF Spec
<1>3. TypeOK /\ RefundInv /\ FundInv /\ ReleaseInv /\ PostInv /\ WorkInv /\ [Next]_vars
        => \A t \in Tasks \ CashTasks : Alone(t)!TransactionsStep
  BY NextAlone DEF Sure
<1> QED
  BY <1>1, <1>2, <1>3, PromiseInvAlways, PTL DEF Spec, StepsAreTransactions
=============================================================================
