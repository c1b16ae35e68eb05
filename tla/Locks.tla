------------------------------- MODULE Locks --------------------------------
(***************************************************************************)
(* The database transactions of one escrow task, statement by statement,   *)
(* over PostgreSQL's row locks at its default isolation, READ COMMITTED.   *)
(* An UPDATE that finds its row as its WHERE wants it locks the row until  *)
(* the transaction ends; if another transaction has it locked, it waits    *)
(* and then looks at the WHERE again.  A row that does not match is passed *)
(* over without waiting.  Each service method checks before it begins, on  *)
(* values that may be stale at its first statement.                        *)
(***************************************************************************)
EXTENDS Naturals, Sequences, FiniteSets

CONSTANTS
    Txns,       \* slots for concurrent transactions (database connections)
    Unlocked    \* not a value of any row

VARIABLES
    row,        \* the committed rows of the task
    txn,        \* the transactions in flight
    draft       \* what each has locked, with the values it will commit

vars == <<row, txn, draft>>

Rows == {"task", "escrow", "profile", "dispute", "refund"}
TaskStatus == {"PENDING_PAYMENT", "OPEN", "ASSIGNED", "COMPLETED", "CANCELLED", "DISPUTED"}
EscrowStatus == {"PENDING", "HELD", "RELEASED", "REFUNDED", "DISPUTED", "REFUND_PENDING"}
Values == TaskStatus \cup EscrowStatus
            \cup {"uncredited", "credited", "NONE", "RESOLVED", "unsettled"}

ASSUME LocksAssumption == IsFiniteSet(Txns) /\ Unlocked \notin Values

CANCELLABLE_STATUSES == {"PENDING_PAYMENT", "OPEN", "ASSIGNED"}
REFUNDABLE_ESCROW_STATES == {"HELD", "DISPUTED", "REFUND_PENDING"}

-----------------------------------------------------------------------------
(* What the transactions do.  A statement gives its row the value "to" if  *)
(* the value it has is in "from"; a WHERE on the id alone takes any value. *)

Swap(r, from, to) == [row |-> r, from |-> from, to |-> to]
Set(r, to) == Swap(r, Values, to)
Touch(r) == Set(r, Unlocked)        \* writes a column beside the status
Look(r) == Swap(r, {}, Unlocked)    \* a plain read

\* executeCancel that trusts the check made before the transaction (mutant).
CancelBlind == <<Set("task", "CANCELLED"), Swap("escrow", {"HELD"}, "REFUND_PENDING")>>

CancelScript ==
    <<Swap("task", CANCELLABLE_STATUSES, "CANCELLED"),
      Swap("escrow", {"HELD"}, "REFUND_PENDING")>>

\* The webhook that holds the money before it promotes the task (mutant).
FundMoneyFirst(hit, seen) ==
    <<Swap("escrow", {"PENDING"}, "HELD"), Swap("task", {"PENDING_PAYMENT"}, "OPEN")>>

\* applyEscrowPayment: when the first statement counted nothing (not "hit"),
\* it reads the task ("seen") and decides by that.
FundScript(hit, seen) ==
    <<Swap("task", {"PENDING_PAYMENT"}, "OPEN")>>
      \o (IF hit THEN <<>> ELSE <<Look("task")>>)
      \o <<Swap("escrow", {"PENDING"},
                IF ~hit /\ seen = "CANCELLED" THEN "REFUND_PENDING" ELSE "HELD")>>

\* releaseEscrow credits the doer if its CAS hit; for confirm it goes on to
\* the task either way.
ReleaseScript(hit, markConfirmed) ==
    <<Swap("escrow", {"HELD"}, "RELEASED")>>
      \o (IF hit THEN <<Set("profile", "credited")>> ELSE <<>>)
      \o (IF markConfirmed THEN <<Touch("task")>> ELSE <<>>)

\* raiseDispute with its statements in another order (mutant).
DisputeMoneyFirst ==
    <<Set("escrow", "DISPUTED"), Set("task", "DISPUTED"),
      Swap("dispute", {"NONE"}, "OPEN")>>

DisputeScript ==
    <<Set("task", "DISPUTED"), Swap("dispute", {"NONE"}, "OPEN"),
      Set("escrow", "DISPUTED")>>

\* resolveDispute, by its outcome for the escrow.
ResolveScript(outcome) ==
    <<Set("dispute", "RESOLVED"), Set("escrow", outcome), Set("task", "COMPLETED")>>

\* The result of RefundService.execute.
SettleScript == <<Set("refund", "COMPLETED"), Set("escrow", "REFUNDED")>>

Kinds == {"accept", "start", "complete", "claim", "cancel", "fund", "confirm",
          "autoRelease", "dispute", "REFUNDED", "RELEASED", "settle"}

\* accept, markStarted, markComplete and initiateForEscrow's claim are single
\* statements.
Script(kind, hit, seen) ==
    CASE kind = "accept" -> <<Swap("task", {"OPEN"}, "ASSIGNED")>>
      [] kind = "start" -> <<Set("task", "ASSIGNED")>>
      [] kind = "complete" -> <<Set("task", "COMPLETED")>>
      [] kind = "claim" -> <<Swap("escrow", {"HELD", "DISPUTED"}, "REFUND_PENDING")>>
      [] kind = "cancel" -> CancelScript
      [] kind = "fund" -> FundScript(hit, seen)
      [] kind \in {"confirm", "autoRelease"} -> ReleaseScript(hit, kind = "confirm")
      [] kind = "dispute" -> DisputeScript
      [] kind \in {"REFUNDED", "RELEASED"} -> ResolveScript(kind)
      [] kind = "settle" -> SettleScript

\* cancel throws when its CAS counts nothing, and the unique taskId rejects a
\* second dispute: the transaction is rolled back.
MustHit(kind, r) == <<kind, r>> \in {<<"cancel", "task">>, <<"dispute", "dispute">>}

\* What the method checks on the rows before it starts the transaction; a
\* resolution, by its outcome, asks only for a dispute.
Allowed(kind) ==
    CASE kind = "accept" -> row.task = "OPEN" /\ row.escrow = "HELD"
      [] kind \in {"start", "complete"} -> row.task = "ASSIGNED"
      [] kind = "claim" -> row.escrow \in REFUNDABLE_ESCROW_STATES
      [] kind = "cancel" -> row.task \in CANCELLABLE_STATUSES
      [] kind = "fund" -> row.escrow = "PENDING"
      [] kind \in {"confirm", "autoRelease"} ->
           row.task = "COMPLETED" /\ row.escrow = "HELD"
      [] kind = "dispute" -> row.task \in {"ASSIGNED", "COMPLETED"}
      [] kind \in {"REFUNDED", "RELEASED"} -> row.dispute # "NONE"
      [] kind = "settle" ->
           /\ row.escrow \in REFUNDABLE_ESCROW_STATES
           /\ row.refund = "unsettled"
           /\ \A y \in Txns : txn[y].kind # "settle"

-----------------------------------------------------------------------------
(* Locks *)

Idle == [kind |-> "idle", pc |-> 0, hit |-> FALSE, seen |-> "NONE", waits |-> FALSE]
Free == [r \in Rows |-> Unlocked]

Active(x) == txn[x].kind # "idle"
Statements(x) == Script(txn[x].kind, txn[x].hit, txn[x].seen)
Running(x) == Active(x) /\ txn[x].pc <= Len(Statements(x))
Statement(x) == Statements(x)[txn[x].pc]

Holds(x, r) == draft[x][r] # Unlocked
Locked(x, r) == \E y \in Txns \ {x} : Holds(y, r)
Seen(x, r) == IF Holds(x, r) THEN draft[x][r] ELSE row[r]
Matches(x) == Seen(x, Statement(x).row) \in Statement(x).from

WaitsFor(x, y) == txn[x].waits /\ x # y /\ Holds(y, Statement(x).row)

\* A set of transactions none of which goes on unless another one of it does.
Deadlocked(S) == S # {} /\ \A x \in S : \E y \in S : WaitsFor(x, y)

-----------------------------------------------------------------------------
Begin(x, kind) ==
    /\ ~Active(x)
    /\ Allowed(kind)
    /\ txn' = [txn EXCEPT ![x] = [Idle EXCEPT !.kind = kind, !.pc = 1]]
    /\ UNCHANGED <<row, draft>>

\* The statement counted one row or none; what the first one counted is kept.
Advance(x, count) ==
    txn' = [txn EXCEPT ![x].pc = @ + 1, ![x].waits = FALSE,
                       ![x].hit = IF txn[x].pc = 1 THEN count = 1 ELSE @,
                       ![x].seen = IF Statement(x) = Look("task") THEN Seen(x, "task")
                                    ELSE @]

End(x) ==
    /\ txn' = [txn EXCEPT ![x] = Idle]
    /\ draft' = [draft EXCEPT ![x] = Free]

PassOver(x) ==
    /\ Running(x)
    /\ ~txn[x].waits
    /\ ~Matches(x)
    /\ IF MustHit(txn[x].kind, Statement(x).row) THEN End(x)
       ELSE Advance(x, 0) /\ UNCHANGED draft
    /\ UNCHANGED row

Wait(x) ==
    /\ Running(x)
    /\ ~txn[x].waits
    /\ Matches(x)
    /\ Locked(x, Statement(x).row)
    /\ txn' = [txn EXCEPT ![x].waits = TRUE]
    /\ UNCHANGED <<row, draft>>

\* Having waited, the statement keeps the lock even if it does not match.
Take(x) ==
    LET s == Statement(x) IN
    /\ Running(x)
    /\ txn[x].waits \/ Matches(x)
    /\ ~Locked(x, s.row)
    /\ IF Matches(x)
       THEN /\ draft' = [draft EXCEPT ![x][s.row] =
                           IF s.to = Unlocked THEN Seen(x, s.row) ELSE s.to]
            /\ Advance(x, 1)
       ELSE IF MustHit(txn[x].kind, s.row) THEN End(x)
       ELSE /\ draft' = [draft EXCEPT ![x][s.row] = Seen(x, s.row)]
            /\ Advance(x, 0)
    /\ UNCHANGED row

Commit(x) ==
    /\ Active(x)
    /\ ~Running(x)
    /\ row' = [r \in Rows |-> IF Holds(x, r) THEN draft[x][r] ELSE row[r]]
    /\ End(x)

\* The process dies, the client library's timeout ends the transaction, or the
\* server aborts it because it is in a deadlock.
RollBack(x) ==
    /\ Active(x)
    /\ End(x)
    /\ UNCHANGED row

-----------------------------------------------------------------------------
Promise == INSTANCE Transactions

Init ==
    /\ Promise!TransactionsInit
    /\ txn = [x \in Txns |-> Idle]
    /\ draft = [x \in Txns |-> Free]

Next ==
    \E x \in Txns :
        \/ \E kind \in Kinds : Begin(x, kind)
        \/ PassOver(x) \/ Wait(x) \/ Take(x) \/ Commit(x) \/ RollBack(x)

Spec == Init /\ [][Next]_vars

-----------------------------------------------------------------------------
\* No CANCELLED task has HELD money, although cancel, the webhook and the
\* others read committed values between each other's statements, and look at
\* a row that another one is about to change (executeCancel,
\* applyEscrowPayment).
NoCancelledHeld == row.escrow = "HELD" => row.task # "CANCELLED"

\* cancel and the webhook "serialize on the task row without deadlock"
\* (applyEscrowPayment), and so does every other transaction that writes the
\* task first: each deadlock has a confirm or a resolution in it, which write
\* the escrow before the task.
DeadlocksNeedEscrowFirst ==
    \A S \in SUBSET Txns :
        Deadlocked(S) => \E x \in S : txn[x].kind \in {"confirm", "REFUNDED", "RELEASED"}

\* Every transaction has the effect it would have had alone at the moment it
\* commits, or none: the steps of the money core are as atomic as the modules
\* on top of it take them to be (all $transaction blocks).
CommitsAreAtomic == Promise!TransactionsSpec
=============================================================================
