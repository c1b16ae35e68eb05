----------------------------- MODULE LocksProofs -----------------------------
(***************************************************************************)
(* For any number of connections: what the transactions commit is what     *)
(* they would have done alone, and they deadlock only over the escrow.     *)
(* A transaction holds with its locks what it saw, so the rows it changes  *)
(* are as it found them.  A row it passed over it does not hold; that the  *)
(* row still does not match when it commits depends on who else may write  *)
(* it, and on the two phases of a task, before and after it is paid for.   *)
(***************************************************************************)
EXTENDS Locks, SequenceTheorems, TLAPS

Column == [task |-> TaskStatus, escrow |-> EscrowStatus,
           profile |-> {"uncredited", "credited"},
           dispute |-> {"NONE", "OPEN", "RESOLVED"},
           refund |-> {"unsettled", "COMPLETED"}]

TxnType == [kind : Kinds \cup {"idle"}, pc : Nat, hit : BOOLEAN,
            seen : TaskStatus \cup {"NONE"}, waits : BOOLEAN]

Typed ==
    /\ row \in [Rows -> Values] /\ \A r \in Rows : row[r] \in Column[r]
    /\ txn \in [Txns -> TxnType]
    /\ draft \in [Txns -> [Rows -> Values \cup {Unlocked}]]
    /\ \A x \in Txns, r \in Rows : Holds(x, r) => draft[x][r] \in Column[r]

Exclusive == \A x, y \in Txns, r \in Rows : Holds(x, r) /\ Holds(y, r) => x = y

\* Before its payment a task can only be cancelled.
Phases ==
    /\ row.escrow = "PENDING" => row.task \in {"PENDING_PAYMENT", "CANCELLED"} /\ row.dispute = "NONE"
    /\ row.task = "PENDING_PAYMENT" => row.escrow = "PENDING"

Is(x, kinds) == txn[x].kind \in kinds
Past(x, n) == txn[x].pc > n

\* x holds no rows but these.
Only(x, rows) == \A r \in Rows \ rows : ~Holds(x, r)
Same(x, r) == Holds(x, r) => draft[x][r] = row[r]
Swaps(x, r, from, to) == row[r] \in from /\ draft[x][r] = to

\* What a transaction of some kind has done so far, and to which rows.
Single(x) ==
    /\ Is(x, {"accept"}) => Only(x, {"task"}) /\
         (Same(x, "task") \/ Swaps(x, "task", {"OPEN"}, "ASSIGNED"))
    /\ Is(x, {"start"}) => Only(x, {"task"}) /\ (Past(x, 1) => draft[x].task = "ASSIGNED")
    /\ Is(x, {"complete"}) => Only(x, {"task"}) /\ (Past(x, 1) => draft[x].task = "COMPLETED")
    /\ Is(x, {"claim"}) => Only(x, {"escrow"}) /\
         (Same(x, "escrow") \/ Swaps(x, "escrow", {"HELD", "DISPUTED"}, "REFUND_PENDING"))

Cancels(x) == Is(x, {"cancel"}) =>
    /\ Only(x, {"task", "escrow"})
    /\ ~Past(x, 2) => ~Holds(x, "escrow")
    /\ Past(x, 1) => Swaps(x, "task", CANCELLABLE_STATUSES, "CANCELLED")
    /\ Past(x, 2) => \/ Swaps(x, "escrow", {"HELD"}, "REFUND_PENDING")
                     \/ Same(x, "escrow") /\ row.escrow # "HELD"

Funds(x) == Is(x, {"fund"}) =>
    /\ Only(x, {"task", "escrow"})
    /\ ~Past(x, IF txn[x].hit THEN 2 ELSE 3) => ~Holds(x, "escrow")
    /\ txn[x].hit => /\ Swaps(x, "task", {"PENDING_PAYMENT"}, "OPEN")
                     /\ Past(x, 2) => Swaps(x, "escrow", {"PENDING"}, "HELD")
    /\ ~txn[x].hit => /\ Same(x, "task")
                      /\ ~txn[x].waits \/ txn[x].pc # 2
                      /\ row.escrow = "PENDING" =>
                           /\ Past(x, 1) => row.task = "CANCELLED"
                           /\ Past(x, 2) => txn[x].seen = "CANCELLED"
                      /\ \/ Same(x, "escrow")
                         \/ Swaps(x, "escrow", {"PENDING"}, "REFUND_PENDING")

Releases(x) == Is(x, {"confirm", "autoRelease"}) =>
    /\ Only(x, IF Is(x, {"confirm"}) THEN {"escrow", "profile", "task"} ELSE {"escrow", "profile"})
    /\ ~Past(x, 2) => ~Holds(x, "profile")
    /\ IF txn[x].hit THEN /\ Swaps(x, "escrow", {"HELD"}, "RELEASED")
                          /\ Past(x, 2) => draft[x].profile = "credited"
       ELSE Same(x, "escrow") /\ ~Holds(x, "profile")
    /\ Same(x, "task")

Disputes(x) == Is(x, {"dispute"}) =>
    /\ Only(x, {"task", "dispute", "escrow"})
    /\ ~Past(x, 2) => ~Holds(x, "dispute")
    /\ ~Past(x, 3) => ~Holds(x, "escrow")
    /\ Past(x, 1) => draft[x].task = "DISPUTED"
    /\ Past(x, 2) => Swaps(x, "dispute", {"NONE"}, "OPEN")
    /\ Past(x, 3) => draft[x].escrow = "DISPUTED"

Resolves(x) == Is(x, {"REFUNDED", "RELEASED"}) =>
    /\ Only(x, {"task", "dispute", "escrow"})
    /\ row.dispute # "NONE"
    /\ Past(x, 1) => draft[x].dispute = "RESOLVED"
    /\ Past(x, 2) => draft[x].escrow = txn[x].kind
    /\ Past(x, 3) => draft[x].task = "COMPLETED"

Settles(x) == Is(x, {"settle"}) =>
    /\ Only(x, {"refund", "escrow"})
    /\ ~Past(x, 2) => ~Holds(x, "escrow")
    /\ Past(x, 1) => draft[x].refund = "COMPLETED"
    /\ Past(x, 2) => draft[x].escrow = "REFUNDED"

Sound(x) ==
    /\ ~Active(x) => txn[x] = Idle
    /\ Active(x) => txn[x].pc \in 1 .. Len(Statements(x)) + 1
    /\ ~Past(x, 1) => draft[x] = Free /\ ~txn[x].hit
    /\ Active(x) /\ ~Is(x, {"cancel", "fund"}) => row.escrow # "PENDING"
    /\ txn[x].waits => Running(x)
    /\ Single(x) /\ Cancels(x) /\ Funds(x) /\ Releases(x)
    /\ Disputes(x) /\ Resolves(x) /\ Settles(x)

LockInv == Exclusive /\ Phases /\ NoCancelledHeld /\ \A x \in Txns : Sound(x)

-----------------------------------------------------------------------------
(* The statements, one by one.                                             *)

LEMMA Join ==
    ASSUME NEW a, NEW b, NEW c
    PROVE  /\ (<<a>> \o <<>>) \o <<c>> = <<a, c>>
           /\ (<<a>> \o <<b>>) \o <<c>> = <<a, b, c>>
           /\ (<<a>> \o <<b>>) \o <<>> = <<a, b>>
           /\ (<<a>> \o <<>>) \o <<>> = <<a>>
<1> DEFINE S == {a, b, c}
<1>1. <<a>> \in Seq(S) /\ <<b>> \in Seq(S) /\ <<c>> \in Seq(S) /\ <<>> \in Seq(S)
      /\ <<a, b>> \in Seq(S) /\ <<a, c>> \in Seq(S) /\ <<a, b, c>> \in Seq(S)
  OBVIOUS
<1>2. <<a>> \o <<>> = <<a>>
  BY <1>1, ConcatEmptySeq
<1>3. ASSUME NEW d \in S PROVE <<a>> \o <<d>> = <<a, d>>
  <2>1. <<a>> \in Seq(S) /\ <<d>> \in Seq(S) /\ <<a, d>> \in Seq(S)
    BY <1>3
  <2>2. /\ <<a>> \o <<d>> \in Seq(S)
        /\ Len(<<a>> \o <<d>>) = 2
        /\ (<<a>> \o <<d>>)[1] = a /\ (<<a>> \o <<d>>)[2] = d
    BY <2>1, ConcatProperties
  <2> DEFINE t == <<a>> \o <<d>>
  <2> HIDE DEF t
  <2>3. Len(t) = Len(<<a, d>>) /\ \A i \in 1 .. Len(t) : t[i] = <<a, d>>[i]
    BY <2>2 DEF t
  <2> QED BY <2>1, <2>2, <2>3, SeqEqual DEF t
<1>4. <<a, b>> \o <<c>> = <<a, b, c>>
  <2>1. /\ <<a, b>> \o <<c>> \in Seq(S)
        /\ Len(<<a, b>> \o <<c>>) = 3
        /\ (<<a, b>> \o <<c>>)[1] = a /\ (<<a, b>> \o <<c>>)[2] = b
        /\ (<<a, b>> \o <<c>>)[3] = c
    BY <1>1, ConcatProperties
  <2> DEFINE t == <<a, b>> \o <<c>>
  <2> HIDE DEF t
  <2>2. Len(t) = Len(<<a, b, c>>) /\ \A i \in 1 .. Len(t) : t[i] = <<a, b, c>>[i]
    BY <2>1 DEF t
  <2> QED BY <1>1, <2>1, <2>2, SeqEqual DEF t
<1>5. <<a, b>> \o <<>> = <<a, b>>
  BY <1>1, ConcatEmptySeq
<1> QED
  BY <1>2, <1>3, <1>4, <1>5

\* The payment's value for the escrow.
Held(hit, seen) == IF ~hit /\ seen = "CANCELLED" THEN "REFUND_PENDING" ELSE "HELD"

LEMMA Scripts ==
    ASSUME NEW hit \in BOOLEAN, NEW seen
    PROVE  /\ Script("accept", hit, seen) = <<Swap("task", {"OPEN"}, "ASSIGNED")>>
           /\ Script("start", hit, seen) = <<Set("task", "ASSIGNED")>>
           /\ Script("complete", hit, seen) = <<Set("task", "COMPLETED")>>
           /\ Script("claim", hit, seen)
                = <<Swap("escrow", {"HELD", "DISPUTED"}, "REFUND_PENDING")>>
           /\ Script("cancel", hit, seen)
                = <<Swap("task", CANCELLABLE_STATUSES, "CANCELLED"),
                    Swap("escrow", {"HELD"}, "REFUND_PENDING")>>
           /\ hit => Script("fund", hit, seen) =
                <<Swap("task", {"PENDING_PAYMENT"}, "OPEN"),
                  Swap("escrow", {"PENDING"}, Held(hit, seen))>>
           /\ ~hit => Script("fund", hit, seen) =
                <<Swap("task", {"PENDING_PAYMENT"}, "OPEN"), Look("task"),
                  Swap("escrow", {"PENDING"}, Held(hit, seen))>>
           /\ hit => Script("confirm", hit, seen) =
                <<Swap("escrow", {"HELD"}, "RELEASED"),
                  Set("profile", "credited"), Touch("task")>>
           /\ ~hit => Script("confirm", hit, seen) =
                <<Swap("escrow", {"HELD"}, "RELEASED"), Touch("task")>>
           /\ hit => Script("autoRelease", hit, seen) =
                <<Swap("escrow", {"HELD"}, "RELEASED"), Set("profile", "credited")>>
           /\ ~hit => Script("autoRelease", hit, seen) =
                <<Swap("escrow", {"HELD"}, "RELEASED")>>
           /\ Script("dispute", hit, seen) =
                <<Set("task", "DISPUTED"), Swap("dispute", {"NONE"}, "OPEN"),
                  Set("escrow", "DISPUTED")>>
           /\ \A k \in {"REFUNDED", "RELEASED"} :
                Script(k, hit, seen) = <<Set("dispute", "RESOLVED"), Set("escrow", k),
                                         Set("task", "COMPLETED")>>
           /\ Script("settle", hit, seen) =
                <<Set("refund", "COMPLETED"), Set("escrow", "REFUNDED")>>
<1>1. Script("fund", hit, seen) =
        IF hit THEN <<Swap("task", {"PENDING_PAYMENT"}, "OPEN"),
                      Swap("escrow", {"PENDING"}, Held(hit, seen))>>
        ELSE <<Swap("task", {"PENDING_PAYMENT"}, "OPEN"), Look("task"),
               Swap("escrow", {"PENDING"}, Held(hit, seen))>>
  <2>1. Script("fund", hit, seen) = FundScript(hit, seen)
    BY DEF Script
  <2> QED BY ZenonT(40), <2>1, Join DEF FundScript, Held
<1>2. Script("confirm", hit, seen) = ReleaseScript(hit, TRUE)
      /\ Script("autoRelease", hit, seen) = ReleaseScript(hit, FALSE)
  BY DEF Script
<1>3. ReleaseScript(hit, TRUE) =
        IF hit THEN <<Swap("escrow", {"HELD"}, "RELEASED"),
                      Set("profile", "credited"), Touch("task")>>
        ELSE <<Swap("escrow", {"HELD"}, "RELEASED"), Touch("task")>>
  BY Join DEF ReleaseScript
<1>4. ReleaseScript(hit, FALSE) =
        IF hit THEN <<Swap("escrow", {"HELD"}, "RELEASED"), Set("profile", "credited")>>
        ELSE <<Swap("escrow", {"HELD"}, "RELEASED")>>
  BY Join DEF ReleaseScript
<1>5. \A k \in {"REFUNDED", "RELEASED"} :
        Script(k, hit, seen) = <<Set("dispute", "RESOLVED"), Set("escrow", k),
                                 Set("task", "COMPLETED")>>
  BY DEF Script, ResolveScript
<1> QED
  BY <1>1, <1>2, <1>3, <1>4, <1>5 DEF Script, CancelScript, DisputeScript, SettleScript

\* How many statements a transaction has, and the one it is at.
LEMMA Lengths ==
    ASSUME NEW t \in TxnType
    PROVE  LET l == Len(Script(t.kind, t.hit, t.seen)) IN
           /\ t.kind \in {"accept", "start", "complete", "claim"} => l = 1
           /\ t.kind \in {"cancel", "settle"} => l = 2
           /\ t.kind = "fund" => l = IF t.hit THEN 2 ELSE 3
           /\ t.kind = "confirm" => l = IF t.hit THEN 3 ELSE 2
           /\ t.kind = "autoRelease" => l = IF t.hit THEN 2 ELSE 1
           /\ t.kind \in {"dispute", "REFUNDED", "RELEASED"} => l = 3
<1> DEFINE l == Len(Script(t.kind, t.hit, t.seen))
<1>1. t.hit \in BOOLEAN
  BY DEF TxnType
<1>2. t.kind \in {"accept", "start", "complete", "claim"} => l = 1
  BY <1>1, Scripts
<1>3. t.kind \in {"cancel", "settle"} => l = 2
  BY <1>1, Scripts
<1>4. ASSUME NEW h \in BOOLEAN, NEW seen
      PROVE  /\ Len(Script("fund", h, seen)) = IF h THEN 2 ELSE 3
             /\ Len(Script("confirm", h, seen)) = IF h THEN 3 ELSE 2
             /\ Len(Script("autoRelease", h, seen)) = IF h THEN 2 ELSE 1
  <2> DEFINE f == <<Swap("task", {"PENDING_PAYMENT"}, "OPEN"),
                    Swap("escrow", {"PENDING"}, Held(h, seen))>>
             c == <<Swap("escrow", {"HELD"}, "RELEASED"), Set("profile", "credited"), Touch("task")>>
             a == <<Swap("escrow", {"HELD"}, "RELEASED"), Set("profile", "credited")>>
  <2>1. Len(f) = 2 /\ Len(c) = 3 /\ Len(a) = 2
    OBVIOUS
  <2>2. /\ h => Script("fund", h, seen) = f
        /\ h => Script("confirm", h, seen) = c
        /\ h => Script("autoRelease", h, seen) = a
    BY Scripts
  <2>3. /\ ~h => Len(Script("fund", h, seen)) = 3
        /\ ~h => Len(Script("confirm", h, seen)) = 2
        /\ ~h => Len(Script("autoRelease", h, seen)) = 1
    BY Scripts
  <2> HIDE DEF f, c, a
  <2> QED BY <2>1, <2>2, <2>3
<1>5. t.kind \in {"dispute", "REFUNDED", "RELEASED"} => l = 3
  BY <1>1, Scripts
<1> HIDE DEF l
<1> QED
  BY <1>1, <1>2, <1>3, <1>4, <1>5 DEF l

LEMMA SomeStatements ==
    ASSUME NEW t \in TxnType, t.kind \in Kinds
    PROVE  Len(Script(t.kind, t.hit, t.seen)) \in 1 .. 3
<1> DEFINE l == Len(Script(t.kind, t.hit, t.seen))
<1>1. l = 1 \/ l = 2 \/ l = 3
  BY Lengths DEF Kinds
<1> HIDE DEF l
<1> QED
  BY <1>1 DEF l

LEMMA Table ==
    ASSUME NEW x, txn[x] \in TxnType, Running(x), txn[x].pc # 0
    PROVE  LET s == Statement(x)  n == txn[x].pc  h == txn[x].hit IN
           /\ Is(x, {"accept"}) => n = 1 /\ s = Swap("task", {"OPEN"}, "ASSIGNED")
           /\ Is(x, {"start"}) => n = 1 /\ s = Set("task", "ASSIGNED")
           /\ Is(x, {"complete"}) => n = 1 /\ s = Set("task", "COMPLETED")
           /\ Is(x, {"claim"}) => n = 1 /\ s = Swap("escrow", {"HELD", "DISPUTED"}, "REFUND_PENDING")
           /\ Is(x, {"cancel"}) =>
                \/ n = 1 /\ s = Swap("task", CANCELLABLE_STATUSES, "CANCELLED")
                \/ n = 2 /\ s = Swap("escrow", {"HELD"}, "REFUND_PENDING")
           /\ Is(x, {"fund"}) =>
                \/ n = 1 /\ s = Swap("task", {"PENDING_PAYMENT"}, "OPEN")
                \/ n = 2 /\ ~h /\ s = Look("task")
                \/ n = (IF h THEN 2 ELSE 3) /\ s = Swap("escrow", {"PENDING"}, Held(h, txn[x].seen))
           /\ Is(x, {"confirm", "autoRelease"}) =>
                \/ n = 1 /\ s = Swap("escrow", {"HELD"}, "RELEASED")
                \/ n = 2 /\ h /\ s = Set("profile", "credited")
                \/ n = (IF h THEN 3 ELSE 2) /\ Is(x, {"confirm"}) /\ s = Touch("task")
           /\ Is(x, {"dispute"}) =>
                \/ n = 1 /\ s = Set("task", "DISPUTED")
                \/ n = 2 /\ s = Swap("dispute", {"NONE"}, "OPEN")
                \/ n = 3 /\ s = Set("escrow", "DISPUTED")
           /\ Is(x, {"REFUNDED", "RELEASED"}) =>
                \/ n = 1 /\ s = Set("dispute", "RESOLVED")
                \/ n = 2 /\ s = Set("escrow", txn[x].kind)
                \/ n = 3 /\ s = Set("task", "COMPLETED")
           /\ Is(x, {"settle"}) =>
                \/ n = 1 /\ s = Set("refund", "COMPLETED")
                \/ n = 2 /\ s = Set("escrow", "REFUNDED")
<1> DEFINE n == txn[x].pc
           t == Statements(x)
<1>1. txn[x].kind \in Kinds /\ txn[x].hit \in BOOLEAN /\ n \in Nat \ {0} /\ Active(x)
  BY DEF TxnType, Active, Running
<1>2. n <= Len(t) /\ Statement(x) = t[n]
  BY DEF Running, Statement
<1>3. t = Script(txn[x].kind, txn[x].hit, txn[x].seen)
  BY DEF Statements
<1> HIDE DEF t
<1>4. n <= 3
  BY <1>1, <1>2, <1>3, Lengths DEF Kinds
<1>5. n = 1 \/ n = 2 \/ n = 3
  BY <1>1, <1>4
<1>6. CASE Is(x, {"accept", "start", "complete", "claim", "cancel", "settle"})
  BY <1>1, <1>2, <1>3, <1>5, <1>6, Scripts DEF Is
<1>7. CASE Is(x, {"fund"})
  BY <1>1, <1>2, <1>3, <1>5, <1>7, Scripts DEF Is
<1>8. CASE Is(x, {"confirm", "autoRelease"})
  BY <1>1, <1>2, <1>3, <1>5, <1>8, Scripts DEF Is
<1>9. CASE Is(x, {"dispute", "REFUNDED", "RELEASED"})
  BY <1>1, <1>2, <1>3, <1>5, <1>9, Scripts DEF Is
<1> QED
  BY <1>1, <1>6, <1>7, <1>8, <1>9 DEF Is, Kinds

-----------------------------------------------------------------------------
(* What a step does to the transaction that takes it; the others it leaves *)
(* as they are.                                                            *)

Alone(x) == txn' = [txn EXCEPT ![x] = txn'[x]] /\ draft' = [draft EXCEPT ![x] = draft'[x]]

Counted(x, count) ==
    [txn[x] EXCEPT !.pc = @ + 1, !.waits = FALSE,
                   !.hit = IF txn[x].pc = 1 THEN count = 1 ELSE @,
                   !.seen = IF Statement(x) = Look("task") THEN Seen(x, "task") ELSE @]

Waited(x) ==
    /\ Matches(x)
    /\ txn'[x] = [txn[x] EXCEPT !.waits = TRUE]
    /\ draft'[x] = draft[x]

\* The draft of x with a value for the statement's row.
With(x, v) == [draft[x] EXCEPT ![Statement(x).row] = v]

Hit(x) ==
    /\ Matches(x)
    /\ ~Locked(x, Statement(x).row)
    /\ txn'[x] = Counted(x, 1)
    /\ draft'[x] = With(x, IF Statement(x).to = Unlocked THEN Seen(x, Statement(x).row)
                           ELSE Statement(x).to)

Missed(x) ==
    /\ ~Matches(x)
    /\ ~MustHit(txn[x].kind, Statement(x).row)
    /\ txn'[x] = Counted(x, 0)
    /\ \/ draft'[x] = draft[x]
       \/ /\ txn[x].waits
          /\ ~Locked(x, Statement(x).row)
          /\ draft'[x] = With(x, Seen(x, Statement(x).row))

Ended(x) == txn'[x] = Idle /\ draft'[x] = Free

LEMMA StepKinds ==
    ASSUME Typed, NEW x \in Txns, PassOver(x) \/ Wait(x) \/ Take(x)
    PROVE  /\ Running(x) /\ row' = row /\ Alone(x)
           /\ Waited(x) \/ Hit(x) \/ Missed(x) \/ Ended(x)
<1> USE DEF Typed, Alone
<1>1. ASSUME End(x) PROVE Alone(x) /\ Ended(x)
  BY <1>1 DEF End, Ended
<1>2. ASSUME NEW count \in {0, 1}, Advance(x, count)
      PROVE  /\ txn'[x] = Counted(x, count)
             /\ txn' = [txn EXCEPT ![x] = txn'[x]]
  BY <1>2 DEF Advance, Counted
<1>3. ASSUME PassOver(x) PROVE Alone(x) /\ (Missed(x) \/ Ended(x))
  BY <1>1, <1>2, <1>3 DEF PassOver, Missed
<1>4. ASSUME Wait(x) PROVE Alone(x) /\ Waited(x)
  BY <1>4 DEF Wait, Waited
<1>5. ASSUME Take(x) PROVE Alone(x) /\ (Hit(x) \/ Missed(x) \/ Ended(x))
  <2>1. CASE Matches(x)
    BY <1>2, <1>5, <2>1 DEF Take, Hit, With
  <2>2. CASE ~Matches(x) /\ MustHit(txn[x].kind, Statement(x).row)
    BY <1>1, <1>5, <2>2 DEF Take
  <2>3. CASE ~Matches(x) /\ ~MustHit(txn[x].kind, Statement(x).row)
    BY <1>2, <1>5, <2>3 DEF Take, Missed, With
  <2> QED BY <2>1, <2>2, <2>3
<1> QED
  BY <1>3, <1>4, <1>5 DEF PassOver, Wait, Take

LEMMA Columns ==
    /\ \A r \in Rows : Column[r] \subseteq Values /\ Unlocked \notin Column[r]
    /\ Column["task"] = TaskStatus /\ Column["escrow"] = EscrowStatus
    /\ Column["profile"] = {"uncredited", "credited"}
    /\ Column["dispute"] = {"NONE", "OPEN", "RESOLVED"}
    /\ Column["refund"] = {"unsettled", "COMPLETED"}
    /\ Unlocked \notin Values
<1>1. /\ Column["task"] = TaskStatus /\ Column["escrow"] = EscrowStatus
      /\ Column["profile"] = {"uncredited", "credited"}
      /\ Column["dispute"] = {"NONE", "OPEN", "RESOLVED"}
      /\ Column["refund"] = {"unsettled", "COMPLETED"}
  BY DEF Column
<1>2. Unlocked \notin Values
  BY LocksAssumption
<1>3. ASSUME NEW r \in Rows PROVE Column[r] \subseteq Values
  BY <1>1 DEF Rows, Values, TaskStatus, EscrowStatus
<1> QED
  BY <1>1, <1>2, <1>3

LEMMA StatementType ==
    ASSUME NEW x, txn[x] \in TxnType, Running(x), txn[x].pc # 0
    PROVE  LET s == Statement(x) IN
           s.row \in Rows /\ s.from \subseteq Values /\ (s.to = Unlocked \/ s.to \in Column[s.row])
<1>1. txn[x].kind \in Kinds
  BY DEF TxnType, Running, Active
<1> USE Columns DEF Rows, TaskStatus, EscrowStatus, Values, Set, Touch, Look, Swap
<1>2. CASE Is(x, {"accept", "start", "complete", "claim"})
  BY <1>2, Table DEF Is
<1>3. CASE Is(x, {"cancel", "settle"})
  BY <1>3, Table DEF Is, CANCELLABLE_STATUSES
<1>4. CASE Is(x, {"fund"})
  BY <1>4, Table DEF Is, Held
<1>5. CASE Is(x, {"confirm", "autoRelease"})
  BY <1>5, Table DEF Is
<1>6. CASE Is(x, {"dispute"})
  BY <1>6, Table DEF Is
<1>7. CASE Is(x, {"REFUNDED", "RELEASED"})
  BY <1>7, Table DEF Is
<1> QED
  BY <1>1, <1>2, <1>3, <1>4, <1>5, <1>6, <1>7 DEF Is, Kinds

LEMMA SeenType ==
    ASSUME Typed, NEW x \in Txns, NEW r \in Rows
    PROVE  Seen(x, r) \in Column[r]
BY DEF Typed, Seen

\* A step of x keeps the types if what it leaves of x has them.
LEMMA TypedIf ==
    ASSUME Typed, NEW x \in Txns, row' = row, Alone(x),
           txn'[x] \in TxnType, draft'[x] \in [Rows -> Values \cup {Unlocked}],
           \A r \in Rows : draft'[x][r] # Unlocked => draft'[x][r] \in Column[r]
    PROVE  Typed'
BY DEF Typed, Alone, Holds

LEMMA TypedStep ==
    ASSUME Typed, NEW x \in Txns, txn[x].pc # 0, PassOver(x) \/ Wait(x) \/ Take(x)
    PROVE  Typed'
<1> DEFINE s == Statement(x)
<1>1. Running(x) /\ row' = row /\ Alone(x) /\ (Waited(x) \/ Hit(x) \/ Missed(x) \/ Ended(x))
  BY StepKinds
<1>2. s.row \in Rows /\ (s.to = Unlocked \/ s.to \in Column[s.row]) /\ txn[x] \in TxnType
  BY <1>1, StatementType DEF Typed
<1> HIDE DEF s
<1>3. ASSUME NEW c \in {0, 1} PROVE Counted(x, c) \in TxnType
  <2>1. Seen(x, "task") \in TaskStatus
    <3>1. "task" \in Rows
      BY DEF Rows
    <3> QED BY <3>1, SeenType, Columns
  <2> DEFINE hit == IF txn[x].pc = 1 THEN c = 1 ELSE txn[x].hit
             seen == IF Statement(x) = Look("task") THEN Seen(x, "task") ELSE txn[x].seen
  <2>2. hit \in BOOLEAN
    <3>1. (c = 1) \in BOOLEAN /\ txn[x].hit \in BOOLEAN
      BY <1>2 DEF TxnType
    <3> QED BY <3>1, Zenon
  <2>3. seen \in TaskStatus \cup {"NONE"}
    BY <1>2, <2>1 DEF TxnType
  <2>4. Counted(x, c) = [txn[x] EXCEPT !.pc = @ + 1, !.waits = FALSE, !.hit = hit, !.seen = seen]
    BY DEF Counted
  <2> HIDE DEF hit, seen
  <2>5. Counted(x, c) = [kind |-> txn[x].kind, pc |-> txn[x].pc + 1, hit |-> hit,
                         seen |-> seen, waits |-> FALSE]
    BY <1>2, <2>4 DEF TxnType
  <2>6. txn[x].kind \in Kinds \cup {"idle"} /\ txn[x].pc + 1 \in Nat
    BY <1>2 DEF TxnType
  <2> QED BY <2>2, <2>3, <2>5, <2>6 DEF TxnType
<1>4. ASSUME NEW v \in Column[s.row]
      PROVE  /\ With(x, v) \in [Rows -> Values \cup {Unlocked}]
             /\ \A r \in Rows : With(x, v)[r] # Unlocked => With(x, v)[r] \in Column[r]
  BY <1>2, <1>4, Columns DEF With, Typed, Holds, s
<1>5. CASE Waited(x)
  BY <1>1, <1>2, <1>5, TypedIf DEF Waited, TxnType, Typed, Holds
<1>6. CASE Hit(x)
  <2> DEFINE v == IF s.to = Unlocked THEN Seen(x, s.row) ELSE s.to
  <2>1. v \in Column[s.row]
    BY <1>2, SeenType
  <2>2. draft'[x] = With(x, v) /\ txn'[x] = Counted(x, 1)
    BY <1>6 DEF Hit, s
  <2> HIDE DEF v
  <2> QED BY <1>1, <1>3, <1>4, <2>1, <2>2, TypedIf
<1>7. CASE Missed(x)
  <2> DEFINE v == Seen(x, s.row)
  <2>1. v \in Column[s.row]
    BY <1>2, SeenType
  <2>2. (draft'[x] = draft[x] \/ draft'[x] = With(x, v)) /\ txn'[x] = Counted(x, 0)
    BY <1>7 DEF Missed, s
  <2>3. CASE draft'[x] = draft[x]
    BY <1>1, <1>3, <2>2, <2>3, TypedIf DEF Typed, Holds
  <2> HIDE DEF v
  <2>4. CASE draft'[x] = With(x, v)
    BY <1>1, <1>3, <1>4, <2>1, <2>2, <2>4, TypedIf
  <2> QED BY <2>2, <2>3, <2>4
<1>8. CASE Ended(x)
  <2>1. Idle \in TxnType /\ Free \in [Rows -> Values \cup {Unlocked}]
    BY DEF Idle, Free, TxnType
  <2>2. \A r \in Rows : Free[r] = Unlocked
    BY DEF Free
  <2> QED BY <1>1, <1>8, <2>1, <2>2, TypedIf DEF Ended
<1> QED
  BY <1>1, <1>5, <1>6, <1>7, <1>8

-----------------------------------------------------------------------------
(* What a step changes of its transaction, field by field.                 *)

LEMMA HitChanges ==
    ASSUME Typed, NEW x \in Txns, Running(x), txn[x].pc # 0, Hit(x)
    PROVE  LET s == Statement(x) IN
           /\ txn'[x].kind = txn[x].kind /\ txn'[x].pc = txn[x].pc + 1
           /\ ~txn'[x].waits
           /\ txn'[x].hit <=> txn[x].pc = 1 \/ txn[x].hit
           /\ s.row # "task" \/ s.from # {} => txn'[x].seen = txn[x].seen
           /\ \A r \in Rows \ {s.row} : draft'[x][r] = draft[x][r]
           /\ s.to # Unlocked => draft'[x][s.row] = s.to
           /\ s.to = Unlocked => draft'[x][s.row] = Seen(x, s.row)
<1>1. txn[x] \in TxnType /\ draft[x] \in [Rows -> Values \cup {Unlocked}]
      /\ Statement(x).row \in Rows
  BY StatementType DEF Typed
<1>2. Look("task").row = "task" /\ Look("task").from = {}
  BY DEF Look, Swap
<1> QED
  BY <1>1, <1>2 DEF Hit, Counted, With, TxnType

LEMMA MissChanges ==
    ASSUME Typed, NEW x \in Txns, Running(x), txn[x].pc # 0, Missed(x)
    PROVE  LET s == Statement(x) IN
           /\ txn'[x].kind = txn[x].kind /\ txn'[x].pc = txn[x].pc + 1
           /\ ~txn'[x].waits
           /\ txn'[x].hit <=> txn[x].pc # 1 /\ txn[x].hit
           /\ s.row # "task" \/ s.from # {} => txn'[x].seen = txn[x].seen
           /\ s = Look("task") => txn'[x].seen = Seen(x, "task")
           /\ \A r \in Rows \ {s.row} : draft'[x][r] = draft[x][r]
           /\ \/ draft'[x][s.row] = draft[x][s.row]
              \/ txn[x].waits /\ draft'[x][s.row] = row[s.row]
<1>1. txn[x] \in TxnType /\ draft[x] \in [Rows -> Values \cup {Unlocked}]
      /\ Statement(x).row \in Rows
  BY StatementType DEF Typed
<1>2. Look("task").row = "task" /\ Look("task").from = {}
  BY DEF Look, Swap
<1> QED
  BY <1>1, <1>2 DEF Missed, Counted, With, TxnType, Seen

LEMMA WaitChanges ==
    ASSUME Typed, NEW x \in Txns, Waited(x)
    PROVE  /\ txn'[x].kind = txn[x].kind /\ txn'[x].pc = txn[x].pc
           /\ txn'[x].hit = txn[x].hit /\ txn'[x].seen = txn[x].seen
           /\ txn'[x].waits
BY DEF Typed, TxnType, Waited

LEMMA ExclusiveStep ==
    ASSUME Typed, Exclusive, NEW x \in Txns, txn[x].pc # 0,
           PassOver(x) \/ Wait(x) \/ Take(x)
    PROVE  Exclusive'
<1> DEFINE s == Statement(x)
<1>1. Running(x) /\ Alone(x) /\ (Waited(x) \/ Hit(x) \/ Missed(x) \/ Ended(x))
  BY StepKinds
<1>2. s.row \in Rows
  BY <1>1, StatementType DEF Typed
<1>3. \A r \in Rows : Holds(x, r)' =>
        Holds(x, r) \/ (r = s.row /\ ~Locked(x, r))
  <2>1. CASE Waited(x)
    BY <2>1 DEF Waited, Holds
  <2>2. CASE Hit(x)
    BY <1>1, <2>2, HitChanges DEF Hit, Holds
  <2>3. CASE Missed(x)
    BY <1>1, <1>2, <2>3 DEF Missed, With, Holds, Typed
  <2>4. CASE Ended(x)
    BY <2>4 DEF Ended, Free, Holds
  <2> QED BY <1>1, <2>1, <2>2, <2>3, <2>4
<1>4. \A y \in Txns \ {x}, r \in Rows : Holds(y, r)' <=> Holds(y, r)
  BY <1>1 DEF Alone, Holds, Typed
<1> HIDE DEF s
<1> QED
  BY <1>3, <1>4 DEF Exclusive, Locked

LEMMA OthersSound ==
    ASSUME NEW y \in Txns, Sound(y), row' = row, txn'[y] = txn[y], draft'[y] = draft[y]
    PROVE  Sound(y)'
<1>1. /\ Statements(y)' = Statements(y)
      /\ Active(y)' <=> Active(y)
      /\ Running(y)' <=> Running(y)
  BY DEF Statements, Active, Running
<1> USE DEF Is, Past, Only, Swaps, Same, Holds
<1>2. Single(y)' /\ Cancels(y)'
  BY DEF Sound, Single, Cancels
<1>3. Funds(y)'
  BY DEF Sound, Funds
<1>4. Releases(y)'
  BY DEF Sound, Releases
<1>5. Disputes(y)' /\ Resolves(y)' /\ Settles(y)'
  BY DEF Sound, Disputes, Resolves, Settles
<1>6. (~Past(y, 1))' => draft'[y] = Free /\ ~txn'[y].hit
  BY DEF Sound
<1> QED
  BY <1>1, <1>2, <1>3, <1>4, <1>5, <1>6 DEF Sound

-----------------------------------------------------------------------------
(* What a step adds to what a transaction of its kind has done.            *)

Moved(x) == Waited(x) \/ Hit(x) \/ Missed(x)

LEMMA SingleStep ==
    ASSUME Typed, NEW x \in Txns, Sound(x), Running(x), txn[x].pc # 0, row' = row, Moved(x)
    PROVE  Single(x)'
<1> USE DEF Is, Past, Only, Swaps, Same, Holds, Rows, Swap, Set, Matches, Seen
<1>1. /\ Unlocked \notin Values /\ Unlocked \notin TaskStatus /\ Unlocked \notin EscrowStatus
      /\ row.task \in TaskStatus /\ row.escrow \in EscrowStatus
  BY Columns DEF Typed
<1>2. txn[x] \in TxnType /\ \A r \in Rows : draft[x][r] # Unlocked => draft[x][r] \in Column[r]
  BY DEF Typed
<1>3. ~Past(x, 1) => \A r \in Rows : draft[x][r] = Unlocked
  BY DEF Sound, Free
<1>4. CASE Waited(x)
  BY <1>2, <1>4, WaitChanges DEF Sound, Single, Waited
<1>5. CASE Hit(x)
  BY SMTT(90), <1>1, <1>2, <1>3, <1>5, Table, HitChanges
     DEF Sound, Single, Hit, TaskStatus, EscrowStatus, Values
<1>6. CASE Missed(x)
  BY <1>1, <1>2, <1>3, <1>6, Table, MissChanges
     DEF Sound, Single, Missed, TaskStatus, EscrowStatus, Values
<1> QED
  BY <1>4, <1>5, <1>6 DEF Moved

LEMMA CancelsStep ==
    ASSUME Typed, NEW x \in Txns, Sound(x), Running(x), txn[x].pc # 0, row' = row, Moved(x)
    PROVE  Cancels(x)'
<1> USE DEF Is, Past, Only, Swaps, Same, Holds, Rows, Swap, Set, Matches, Seen
<1>1. /\ Unlocked \notin Values /\ Unlocked \notin TaskStatus /\ Unlocked \notin EscrowStatus
      /\ row.task \in TaskStatus /\ row.escrow \in EscrowStatus
  BY Columns DEF Typed
<1>2. txn[x] \in TxnType /\ \A r \in Rows : draft[x][r] # Unlocked => draft[x][r] \in Column[r]
  BY DEF Typed
<1>3. ~Past(x, 1) => \A r \in Rows : draft[x][r] = Unlocked
  BY DEF Sound, Free
<1>4. CASE Waited(x)
  BY <1>2, <1>4, WaitChanges DEF Sound, Cancels, CANCELLABLE_STATUSES, Waited
<1>5. CASE Hit(x)
  BY SMTT(90), <1>1, <1>2, <1>3, <1>5, Table, HitChanges
     DEF Sound, Cancels, CANCELLABLE_STATUSES, Hit, TaskStatus, EscrowStatus, Values
<1>6. CASE Missed(x)
  BY <1>1, <1>2, <1>3, <1>6, Table, MissChanges
     DEF Sound, Cancels, CANCELLABLE_STATUSES, Missed, MustHit, TaskStatus, EscrowStatus, Values
<1> QED
  BY <1>4, <1>5, <1>6 DEF Moved

LEMMA FundsStep ==
    ASSUME Typed, Phases, NEW x \in Txns, Sound(x), Running(x), txn[x].pc # 0, row' = row, Moved(x)
    PROVE  Funds(x)'
<1> USE DEF Is, Past, Only, Swaps, Same, Holds, Rows, Swap, Set, Matches, Seen
<1>1. /\ Unlocked \notin Values /\ Unlocked \notin TaskStatus /\ Unlocked \notin EscrowStatus
      /\ row.task \in TaskStatus /\ row.escrow \in EscrowStatus
  BY Columns DEF Typed
<1>2. txn[x] \in TxnType /\ \A r \in Rows : draft[x][r] # Unlocked => draft[x][r] \in Column[r]
  BY DEF Typed
<1>3. ~Past(x, 1) => \A r \in Rows : draft[x][r] = Unlocked
  BY DEF Sound, Free
<1>4. txn'[x].kind = txn[x].kind
  <2>1. Waited(x) => txn'[x].kind = txn[x].kind
    BY WaitChanges
  <2>2. Hit(x) => txn'[x].kind = txn[x].kind
    BY HitChanges
  <2>3. Missed(x) => txn'[x].kind = txn[x].kind
    BY MissChanges
  <2> QED BY <2>1, <2>2, <2>3 DEF Moved
<1> SUFFICES ASSUME txn'[x].kind = "fund", txn[x].kind = "fund"
             PROVE  Funds(x)'
  BY <1>4 DEF Funds
<1>5. IF txn[x].hit THEN row.task = "PENDING_PAYMENT" /\ row.escrow = "PENDING"
      ELSE draft[x].task \in {Unlocked, row.task}
  BY <1>2 DEF Phases, Sound, Funds
<1>6. CASE Waited(x)
  <2>1. txn[x].hit \/ txn[x].pc # 2
    BY <1>2, <1>6, Table DEF Waited, Look
  <2> QED BY <1>2, <1>6, <2>1, WaitChanges DEF Sound, Funds, Waited
<1> USE DEF TaskStatus, EscrowStatus, Values
<1>7. CASE Hit(x)
  <2>1. CASE Statement(x) = Swap("task", {"PENDING_PAYMENT"}, "OPEN") /\ txn[x].pc = 1
    BY <1>1, <1>2, <1>3, <1>7, <2>1, HitChanges DEF Sound, Funds, Hit
  <2>2. CASE Statement(x) = Swap("escrow", {"PENDING"}, Held(txn[x].hit, txn[x].seen))
             /\ txn[x].pc = (IF txn[x].hit THEN 2 ELSE 3)
    <3>1. row.escrow = "PENDING" /\ draft[x].escrow = Unlocked
      BY <1>2, <1>7, <2>2 DEF Sound, Funds, Hit
    <3>2. Held(txn[x].hit, txn[x].seen) = IF txn[x].hit THEN "HELD" ELSE "REFUND_PENDING"
      BY <1>2, <2>2, <3>1 DEF Sound, Funds, Held
    <3> QED BY <1>1, <1>2, <1>7, <2>2, <3>1, <3>2, HitChanges DEF Sound, Funds, Hit
  <2> QED BY <1>2, <1>7, <2>1, <2>2, Table DEF Hit, Look
<1>8. CASE Missed(x)
  <2>1. CASE Statement(x) = Swap("task", {"PENDING_PAYMENT"}, "OPEN") /\ txn[x].pc = 1
    BY <1>1, <1>2, <1>3, <1>8, <2>1, MissChanges DEF Sound, Funds, Missed, Phases
  <2>2. CASE Statement(x) = Look("task") /\ ~txn[x].hit /\ txn[x].pc = 2
    BY <1>1, <1>2, <1>5, <1>8, <2>2, MissChanges DEF Sound, Funds, Missed, Look
  <2>3. CASE Statement(x) = Swap("escrow", {"PENDING"}, Held(txn[x].hit, txn[x].seen))
             /\ txn[x].pc = (IF txn[x].hit THEN 2 ELSE 3)
    BY <1>1, <1>2, <1>5, <1>8, <2>3, MissChanges DEF Sound, Funds, Missed
  <2> QED BY <1>2, <2>1, <2>2, <2>3, Table
<1> QED
  BY <1>6, <1>7, <1>8 DEF Moved

LEMMA ReleasesStep ==
    ASSUME Typed, NEW x \in Txns, Sound(x), Running(x), txn[x].pc # 0, row' = row, Moved(x)
    PROVE  Releases(x)'
<1> USE DEF Is, Past, Only, Swaps, Same, Holds, Rows, Swap, Set, Matches, Seen
<1>1. /\ Unlocked \notin Values /\ Unlocked \notin TaskStatus /\ Unlocked \notin EscrowStatus
      /\ row.task \in TaskStatus /\ row.escrow \in EscrowStatus
      /\ row.profile \in Values /\ row.dispute \in Values /\ row.refund \in Values
  BY Columns DEF Typed
<1>2. txn[x] \in TxnType /\ \A r \in Rows : draft[x][r] # Unlocked => draft[x][r] \in Column[r]
  BY DEF Typed
<1>3. ~Past(x, 1) => \A r \in Rows : draft[x][r] = Unlocked
  BY DEF Sound, Free
<1>4. CASE Waited(x)
  BY <1>2, <1>4, WaitChanges DEF Sound, Releases, Touch, Waited
<1>5. CASE Hit(x)
  BY SMTT(90), <1>1, <1>2, <1>3, <1>5, Table, HitChanges
     DEF Sound, Releases, Touch, Hit, TaskStatus, EscrowStatus, Values
<1>6. CASE Missed(x)
  BY SMTT(30), <1>1, <1>2, <1>3, <1>6, Table, MissChanges
     DEF Sound, Releases, Touch, Missed, MustHit, TaskStatus, EscrowStatus, Values
<1> QED
  BY <1>4, <1>5, <1>6 DEF Moved

LEMMA DisputesStep ==
    ASSUME Typed, NEW x \in Txns, Sound(x), Running(x), txn[x].pc # 0, row' = row, Moved(x)
    PROVE  Disputes(x)'
<1> USE DEF Is, Past, Only, Swaps, Same, Holds, Rows, Swap, Set, Matches, Seen
<1>1. /\ Unlocked \notin Values /\ Unlocked \notin TaskStatus /\ Unlocked \notin EscrowStatus
      /\ row.task \in TaskStatus /\ row.escrow \in EscrowStatus
      /\ row.profile \in Values /\ row.dispute \in Values /\ row.refund \in Values
  BY Columns DEF Typed
<1>2. txn[x] \in TxnType /\ \A r \in Rows : draft[x][r] # Unlocked => draft[x][r] \in Column[r]
  BY DEF Typed
<1>3. ~Past(x, 1) => \A r \in Rows : draft[x][r] = Unlocked
  BY DEF Sound, Free
<1>4. CASE Waited(x)
  BY <1>2, <1>4, WaitChanges DEF Sound, Disputes, Waited
<1>5. CASE Hit(x)
  BY SMTT(90), <1>1, <1>2, <1>3, <1>5, Table, HitChanges
     DEF Sound, Disputes, Hit, TaskStatus, EscrowStatus, Values
<1>6. CASE Missed(x)
  BY SMTT(30), <1>1, <1>2, <1>3, <1>6, Table, MissChanges
     DEF Sound, Disputes, Missed, MustHit, TaskStatus, EscrowStatus, Values
<1> QED
  BY <1>4, <1>5, <1>6 DEF Moved

LEMMA ResolvesStep ==
    ASSUME Typed, NEW x \in Txns, Sound(x), Running(x), txn[x].pc # 0, row' = row, Moved(x)
    PROVE  Resolves(x)'
<1> USE DEF Is, Past, Only, Swaps, Same, Holds, Rows, Swap, Set, Matches, Seen
<1>1. /\ Unlocked \notin Values /\ Unlocked \notin TaskStatus /\ Unlocked \notin EscrowStatus
      /\ row.task \in TaskStatus /\ row.escrow \in EscrowStatus
      /\ row.profile \in Values /\ row.dispute \in Values /\ row.refund \in Values
  BY Columns DEF Typed
<1>2. txn[x] \in TxnType /\ \A r \in Rows : draft[x][r] # Unlocked => draft[x][r] \in Column[r]
  BY DEF Typed
<1>3. ~Past(x, 1) => \A r \in Rows : draft[x][r] = Unlocked
  BY DEF Sound, Free
<1>4. CASE Waited(x)
  BY <1>2, <1>4, WaitChanges DEF Sound, Resolves, Waited
<1>5. CASE Hit(x)
  BY SMTT(30), <1>1, <1>2, <1>3, <1>5, Table, HitChanges
     DEF Sound, Resolves, Hit, TaskStatus, EscrowStatus, Values
<1>6. CASE Missed(x)
  <2>1. \A r \in Rows : Seen(x, r) \in Values
    BY SeenType, Columns
  <2> QED BY <1>2, <1>6, <2>1, Table, MissChanges DEF Missed, Sound, Resolves
<1> QED
  BY <1>4, <1>5, <1>6 DEF Moved

LEMMA SettlesStep ==
    ASSUME Typed, NEW x \in Txns, Sound(x), Running(x), txn[x].pc # 0, row' = row, Moved(x)
    PROVE  Settles(x)'
<1> USE DEF Is, Past, Only, Swaps, Same, Holds, Rows, Swap, Set, Matches, Seen
<1>1. /\ Unlocked \notin Values /\ Unlocked \notin TaskStatus /\ Unlocked \notin EscrowStatus
      /\ row.task \in TaskStatus /\ row.escrow \in EscrowStatus
      /\ row.profile \in Values /\ row.dispute \in Values /\ row.refund \in Values
  BY Columns DEF Typed
<1>2. txn[x] \in TxnType /\ \A r \in Rows : draft[x][r] # Unlocked => draft[x][r] \in Column[r]
  BY DEF Typed
<1>3. ~Past(x, 1) => \A r \in Rows : draft[x][r] = Unlocked
  BY DEF Sound, Free
<1>4. CASE Waited(x)
  BY <1>2, <1>4, WaitChanges DEF Sound, Settles, Waited
<1>5. CASE Hit(x)
  BY SMTT(30), <1>1, <1>2, <1>3, <1>5, Table, HitChanges
     DEF Sound, Settles, Hit, TaskStatus, EscrowStatus, Values
<1>6. CASE Missed(x)
  BY <1>1, <1>2, <1>3, <1>6, Table, MissChanges
     DEF Sound, Settles, Missed, MustHit, TaskStatus, EscrowStatus, Values
<1> QED
  BY <1>4, <1>5, <1>6 DEF Moved

LEMMA MovedSound ==
    ASSUME Typed, Typed', Phases, NEW x \in Txns, Sound(x), Running(x), txn[x].pc # 0,
           row' = row, Moved(x)
    PROVE  Sound(x)'
<1>1. /\ txn[x] \in TxnType /\ txn'[x] \in TxnType
      /\ txn[x].pc \in Nat \ {0} /\ txn[x].pc <= Len(Statements(x))
  BY DEF Typed, TxnType, Running
<1>2. /\ txn'[x].kind = txn[x].kind
      /\ \/ txn'[x].pc = txn[x].pc + 1
         \/ txn'[x].pc = txn[x].pc /\ Waited(x)
  <2>1. CASE Waited(x)
    BY <2>1, WaitChanges
  <2>2. CASE Hit(x)
    BY <2>2, HitChanges
  <2>3. CASE Missed(x)
    BY <2>3, MissChanges
  <2> QED BY <2>1, <2>2, <2>3 DEF Moved
<1>3. Active(x) /\ Active(x)'
  BY <1>2 DEF Running, Active
<1>4. /\ Len(Statements(x)') \in Nat
      /\ Waited(x) => Statements(x)' = Statements(x)
      /\ txn'[x].pc <= Len(Statements(x)') + 1
  <2>1. Statements(x)' = Script(txn'[x].kind, txn'[x].hit, txn'[x].seen)
    BY DEF Statements
  <2>2. Statements(x) = Script(txn[x].kind, txn[x].hit, txn[x].seen)
    BY DEF Statements
  <2>3. txn[x].kind \in Kinds
    BY <1>1, <1>3 DEF TxnType, Active
  <2>4. CASE Waited(x)
    <3>1. Statements(x)' = Statements(x) /\ txn'[x].pc = txn[x].pc
      BY <2>1, <2>2, <2>4, WaitChanges
    <3>2. Len(Statements(x)) \in Nat
      BY <1>1, <2>2, <2>3, Lengths DEF Kinds
    <3> QED BY <1>1, <3>1, <3>2
  <2>5. CASE ~Waited(x)
    <3>1. txn'[x].pc = txn[x].pc + 1
      BY <1>2, <2>5
    <3>2. txn[x].pc # 1 => (txn'[x].hit <=> txn[x].hit)
      BY <2>5, HitChanges, MissChanges DEF Moved
    <3> DEFINE l == Len(Statements(x))
               m == Len(Statements(x)')
    <3>3. txn[x].pc # 1 => m = l
      BY <1>1, <1>2, <2>1, <2>2, <2>3, <3>2, Lengths DEF Kinds
    <3>4. m \in 1 .. 3 /\ l \in 1 .. 3
      BY <1>1, <1>2, <2>1, <2>2, <2>3, SomeStatements
    <3> HIDE DEF l, m
    <3> SUFFICES txn'[x].pc <= m + 1 /\ m \in Nat
      BY <2>5 DEF m
    <3>5. txn[x].pc <= l
      BY <1>1 DEF l
    <3> QED BY <1>1, <3>1, <3>3, <3>4, <3>5
  <2> QED BY <2>4, <2>5
<1>5. txn'[x].pc \in 1 .. Len(Statements(x)') + 1
  BY <1>1, <1>2, <1>4
<1>6. (~Past(x, 1))' => draft'[x] = Free /\ ~txn'[x].hit
  <2>1. CASE Waited(x)
    BY <2>1, WaitChanges DEF Sound, Past, Waited
  <2>2. CASE ~Waited(x)
    BY <1>1, <1>2, <2>2 DEF Past
  <2> QED BY <2>1, <2>2
<1>7. Active(x)' /\ ~Is(x, {"cancel", "fund"})' => row'.escrow # "PENDING"
  BY <1>2, <1>3 DEF Sound, Is
<1>8. txn'[x].waits => Running(x)'
  <2>1. CASE Waited(x)
    BY <1>1, <1>3, <1>4, <2>1, WaitChanges DEF Running
  <2>2. CASE ~Waited(x)
    BY <2>2, HitChanges, MissChanges DEF Moved
  <2> QED BY <2>1, <2>2
<1>9. /\ Single(x)' /\ Cancels(x)' /\ Funds(x)' /\ Releases(x)'
      /\ Disputes(x)' /\ Resolves(x)' /\ Settles(x)'
  BY SingleStep, CancelsStep, FundsStep, ReleasesStep, DisputesStep, ResolvesStep, SettlesStep
<1> QED
  BY <1>3, <1>5, <1>6, <1>7, <1>8, <1>9 DEF Sound

LEMMA IdleSound ==
    ASSUME NEW x \in Txns, txn'[x] = Idle, draft'[x] = Free
    PROVE  Sound(x)'
<1>1. /\ txn'[x].kind = "idle" /\ txn'[x].pc = 0 /\ ~txn'[x].hit /\ ~txn'[x].waits
  BY DEF Idle
<1>2. ~Active(x)'
  BY <1>1 DEF Active
<1>3. /\ Single(x)' /\ Cancels(x)' /\ Funds(x)' /\ Releases(x)'
      /\ Disputes(x)' /\ Resolves(x)' /\ Settles(x)'
  BY <1>1 DEF Single, Cancels, Funds, Releases, Disputes, Resolves, Settles, Is
<1> QED
  BY <1>1, <1>2, <1>3 DEF Sound

LEMMA BeginSound ==
    ASSUME Typed, Phases, NEW x \in Txns, Sound(x), NEW kind \in Kinds, Begin(x, kind)
    PROVE  Sound(x)'
<1>1. /\ txn'[x] = [kind |-> kind, pc |-> 1, hit |-> FALSE, seen |-> "NONE", waits |-> FALSE]
      /\ draft'[x] = Free /\ row' = row
  <2>1. ~Active(x) /\ txn' = [txn EXCEPT ![x] = [Idle EXCEPT !.kind = kind, !.pc = 1]]
        /\ UNCHANGED <<row, draft>>
    BY DEF Begin
  <2>2. txn[x] = Idle /\ draft[x] = Free
    BY <2>1 DEF Sound, Past, Idle
  <2> QED BY <2>1, <2>2 DEF Idle, Typed
<1>2. Active(x)' /\ txn'[x].pc = 1 /\ ~txn'[x].hit /\ ~txn'[x].waits /\ txn'[x].kind = kind
  BY <1>1 DEF Active, Kinds
<1>3. 1 \in 1 .. Len(Statements(x)') + 1
  <2>1. txn'[x] \in TxnType
    BY <1>1 DEF TxnType
  <2>2. Statements(x)' = Script(txn'[x].kind, txn'[x].hit, txn'[x].seen)
    BY DEF Statements
  <2>3. Len(Statements(x)') \in 1 .. 3
    BY <1>2, <2>1, <2>2, SomeStatements
  <2> QED BY <2>3
<1>4. kind \notin {"cancel", "fund"} => row.escrow # "PENDING"
  BY DEF Begin, Allowed, Phases, Kinds, REFUNDABLE_ESCROW_STATES
<1>5. kind \in {"REFUNDED", "RELEASED"} => row.dispute # "NONE"
  BY DEF Begin, Allowed
<1>6. \A r \in Rows : draft'[x][r] = Unlocked
  BY <1>1 DEF Free
<1>7. Single(x)' /\ Cancels(x)' /\ Funds(x)'
  BY <1>1, <1>2, <1>6 DEF Single, Cancels, Funds, Is, Past, Only, Same, Holds, Rows
<1>8. Releases(x)' /\ Disputes(x)' /\ Resolves(x)' /\ Settles(x)'
  BY <1>1, <1>2, <1>5, <1>6
     DEF Releases, Disputes, Resolves, Settles, Is, Past, Only, Same, Holds, Rows
<1> QED
  BY <1>1, <1>2, <1>3, <1>4, <1>7, <1>8 DEF Sound, Is

-----------------------------------------------------------------------------
(* What a transaction commits is one of the atomic steps, or nothing.      *)

LEMMA Finished ==
    ASSUME Typed, NEW x \in Txns, Sound(x), Active(x), ~Running(x)
    PROVE  LET n == txn[x].pc  h == txn[x].hit IN
           /\ n \in Nat
           /\ Is(x, {"accept", "start", "complete", "claim"}) => n = 2
           /\ Is(x, {"cancel", "settle"}) => n = 3
           /\ Is(x, {"fund"}) => n = IF h THEN 3 ELSE 4
           /\ Is(x, {"confirm"}) => n = IF h THEN 4 ELSE 3
           /\ Is(x, {"autoRelease"}) => n = IF h THEN 3 ELSE 2
           /\ Is(x, {"dispute", "REFUNDED", "RELEASED"}) => n = 4
<1> DEFINE l == Len(Statements(x))
<1>1. txn[x] \in TxnType /\ txn[x].kind \in Kinds /\ txn[x].pc \in Nat
  BY DEF Typed, TxnType, Active
<1>2. l = Len(Script(txn[x].kind, txn[x].hit, txn[x].seen))
  BY DEF Statements
<1>3. l \in 1 .. 3
  BY <1>1, <1>2, SomeStatements
<1>4. txn[x].pc = l + 1
  <2>1. txn[x].pc \in 1 .. l + 1 /\ ~(txn[x].pc <= l)
    BY DEF Sound, Running
  <2> HIDE DEF l
  <2> QED BY <1>3, <2>1
<1> HIDE DEF l
<1> QED
  <2>1. LET h == txn[x].hit IN
        /\ Is(x, {"accept", "start", "complete", "claim"}) => l = 1
        /\ Is(x, {"cancel", "settle"}) => l = 2
        /\ Is(x, {"fund"}) => l = IF h THEN 2 ELSE 3
        /\ Is(x, {"confirm"}) => l = IF h THEN 3 ELSE 2
        /\ Is(x, {"autoRelease"}) => l = IF h THEN 2 ELSE 1
        /\ Is(x, {"dispute", "REFUNDED", "RELEASED"}) => l = 3
    BY <1>1, <1>2, Lengths DEF Is
  <2> QED BY <1>1, <1>3, <1>4, <2>1

\* The rows after a commit, one by one.
LEMMA CommittedRows ==
    ASSUME Typed, NEW x \in Txns, Commit(x)
    PROVE  /\ row' \in [Rows -> Values] /\ \A r \in Rows : row'[r] \in Column[r]
           /\ \A r \in Rows : Holds(x, r) => row'[r] = draft[x][r]
           /\ \A r \in Rows : ~Holds(x, r) \/ Same(x, r) => row'[r] = row[r]
           /\ Alone(x) /\ Ended(x)
<1>1. row' = [r \in Rows |-> IF Holds(x, r) THEN draft[x][r] ELSE row[r]]
  BY DEF Commit
<1>2. \A r \in Rows : row'[r] \in Column[r] /\ row'[r] \in Values
  BY <1>1, Columns DEF Typed
<1> QED
  BY <1>1, <1>2 DEF Same, Commit, End, Alone, Ended, Typed

\* Which of the atomic steps, by the kind of the transaction.
Effect(x) ==
    \/ row' = row
    \/ Is(x, {"accept"}) /\ Promise!Accept
    \/ Is(x, {"start"}) /\ Promise!Start
    \/ Is(x, {"complete"}) /\ Promise!Complete
    \/ Is(x, {"claim"}) /\ Promise!Claim
    \/ Is(x, {"cancel"}) /\ Promise!Cancel
    \/ /\ Is(x, {"fund"}) /\ Promise!Fund
       /\ row.task = "CANCELLED" \/ (Holds(x, "task") /\ row.task = "PENDING_PAYMENT")
    \/ Is(x, {"confirm", "autoRelease"}) /\ Promise!Release
    \/ Is(x, {"dispute"}) /\ Promise!Dispute
    \/ Is(x, {"REFUNDED", "RELEASED"}) /\ Promise!Resolve
    \/ Is(x, {"settle"}) /\ Promise!Settle

LEMMA RowsEqual ==
    ASSUME NEW f \in [Rows -> Values], NEW g \in [Rows -> Values],
           f.task = g.task, f.escrow = g.escrow, f.profile = g.profile,
           f.dispute = g.dispute, f.refund = g.refund
    PROVE  f = g
<1>1. \A r \in Rows : f[r] = g[r]
  BY DEF Rows
<1> QED
  BY <1>1

LEMMA CommitEffect ==
    ASSUME Typed, Phases, NEW x \in Txns, Sound(x), Commit(x)
    PROVE  Effect(x)
<1>1. /\ row \in [Rows -> Values] /\ row' \in [Rows -> Values]
      /\ \A r \in Rows : Holds(x, r) => row'[r] = draft[x][r]
      /\ \A r \in Rows : ~Holds(x, r) \/ Same(x, r) => row'[r] = row[r]
  BY CommittedRows DEF Typed
<1>2. Active(x) /\ ~Running(x) /\ txn[x].kind \in Kinds /\ txn[x].hit \in BOOLEAN
  BY DEF Commit, Typed, TxnType, Active
<1>3. /\ Unlocked \notin Values /\ Unlocked \notin TaskStatus /\ Unlocked \notin EscrowStatus
      /\ row.task \in TaskStatus /\ row.escrow \in EscrowStatus
  BY Columns DEF Typed, Rows
<1> USE DEF Past, Only, Swaps, Same, Holds, Rows, Values, TaskStatus, EscrowStatus
<1>4. Is(x, {"accept"}) => Promise!Accept \/ row' = row
  BY <1>1, <1>2, <1>3, Finished DEF Is, Sound, Single, Promise!Accept
<1>5. Is(x, {"start"}) => Promise!Start
  BY <1>1, <1>2, <1>3, Finished DEF Is, Sound, Single, Promise!Start
<1>6. Is(x, {"complete"}) => Promise!Complete
  BY <1>1, <1>2, <1>3, Finished DEF Is, Sound, Single, Promise!Complete
<1>7. Is(x, {"claim"}) => Promise!Claim \/ row' = row
  BY <1>1, <1>2, <1>3, Finished DEF Is, Sound, Single, Promise!Claim
<1>8. ASSUME Is(x, {"cancel"}) PROVE Promise!Cancel
  <2> DEFINE g == [row EXCEPT !.task = "CANCELLED",
                             !.escrow = IF @ = "HELD" THEN "REFUND_PENDING" ELSE @]
  <2>1. /\ row.task \in CANCELLABLE_STATUSES
        /\ row'.task = "CANCELLED"
        /\ row'.escrow = IF row.escrow = "HELD" THEN "REFUND_PENDING" ELSE row.escrow
        /\ row'.profile = row.profile /\ row'.dispute = row.dispute /\ row'.refund = row.refund
    BY <1>1, <1>2, <1>3, <1>8, Finished DEF Is, Sound, Cancels
  <2>2. row' = g
    BY ZenonT(40), <1>1, <2>1, RowsEqual
  <2> QED BY <2>1, <2>2
     DEF Promise!Cancel, Promise!CANCELLABLE_STATUSES, CANCELLABLE_STATUSES
<1>9. ASSUME Is(x, {"fund"}), row' # row
      PROVE  /\ Promise!Fund
             /\ row.task = "CANCELLED" \/ (Holds(x, "task") /\ row.task = "PENDING_PAYMENT")
  <2> DEFINE g == [row EXCEPT
                     !.task = IF @ = "PENDING_PAYMENT" THEN "OPEN" ELSE @,
                     !.escrow = IF row.task = "CANCELLED" THEN "REFUND_PENDING" ELSE "HELD"]
  <2>1. row'.profile = row.profile /\ row'.dispute = row.dispute /\ row'.refund = row.refund
    BY <1>1, <1>2, <1>3, <1>9, Finished DEF Is, Sound, Funds
  <2>2. /\ row.escrow = "PENDING"
        /\ row.task = "CANCELLED" \/ (Holds(x, "task") /\ row.task = "PENDING_PAYMENT")
        /\ row'.task = IF row.task = "PENDING_PAYMENT" THEN "OPEN" ELSE row.task
        /\ row'.escrow = IF row.task = "CANCELLED" THEN "REFUND_PENDING" ELSE "HELD"
    <3>1. CASE txn[x].hit
      BY <1>1, <1>2, <1>3, <1>9, <3>1, Finished DEF Is, Sound, Funds
    <3>2. CASE ~txn[x].hit
      <4>1. row'.task = row.task
        BY <1>1, <1>9, <3>2 DEF Is, Sound, Funds
      <4>2. row'.escrow # row.escrow
        BY <1>1, <1>9, <2>1, <4>1, RowsEqual
      <4> QED BY <1>1, <1>2, <1>3, <1>9, <3>2, <4>1, <4>2, Finished DEF Is, Sound, Funds
    <3> QED BY <3>1, <3>2
  <2>3. row' = g
    BY <1>1, <2>1, <2>2, RowsEqual
  <2> QED BY <2>2, <2>3 DEF Promise!Fund
<1>10. ASSUME Is(x, {"confirm", "autoRelease"}), row' # row PROVE Promise!Release
  <2> DEFINE g == [row EXCEPT !.escrow = "RELEASED", !.profile = "credited"]
  <2>1. row'.task = row.task /\ row'.dispute = row.dispute /\ row'.refund = row.refund
    BY <1>1, <1>2, <1>3, <1>10, Finished DEF Is, Sound, Releases
  <2>2. txn[x].hit
    BY <1>1, <1>2, <1>10, <2>1, RowsEqual DEF Sound, Releases, Is
  <2>3. row.escrow = "HELD" /\ row'.escrow = "RELEASED" /\ row'.profile = "credited"
    BY <1>1, <1>2, <1>3, <1>10, <2>2, Finished DEF Is, Sound, Releases
  <2>4. row' = g
    BY <1>1, <2>1, <2>3, RowsEqual
  <2> QED BY <2>3, <2>4 DEF Promise!Release
<1>11. ASSUME Is(x, {"dispute"}) PROVE Promise!Dispute
  <2> DEFINE g == [row EXCEPT !.task = "DISPUTED", !.dispute = "OPEN", !.escrow = "DISPUTED"]
  <2>1. /\ row.dispute = "NONE" /\ row'.dispute = "OPEN"
        /\ row'.task = "DISPUTED" /\ row'.escrow = "DISPUTED"
        /\ row'.profile = row.profile /\ row'.refund = row.refund
    BY <1>1, <1>2, <1>3, <1>11, Finished DEF Is, Sound, Disputes
  <2>2. row' = g
    BY <1>1, <2>1, RowsEqual
  <2> QED BY <2>1, <2>2 DEF Promise!Dispute
<1>12. ASSUME Is(x, {"REFUNDED", "RELEASED"}) PROVE Promise!Resolve
  <2> DEFINE g == [row EXCEPT !.dispute = "RESOLVED", !.escrow = txn[x].kind,
                              !.task = "COMPLETED"]
  <2>1. /\ row.dispute # "NONE" /\ row'.dispute = "RESOLVED"
        /\ row'.task = "COMPLETED" /\ row'.escrow = txn[x].kind
        /\ row'.profile = row.profile /\ row'.refund = row.refund
    BY <1>1, <1>2, <1>3, <1>12, Finished DEF Is, Sound, Resolves
  <2>2. row' = g
    BY <1>1, <1>12, <2>1, RowsEqual DEF Is
  <2> QED BY <1>12, <2>1, <2>2 DEF Promise!Resolve, Is
<1>13. ASSUME Is(x, {"settle"}) PROVE Promise!Settle
  <2> DEFINE g == [row EXCEPT !.refund = "COMPLETED", !.escrow = "REFUNDED"]
  <2>1. /\ row'.refund = "COMPLETED" /\ row'.escrow = "REFUNDED"
        /\ row'.task = row.task /\ row'.profile = row.profile /\ row'.dispute = row.dispute
    BY <1>1, <1>2, <1>3, <1>13, Finished DEF Is, Sound, Settles
  <2>2. row' = g
    BY <1>1, <2>1, RowsEqual
  <2> QED BY <2>2 DEF Promise!Settle
<1>14. \/ Is(x, {"accept"}) \/ Is(x, {"start"}) \/ Is(x, {"complete"}) \/ Is(x, {"claim"})
       \/ Is(x, {"cancel"}) \/ Is(x, {"fund"}) \/ Is(x, {"confirm", "autoRelease"})
       \/ Is(x, {"dispute"}) \/ Is(x, {"REFUNDED", "RELEASED"}) \/ Is(x, {"settle"})
  BY <1>2 DEF Is, Kinds
<1> QED
  BY <1>4, <1>5, <1>6, <1>7, <1>8, <1>9, <1>10, <1>11, <1>12, <1>13, <1>14, Zenon DEF Effect

LEMMA CommitFacts ==
    ASSUME Typed, Phases, NoCancelledHeld, NEW x \in Txns, Sound(x), Commit(x)
    PROVE  /\ row.escrow # "PENDING" => row'.escrow # "PENDING"
           /\ row.dispute # "NONE" => row'.dispute # "NONE"
           /\ row'.escrow = "HELD" => row.escrow = "HELD" \/ Holds(x, "task")
           /\ row'.escrow = "PENDING" /\ row.task = "CANCELLED" => row'.task = "CANCELLED"
           /\ Phases' /\ NoCancelledHeld'
<1>1. /\ row \in [Rows -> Values] /\ row.task \in TaskStatus /\ row.escrow \in EscrowStatus
      /\ Effect(x)
  BY CommitEffect, Columns DEF Typed, Rows
<1>2. Is(x, {"cancel"}) \/ Is(x, {"fund"}) \/ row.escrow # "PENDING"
  BY DEF Commit, Sound, Is
<1> USE DEF Phases, NoCancelledHeld, Rows
<1>3. CASE row' = row
  BY <1>3
<1>4. CASE Is(x, {"accept"}) /\ Promise!Accept
  BY <1>1, <1>2, <1>4 DEF Promise!Accept, Is
<1>5. CASE Is(x, {"start"}) /\ Promise!Start
  BY <1>1, <1>2, <1>5 DEF Promise!Start, Is
<1>6. CASE Is(x, {"complete"}) /\ Promise!Complete
  BY <1>1, <1>2, <1>6 DEF Promise!Complete, Is
<1>7. CASE Promise!Claim
  BY <1>1, <1>7 DEF Promise!Claim
<1>8. CASE Promise!Cancel
  BY <1>1, <1>8 DEF Promise!Cancel, Promise!CANCELLABLE_STATUSES
<1>9. CASE Promise!Fund /\ (row.task = "CANCELLED" \/ (Holds(x, "task") /\ row.task = "PENDING_PAYMENT"))
  BY <1>1, <1>9 DEF Promise!Fund
<1>10. CASE Promise!Release
  BY <1>1, <1>10 DEF Promise!Release
<1>11. CASE Is(x, {"dispute"}) /\ Promise!Dispute
  BY <1>1, <1>2, <1>11 DEF Promise!Dispute, Is
<1>12. CASE Is(x, {"REFUNDED", "RELEASED"}) /\ Promise!Resolve
  BY <1>1, <1>2, <1>12 DEF Promise!Resolve, Is
<1>13. CASE Is(x, {"settle"}) /\ Promise!Settle
  BY <1>1, <1>2, <1>13 DEF Promise!Settle, Is
<1> QED
  BY <1>1, <1>3, <1>4, <1>5, <1>6, <1>7, <1>8, <1>9, <1>10, <1>11, <1>12, <1>13 DEF Effect

LEMMA OthersAfterCommit ==
    ASSUME Typed, Exclusive, Phases, NoCancelledHeld, NEW x \in Txns, NEW y \in Txns \ {x},
           Sound(x), Sound(y), Commit(x)
    PROVE  Sound(y)'
<1>1. txn'[y] = txn[y] /\ draft'[y] = draft[y] /\ txn[y].pc \in Nat
  BY CommittedRows DEF Alone, Typed, TxnType
<1>2. \A r \in Rows : Holds(y, r) => row'[r] = row[r]
  BY CommittedRows DEF Exclusive
<1>3. /\ Statements(y)' = Statements(y)
      /\ Active(y)' <=> Active(y)
      /\ Running(y)' <=> Running(y)
  BY <1>1 DEF Statements, Active, Running
<1>4. Holds(y, "task") => ~Holds(x, "task")
  BY DEF Exclusive, Rows
<1>5. ~Past(y, 1)' => draft'[y] = Free /\ ~txn'[y].hit
  BY <1>1 DEF Sound, Past
<1>6. Unlocked \notin Values
  BY Columns
<1> USE DEF Is, Past, Only, Holds, Rows, Values, TaskStatus, EscrowStatus, Swaps, Same
<1>7. Single(y)'
  BY <1>1, <1>2, <1>6 DEF Sound, Single
<1>8. Cancels(y)'
  <2>1. row'.escrow = "HELD" => row.escrow = "HELD" \/ ~Holds(y, "task")
    BY <1>4, CommitFacts
  <2> QED BY <1>1, <1>2, <1>6, <2>1 DEF Sound, Cancels, CANCELLABLE_STATUSES
<1>9. Funds(y)'
  BY <1>1, <1>2, <1>6, CommitFacts DEF Sound, Funds
<1>10. Releases(y)'
  BY <1>1, <1>2, <1>6 DEF Sound, Releases
<1>11. Disputes(y)' /\ Resolves(y)' /\ Settles(y)'
  BY <1>1, <1>2, <1>6, CommitFacts DEF Sound, Disputes, Resolves, Settles
<1> QED
  BY <1>1, <1>3, <1>5, <1>7, <1>8, <1>9, <1>10, <1>11, CommitFacts DEF Sound

-----------------------------------------------------------------------------
(* The invariant.                                                          *)

LEMMA HoldsNothing ==
    ASSUME Typed, NEW x \in Txns, Alone(x), draft'[x] = Free
    PROVE  Exclusive => Exclusive'
<1>1. \A r \in Rows : ~Holds(x, r)'
  BY DEF Holds, Free
<1>2. \A y \in Txns \ {x}, r \in Rows : Holds(y, r)' <=> Holds(y, r)
  BY DEF Alone, Holds, Typed
<1> QED
  BY <1>1, <1>2 DEF Exclusive

LEMMA LockInit == Init => Typed /\ LockInv
<1> SUFFICES ASSUME Init PROVE Typed /\ LockInv
  OBVIOUS
<1>1. row = [task |-> "PENDING_PAYMENT", escrow |-> "PENDING", profile |-> "uncredited",
             dispute |-> "NONE", refund |-> "unsettled"]
  BY DEF Init, Promise!TransactionsInit
<1>2. Idle \in TxnType /\ Free \in [Rows -> Values \cup {Unlocked}]
  BY DEF Idle, Free, TxnType
<1>3. \A x \in Txns : txn[x] = Idle /\ draft[x] = Free /\ \A r \in Rows : ~Holds(x, r)
  BY DEF Init, Free, Holds
<1>4. row \in [Rows -> Values] /\ \A r \in Rows : row[r] \in Column[r]
  <2>1. \A r \in Rows : row[r] \in Column[r]
    BY <1>1, Columns DEF Rows, TaskStatus, EscrowStatus
  <2>2. DOMAIN row = Rows
    BY <1>1 DEF Rows
  <2>3. \A r \in Rows : row[r] \in Values
    BY <2>1, Columns
  <2>4. row = [r \in DOMAIN row |-> row[r]]
    BY <1>1
  <2> QED BY <2>1, <2>2, <2>3, <2>4
<1>5. Typed
  BY <1>2, <1>3, <1>4 DEF Typed, Init
<1>6. Phases /\ NoCancelledHeld
  BY <1>1 DEF Phases, NoCancelledHeld
<1>7. Exclusive
  BY <1>3 DEF Exclusive
<1>8. ASSUME NEW x \in Txns PROVE Sound(x)
  <2>1. /\ txn[x].kind = "idle" /\ txn[x].pc = 0 /\ ~txn[x].hit /\ ~txn[x].waits
        /\ txn[x] = Idle /\ draft[x] = Free
    BY <1>3 DEF Idle
  <2>2. /\ Single(x) /\ Cancels(x) /\ Funds(x) /\ Releases(x)
        /\ Disputes(x) /\ Resolves(x) /\ Settles(x)
    BY <2>1 DEF Single, Cancels, Funds, Releases, Disputes, Resolves, Settles, Is
  <2> QED BY <2>1, <2>2 DEF Sound, Active
<1> QED
  BY <1>5, <1>6, <1>7, <1>8 DEF LockInv

LEMMA LockStep == Typed /\ LockInv /\ [Next]_vars => Typed' /\ LockInv'
<1> SUFFICES ASSUME Typed, LockInv, [Next]_vars PROVE Typed' /\ LockInv'
  OBVIOUS
<1>1. CASE UNCHANGED vars
  <2>1. row' = row /\ txn' = txn /\ draft' = draft
    BY <1>1 DEF vars
  <2>2. \A x \in Txns : Sound(x)'
    BY <2>1, OthersSound DEF LockInv
  <2> QED BY <2>1, <2>2 DEF LockInv, Typed, Exclusive, Phases, NoCancelledHeld, Holds
<1>2. ASSUME NEW x \in Txns,
             (\E kind \in Kinds : Begin(x, kind))
               \/ PassOver(x) \/ Wait(x) \/ Take(x) \/ Commit(x) \/ RollBack(x)
      PROVE  Typed' /\ LockInv'
  <2>1. /\ Exclusive /\ Phases /\ NoCancelledHeld /\ Sound(x)
        /\ \A y \in Txns \ {x} : Sound(y)
    BY DEF LockInv
  <2>2. ASSUME Typed', Alone(x), row' = row, Exclusive', Sound(x)'
        PROVE  Typed' /\ LockInv'
    <3>1. \A y \in Txns \ {x} : txn'[y] = txn[y] /\ draft'[y] = draft[y]
      BY <2>2 DEF Alone, Typed
    <3>2. \A y \in Txns \ {x} : Sound(y)'
      BY <2>1, <2>2, <3>1, OthersSound
    <3> QED BY <2>1, <2>2, <3>2 DEF LockInv, Phases, NoCancelledHeld
  <2>3. ASSUME NEW kind \in Kinds, Begin(x, kind) PROVE Typed' /\ LockInv'
    <3>1. txn' = [txn EXCEPT ![x] = [Idle EXCEPT !.kind = kind, !.pc = 1]]
          /\ row' = row /\ draft' = draft /\ ~Active(x)
      BY <2>3 DEF Begin
    <3>2. [Idle EXCEPT !.kind = kind, !.pc = 1] \in TxnType
      BY DEF Idle, TxnType
    <3>3. Typed'
      BY <3>1, <3>2 DEF Typed, Holds
    <3>4. Alone(x)
      BY <3>1 DEF Alone, Typed
    <3>5. Exclusive'
      BY <2>1, <3>1 DEF Exclusive, Holds
    <3> QED BY <2>1, <2>2, <2>3, <3>1, <3>3, <3>4, <3>5, BeginSound
  <2>4. CASE PassOver(x) \/ Wait(x) \/ Take(x)
    <3>1. Running(x) /\ row' = row /\ Alone(x) /\ (Moved(x) \/ Ended(x))
      BY <2>4, StepKinds DEF Moved
    <3>2. txn[x].pc # 0
      BY <2>1, <3>1 DEF Sound, Running
    <3>3. Typed' /\ Exclusive'
      BY <2>1, <2>4, <3>2, TypedStep, ExclusiveStep
    <3>4. Sound(x)'
      BY <2>1, <3>1, <3>2, <3>3, MovedSound, IdleSound DEF Ended
    <3> QED BY <2>2, <3>1, <3>3, <3>4
  <2>5. CASE Commit(x)
    <3>1. /\ row' \in [Rows -> Values] /\ \A r \in Rows : row'[r] \in Column[r]
          /\ Alone(x) /\ txn'[x] = Idle /\ draft'[x] = Free
      BY <2>5, CommittedRows DEF Ended
    <3>2. Idle \in TxnType /\ Free \in [Rows -> Values \cup {Unlocked}]
          /\ \A r \in Rows : Free[r] = Unlocked
      BY DEF Idle, Free, TxnType
    <3>3. Typed'
      BY <3>1, <3>2 DEF Typed, Alone, Holds
    <3>4. Exclusive'
      BY <2>1, <3>1, HoldsNothing
    <3>5. Sound(x)'
      BY <3>1, IdleSound
    <3>6. \A y \in Txns \ {x} : Sound(y)'
      BY <2>1, <2>5, OthersAfterCommit
    <3>7. Phases' /\ NoCancelledHeld'
      BY <2>1, <2>5, CommitFacts
    <3> QED BY <3>3, <3>4, <3>5, <3>6, <3>7 DEF LockInv
  <2>6. CASE RollBack(x)
    <3>1. Alone(x) /\ txn'[x] = Idle /\ draft'[x] = Free /\ row' = row
      BY <2>6 DEF RollBack, End, Alone, Typed
    <3>2. Idle \in TxnType /\ Free \in [Rows -> Values \cup {Unlocked}]
          /\ \A r \in Rows : Free[r] = Unlocked
      BY DEF Idle, Free, TxnType
    <3>3. Typed'
      BY <3>1, <3>2, TypedIf
    <3> QED BY <2>1, <2>2, <3>1, <3>3, HoldsNothing, IdleSound
  <2> QED BY <1>2, <2>3, <2>4, <2>5, <2>6
<1> QED
  BY <1>1, <1>2 DEF Next

\* What a transaction has locked is what its kind has written so far, and every
\* row it goes by is as it found it (all $transaction blocks).
THEOREM LocksHold == Spec => [](Typed /\ LockInv)
<1> QED BY LockInit, LockStep, PTL DEF Spec

\* The interleaved statements of cancel, the webhook and all others leave no
\* CANCELLED task with HELD money (executeCancel, applyEscrowPayment).
THEOREM CancelledIsNotHeld == Spec => []NoCancelledHeld
<1>1. LockInv => NoCancelledHeld
  BY DEF LockInv
<1> QED BY <1>1, LocksHold, PTL

\* Locks implements Transactions: whatever interleaves, a transaction commits
\* what it would have done alone at that moment (all $transaction blocks).
THEOREM CommitsAsIfAlone == Spec => CommitsAreAtomic
<1>1. Init => Promise!TransactionsInit
  BY DEF Init
<1>2. Typed /\ LockInv /\ [Next]_vars => [Promise!TransactionsNext]_row
  <2> SUFFICES ASSUME Typed, LockInv, [Next]_vars PROVE Promise!TransactionsNext \/ row' = row
    OBVIOUS
  <2>1. ASSUME NEW x \in Txns, Commit(x) PROVE Promise!TransactionsNext \/ row' = row
    <3>1. Effect(x)
      BY <2>1, CommitEffect DEF LockInv
    <3> QED BY <3>1, Zenon DEF Effect, Promise!TransactionsNext
  <2>2. ASSUME NEW x \in Txns,
               (\E kind \in Kinds : Begin(x, kind))
                 \/ PassOver(x) \/ Wait(x) \/ Take(x) \/ RollBack(x)
        PROVE  row' = row
    BY <2>2 DEF Begin, PassOver, Wait, Take, RollBack
  <2> QED BY <2>1, <2>2 DEF Next, vars
<1> QED
  BY <1>1, <1>2, LocksHold, PTL DEF Spec, CommitsAreAtomic, Promise!TransactionsSpec

-----------------------------------------------------------------------------
(* Deadlocks.  All but three kinds lock the rows in one order.             *)

Depth == [task |-> 1, dispute |-> 2, refund |-> 2, escrow |-> 3, profile |-> 4]

EscrowFirst == {"confirm", "REFUNDED", "RELEASED"}

LEMMA Depths == \A r \in Rows : Depth[r] \in 1 .. 4
BY DEF Depth, Rows

LEMMA WaitsUpward ==
    ASSUME Typed, NEW x \in Txns, Sound(x), txn[x].waits, ~Is(x, EscrowFirst),
           NEW r \in Rows, Holds(x, r)
    PROVE  Depth[r] < Depth[Statement(x).row]
<1>1. Running(x) /\ txn[x].kind \in Kinds /\ txn[x].pc \in Nat \ {0} /\ txn[x] \in TxnType
      /\ txn[x].hit \in BOOLEAN
  BY DEF Sound, Running, Active, Typed, TxnType
<1>2. Past(x, 1)
  BY DEF Sound, Holds, Free
<1> USE DEF Is, Past, Only, Rows, Depth, Swap, Set, Look
<1>3. CASE Is(x, {"accept", "start", "complete", "claim"})
  BY <1>1, <1>2, <1>3, Table
<1>4. CASE Is(x, {"cancel"})
  BY <1>1, <1>2, <1>4, Table DEF Sound, Cancels
<1>5. CASE Is(x, {"fund"})
  BY <1>1, <1>2, <1>5, Table DEF Sound, Funds
<1>6. CASE Is(x, {"autoRelease"})
  BY <1>1, <1>2, <1>6, Table DEF Sound, Releases
<1>7. CASE Is(x, {"dispute"})
  BY <1>1, <1>2, <1>7, Table DEF Sound, Disputes
<1>8. CASE Is(x, {"settle"})
  BY <1>1, <1>2, <1>8, Table DEF Sound, Settles
<1> QED
  BY <1>1, <1>3, <1>4, <1>5, <1>6, <1>7, <1>8 DEF Kinds, EscrowFirst

\* A deadlock of any number of transactions has in it a confirm or a
\* resolution, which write the escrow before the task (confirm, resolveDispute).
THEOREM DeadlocksOverEscrow == Spec => []DeadlocksNeedEscrowFirst
<1>1. Typed /\ LockInv => DeadlocksNeedEscrowFirst
  <2> SUFFICES ASSUME Typed, LockInv, NEW S \in SUBSET Txns, Deadlocked(S),
                      \A x \in S : ~Is(x, EscrowFirst)
               PROVE  FALSE
    BY DEF DeadlocksNeedEscrowFirst, Is, EscrowFirst
  <2> DEFINE level(x) == Depth[Statement(x).row]
  <2>1. ASSUME NEW x \in S PROVE \E y \in S : level(x) < level(y) /\ level(y) \in 1 .. 4
    <3>1. PICK y \in S : WaitsFor(x, y)
      BY DEF Deadlocked
    <3>2. PICK z \in S : WaitsFor(y, z)
      BY DEF Deadlocked
    <3>3. txn[x].waits /\ txn[y].waits /\ Holds(y, Statement(x).row)
      BY <3>1, <3>2 DEF WaitsFor
    <3>4. /\ Sound(x) /\ Sound(y)
          /\ Running(x) /\ txn[x].pc # 0 /\ txn[x] \in TxnType
          /\ Running(y) /\ txn[y].pc # 0 /\ txn[y] \in TxnType
      BY <3>3 DEF LockInv, Sound, Running, Typed
    <3>5. Statement(x).row \in Rows /\ Statement(y).row \in Rows
      BY <3>4, StatementType
    <3>6. level(x) < level(y)
      BY <3>3, <3>4, <3>5, WaitsUpward
    <3>7. level(y) \in 1 .. 4
      BY <3>5, Depths
    <3> QED BY <3>6, <3>7
  <2> HIDE DEF level
  <2>2. PICK a \in S : TRUE
    BY DEF Deadlocked
  <2>3. PICK b \in S : level(b) \in 1 .. 4
    BY <2>1, <2>2
  <2>4. PICK c \in S : level(b) < level(c) /\ level(c) \in 1 .. 4
    BY <2>1
  <2>5. PICK d \in S : level(c) < level(d) /\ level(d) \in 1 .. 4
    BY <2>1
  <2>6. PICK e \in S : level(d) < level(e) /\ level(e) \in 1 .. 4
    BY <2>1
  <2>7. PICK f \in S : level(e) < level(f) /\ level(f) \in 1 .. 4
    BY <2>1
  <2> QED BY <2>3, <2>4, <2>5, <2>6, <2>7
<1> QED BY <1>1, LocksHold, PTL
=============================================================================
