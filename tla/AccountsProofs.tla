--------------------------- MODULE AccountsProofs ---------------------------
(***************************************************************************)
(* Type correctness of Accounts, the bound on wrong guesses for any number *)
(* of concurrent requests, and whom a session belongs to.                  *)
(***************************************************************************)
EXTENDS Accounts, FiniteSetTheorems, TLAPS

\* A step that moves one request and keeps every token keeps the requests
\* well-typed.
LEMMA MoveKeepsReqs ==
    ASSUME ReqsOK, NEW p \in Reqs, NEW r,
           req' = [req EXCEPT ![p] = r], ReqOK(r, DOMAIN tokens'),
           DOMAIN tokens \subseteq DOMAIN tokens'
    PROVE  ReqsOK'
<1>1. r \in Request
  BY DEF ReqOK
<1>2. \A q \in Reqs : q # p => ReqOK(req'[q], DOMAIN tokens')
  BY DEF ReqsOK, ReqOK
<1>3. req'[p] = r
  BY DEF ReqsOK
<1> QED
  BY <1>1, <1>2, <1>3 DEF ReqsOK, ReqOK

LEMMA IdleOK == \A D : ReqOK(Idle, D)
BY DEF ReqOK, Idle, Request

LEMMA FinishKeepsReqs ==
    ASSUME ReqsOK, NEW p \in Reqs, Finish(p), DOMAIN tokens \subseteq DOMAIN tokens'
    PROVE  ReqsOK'
BY IdleOK, MoveKeepsReqs DEF Finish

LEMMA IssueType ==
    ASSUME TypeOK, NEW p \in Reqs, NEW ph \in Phones, IssueOtp(p, ph)
    PROVE  TypeOK'
<1> USE DEF TypeOK
<1>1. RowsOK'
  BY DEF IssueOtp, RowsOK
<1>2. PICK r : req' = [req EXCEPT ![p] = r] /\ ReqOK(r, DOMAIN tokens')
  <2>1. ReqOK([Idle EXCEPT !.pc = "createUser", !.phone = ph], DOMAIN tokens')
    BY DEF ReqOK, Idle, Request
  <2>2. \A u \in Ids : ReqOK([Idle EXCEPT !.pc = "cooldown", !.phone = ph, !.user = u],
                             DOMAIN tokens')
    BY DEF ReqOK, Idle, Request
  <2> QED
    BY <2>1, <2>2 DEF IssueOtp, Owners
<1>3. ReqsOK'
  BY <1>2, MoveKeepsReqs DEF IssueOtp
<1> QED
  BY <1>1, <1>3

LEMMA CreateUserType ==
    ASSUME TypeOK, NEW p \in Reqs, CreateUser(p)
    PROVE  TypeOK'
<1> USE DEF TypeOK
<1>1. req[p] \in Request /\ ReqOK(req[p], DOMAIN tokens) /\ req[p].phone \in Phones
  BY DEF ReqsOK, ReqOK, CreateUser, At
<1>2. RowsOK'
  BY <1>1 DEF CreateUser, RowsOK, UserRow
<1>3. CASE Finish(p)
  BY <1>2, <1>3, FinishKeepsReqs DEF CreateUser
<1>4. CASE \E u \in Ids : req' = [req EXCEPT ![p].pc = "cooldown", ![p].user = u]
  <2>1. PICK u \in Ids : req' = [req EXCEPT ![p].pc = "cooldown", ![p].user = u]
    BY <1>4
  <2> DEFINE r == [req[p] EXCEPT !.pc = "cooldown", !.user = u]
  <2>2. req' = [req EXCEPT ![p] = r]
    BY <2>1 DEF ReqsOK
  <2>3. ReqOK(r, DOMAIN tokens')
    BY <1>1 DEF ReqOK, Request
  <2> QED
    BY <1>2, <2>2, <2>3, MoveKeepsReqs DEF CreateUser
<1> QED
  BY <1>3, <1>4 DEF CreateUser

LEMMA CooldownType ==
    ASSUME TypeOK, NEW p \in Reqs, CooldownCheck(p)
    PROVE  TypeOK'
<1> USE DEF TypeOK
<1>1. req[p] \in Request /\ ReqOK(req[p], DOMAIN tokens) /\ req[p].pc = "cooldown"
  BY DEF ReqsOK, CooldownCheck, At
<1>2. RowsOK'
  BY DEF CooldownCheck, RowsOK
<1>3. CASE Finish(p)
  BY <1>2, <1>3, FinishKeepsReqs DEF CooldownCheck
<1>4. CASE req' = [req EXCEPT ![p].pc = "createToken", ![p].expires = now + Expiry]
  <2> DEFINE r == [req[p] EXCEPT !.pc = "createToken", !.expires = now + Expiry]
  <2>1. req' = [req EXCEPT ![p] = r]
    BY <1>4 DEF ReqsOK
  <2>2. now + Expiry \in Nat
    BY AccountsAssumption DEF RowsOK
  <2>3. ReqOK(r, DOMAIN tokens')
    BY <1>1, <2>2 DEF ReqOK, Request, CooldownCheck
  <2> QED
    BY <1>2, <2>1, <2>3, MoveKeepsReqs DEF CooldownCheck
<1> QED
  BY <1>3, <1>4 DEF CooldownCheck

LEMMA CreateTokenType ==
    ASSUME TypeOK, NEW p \in Reqs, CreateToken(p)
    PROVE  TypeOK'
<1> USE DEF TypeOK
<1>1. req[p] \in Request /\ ReqOK(req[p], DOMAIN tokens) /\ req[p].pc = "createToken"
  BY DEF ReqsOK, CreateToken, At
<1>2. PICK c \in Codes : tokens' = Append(tokens,
           [user |-> req[p].user, phone |-> req[p].phone, code |-> c, born |-> now,
            expires |-> req[p].expires, used |-> FALSE, attempts |-> 0])
  BY DEF CreateToken
<1>3. [user |-> req[p].user, phone |-> req[p].phone, code |-> c, born |-> now,
       expires |-> req[p].expires, used |-> FALSE, attempts |-> 0] \in Token
  BY <1>1 DEF ReqOK, Request, Token, RowsOK
<1>4. tokens' \in Seq(Token) /\ DOMAIN tokens \subseteq DOMAIN tokens'
  BY <1>2, <1>3 DEF RowsOK
<1>5. RowsOK'
  BY <1>4 DEF CreateToken, RowsOK
<1> DEFINE r == [req[p] EXCEPT !.pc = "send"]
<1>6. req' = [req EXCEPT ![p] = r]
  BY DEF CreateToken, ReqsOK
<1>7. ReqOK(r, DOMAIN tokens')
  BY <1>1 DEF ReqOK, Request
<1> QED
  BY <1>4, <1>5, <1>6, <1>7, MoveKeepsReqs

LEMMA VerifyType ==
    ASSUME TypeOK, NEW p \in Reqs, NEW ph \in Phones, NEW c \in Codes, VerifyOtp(p, ph, c)
    PROVE  TypeOK'
<1> USE DEF TypeOK
<1>1. RowsOK'
  BY DEF VerifyOtp, RowsOK
<1>2. PICK i \in DOMAIN tokens : req' = [req EXCEPT ![p] =
           [Idle EXCEPT !.pc = Verdict(tokens[i], c), !.phone = ph, !.tok = i]]
  BY DEF VerifyOtp
<1> DEFINE r == [Idle EXCEPT !.pc = Verdict(tokens[i], c), !.phone = ph, !.tok = i]
<1>3. i \in Nat
  BY DEF RowsOK
<1>4. Verdict(tokens[i], c) \in {"burn", "count", "findUser"}
  BY DEF Verdict
<1>5. ReqOK(r, DOMAIN tokens')
  BY <1>3, <1>4 DEF ReqOK, Idle, Request, VerifyOtp
<1> QED
  BY <1>1, <1>2, <1>5, MoveKeepsReqs DEF VerifyOtp

\* A write to one column of one token.
LEMMA TokenWriteType ==
    ASSUME RowsOK, NEW i \in DOMAIN tokens, NEW n \in Nat,
           \/ tokens' = [tokens EXCEPT ![i].used = TRUE]
           \/ tokens' = [tokens EXCEPT ![i].attempts = n]
    PROVE  tokens' \in Seq(Token) /\ DOMAIN tokens' = DOMAIN tokens
<1>1. PICK w : w \in Token /\ tokens' = [tokens EXCEPT ![i] = w]
  <2>1. tokens[i] \in Token
    BY DEF RowsOK
  <2>2. /\ [tokens[i] EXCEPT !.used = TRUE] \in Token
        /\ [tokens[i] EXCEPT !.attempts = n] \in Token
    BY <2>1 DEF Token
  <2> QED
    BY <2>2
<1> QED
  BY <1>1 DEF RowsOK

LEMMA TokenStepType ==
    ASSUME TypeOK, NEW p \in Reqs, BurnToken(p) \/ CountAttempt(p) \/ Redeem(p)
    PROVE  TypeOK'
<1> USE DEF TypeOK
<1> DEFINE i == req[p].tok
<1>1. req[p] \in Request /\ ReqOK(req[p], DOMAIN tokens) /\ req[p].pc \in {"burn", "count", "redeem"}
  BY DEF ReqsOK, BurnToken, CountAttempt, Redeem, At
<1>2. i \in DOMAIN tokens
  BY <1>1 DEF ReqOK
<1>3. tokens[i].attempts + 1 \in Nat
  <2>1. tokens[i] \in Token
    BY <1>2 DEF RowsOK
  <2> QED
    BY <2>1 DEF Token
<1>4. tokens' \in Seq(Token) /\ DOMAIN tokens' = DOMAIN tokens
  <2>1. CASE tokens' = [tokens EXCEPT ![i].used = TRUE]
    BY <1>2, <2>1, TokenWriteType
  <2>2. CASE tokens' = [tokens EXCEPT ![i].attempts = @ + 1]
    <3> DEFINE n == tokens[i].attempts + 1
    <3>1. tokens' = [tokens EXCEPT ![i].attempts = n]
      BY <2>2
    <3>2. n \in Nat
      BY <1>3
    <3> HIDE DEF n
    <3> QED
      BY <1>2, <3>1, <3>2, TokenWriteType
  <2> QED
    BY <2>1, <2>2 DEF BurnToken, CountAttempt, Redeem
<1>5. sessions' \subseteq Session
  BY <1>1 DEF BurnToken, CountAttempt, Redeem, RowsOK, ReqOK, Request, Session, At
<1>6. RowsOK'
  BY <1>4, <1>5 DEF BurnToken, CountAttempt, Redeem, RowsOK
<1> QED
  BY <1>4, <1>6, FinishKeepsReqs DEF BurnToken, CountAttempt, Redeem

LEMMA FindUserType ==
    ASSUME TypeOK, NEW p \in Reqs, FindUser(p)
    PROVE  TypeOK'
<1> USE DEF TypeOK
<1>1. req[p] \in Request /\ ReqOK(req[p], DOMAIN tokens) /\ req[p].pc = "findUser"
  BY DEF ReqsOK, FindUser, At
<1> DEFINE u == tokens[req[p].tok].user
           r == [req[p] EXCEPT !.pc = "redeem", !.user = u, !.banned = user[u].banned]
<1>2. u \in Ids /\ user[u].banned \in BOOLEAN
  <2>1. tokens[req[p].tok] \in Token
    BY <1>1 DEF ReqOK, RowsOK
  <2>2. u \in Ids
    BY <2>1 DEF Token
  <2> HIDE DEF u
  <2> QED
    BY <2>2 DEF RowsOK, UserRow
<1>3. req' = [req EXCEPT ![p] = r]
  BY DEF FindUser, ReqsOK
<1>4. ReqOK(r, DOMAIN tokens')
  BY <1>1, <1>2 DEF ReqOK, Request, FindUser
<1>5. RowsOK'
  BY DEF FindUser, RowsOK
<1> QED
  BY <1>3, <1>4, <1>5, MoveKeepsReqs DEF FindUser

LEMMA TypeStep ==
    ASSUME TypeOK, [Next]_vars
    PROVE  TypeOK'
<1>1. CASE \E p \in Reqs : CreateUser(p) \/ CooldownCheck(p) \/ CreateToken(p)
  BY <1>1, CreateUserType, CooldownType, CreateTokenType
<1>2. CASE \E p \in Reqs : BurnToken(p) \/ CountAttempt(p) \/ Redeem(p) \/ FindUser(p)
  BY <1>2, TokenStepType, FindUserType
<1>3. CASE \E p \in Reqs : SendOtp(p) \/ Fail(p)
  BY <1>3, FinishKeepsReqs DEF SendOtp, Fail, TypeOK, RowsOK
<1>4. CASE \E p \in Reqs, ph \in Phones :
             IssueOtp(p, ph) \/ \E c \in Codes : VerifyOtp(p, ph, c)
  BY <1>4, IssueType, VerifyType
<1>5. CASE \E u \in Ids : DeleteMe(u) \/ \E b \in BOOLEAN : SetBanned(u, b)
  BY <1>5 DEF DeleteMe, SetBanned, TypeOK, RowsOK, ReqsOK, ReqOK, UserRow
<1>6. CASE Tick
  BY <1>6, AccountsAssumption DEF Tick, TypeOK, RowsOK, ReqsOK, ReqOK
<1>7. CASE UNCHANGED vars
  BY <1>7 DEF vars, TypeOK, RowsOK, ReqsOK, ReqOK
<1> QED
  BY <1>1, <1>2, <1>3, <1>4, <1>5, <1>6, <1>7 DEF Next, Step

LEMMA InitType == Init => TypeOK
<1> SUFFICES ASSUME Init PROVE TypeOK
  OBVIOUS
<1>1. RowsOK
  BY AccountsAssumption DEF Init, RowsOK, UserRow
<1>2. Idle \in Request
  BY DEF Idle, Request
<1>3. ReqsOK
  BY <1>2, IdleOK DEF Init, ReqsOK
<1> QED
  BY <1>1, <1>3 DEF TypeOK

-----------------------------------------------------------------------------
\* Every row of the accounts and every request in flight keeps its type.
THEOREM AccountsTyped == Spec => []TypeOK
<1>1. Init => TypeOK
  BY InitType
<1>2. TypeOK /\ [Next]_vars => TypeOK'
  BY TypeStep
<1> QED
  BY <1>1, <1>2, PTL DEF Spec

-----------------------------------------------------------------------------
(* Wrong guesses.  A request that will count a guess has read a counter    *)
(* below the limit, so what is counted and what is about to be counted     *)
(* stay below the limit and the number of request slots together.          *)

Guessing(i) == {p \in Reqs : req[p].pc = "count" /\ req[p].tok = i}

GuessInv ==
    \A i \in DOMAIN tokens :
        tokens[i].attempts + Cardinality(Guessing(i))
            < MAX_VERIFY_ATTEMPTS + Cardinality(Reqs)

LEMMA GuessingFinite ==
    \A S \in SUBSET Reqs : /\ IsFiniteSet(S)
                           /\ Cardinality(S) \in Nat
                           /\ Cardinality(S) <= Cardinality(Reqs)
BY FS_Subset, FS_CardinalityType, AccountsAssumption

LEMMA AttemptsNat ==
    ASSUME RowsOK, NEW i \in DOMAIN tokens
    PROVE  tokens[i].attempts \in Nat
<1>1. tokens[i] \in Token
  BY DEF RowsOK
<1> QED
  BY <1>1 DEF Token

\* A step after which no more requests are guessing keeps the invariant, if
\* no counter grows.
LEMMA FewerGuesses ==
    ASSUME RowsOK, RowsOK', GuessInv, NEW i \in DOMAIN tokens,
           i \in DOMAIN tokens', tokens'[i].attempts = tokens[i].attempts,
           Guessing(i)' \subseteq Guessing(i)
    PROVE  tokens'[i].attempts + Cardinality(Guessing(i)')
              < MAX_VERIFY_ATTEMPTS + Cardinality(Reqs)
<1> DEFINE S == Guessing(i)
           T == Guessing(i)'
<1>1. S \in SUBSET Reqs /\ T \in SUBSET Reqs
  BY DEF Guessing
<1>2. IsFiniteSet(S) /\ Cardinality(S) \in Nat /\ Cardinality(T) \in Nat
      /\ Cardinality(Reqs) \in Nat
  BY <1>1, GuessingFinite
<1>3. Cardinality(T) <= Cardinality(S)
  BY <1>2, FS_Subset
<1>4. tokens[i].attempts + Cardinality(S) < MAX_VERIFY_ATTEMPTS + Cardinality(Reqs)
  BY DEF GuessInv
<1>5. tokens[i].attempts \in Nat /\ MAX_VERIFY_ATTEMPTS \in Nat
  BY AttemptsNat, AccountsAssumption
<1> QED
  BY <1>2, <1>3, <1>4, <1>5

LEMMA CountStep ==
    ASSUME TypeOK, TypeOK', GuessInv, NEW p \in Reqs, CountAttempt(p)
    PROVE  GuessInv'
<1>1. PICK k : k = req[p].tok
  OBVIOUS
<1>2. /\ k \in DOMAIN tokens /\ req[p].pc = "count" /\ tokens \in Seq(Token)
      /\ req \in [Reqs -> Request] /\ RowsOK /\ RowsOK'
  BY <1>1 DEF TypeOK, ReqsOK, ReqOK, RowsOK, CountAttempt, At
<1>3. tokens' = [tokens EXCEPT ![k] = [tokens[k] EXCEPT !.attempts = tokens[k].attempts + 1]]
  BY <1>1, <1>2 DEF CountAttempt
<1>4. DOMAIN tokens' = DOMAIN tokens
  BY <1>2, <1>3
<1>5. tokens'[k].attempts = tokens[k].attempts + 1
  <2>1. tokens[k] \in Token
    BY <1>2
  <2>2. tokens'[k] = [tokens[k] EXCEPT !.attempts = tokens[k].attempts + 1]
    BY <1>2, <1>3
  <2> QED
    BY <2>1, <2>2 DEF Token
<1>6. \A i \in DOMAIN tokens \ {k} : tokens'[i].attempts = tokens[i].attempts
  BY <1>2, <1>3
<1>7. \A i : Guessing(i)' = Guessing(i) \ {p}
  BY <1>2 DEF Guessing, CountAttempt, Finish, Idle
<1>8. p \in Guessing(k)
  BY <1>1, <1>2 DEF Guessing
<1>9. tokens'[k].attempts + Cardinality(Guessing(k)')
        < MAX_VERIFY_ATTEMPTS + Cardinality(Reqs)
  <2>1. IsFiniteSet(Guessing(k)) /\ Cardinality(Guessing(k)) \in Nat
        /\ Cardinality(Reqs) \in Nat
    BY GuessingFinite DEF Guessing
  <2>2. Cardinality(Guessing(k) \ {p}) = Cardinality(Guessing(k)) - 1
    BY <1>8, <2>1, FS_RemoveElement
  <2>3. tokens[k].attempts \in Nat /\ MAX_VERIFY_ATTEMPTS \in Nat
    BY <1>2, AttemptsNat, AccountsAssumption
  <2>4. tokens[k].attempts + Cardinality(Guessing(k))
          < MAX_VERIFY_ATTEMPTS + Cardinality(Reqs)
    BY <1>2 DEF GuessInv
  <2>5. Guessing(k)' = Guessing(k) \ {p}
    BY <1>7
  <2>6. Cardinality(Guessing(k)') = Cardinality(Guessing(k)) - 1
    BY <2>2, <2>5
  <2> QED
    BY <1>5, <2>1, <2>3, <2>4, <2>6
<1>10. ASSUME NEW i \in DOMAIN tokens, i # k
       PROVE  tokens'[i].attempts + Cardinality(Guessing(i)')
                < MAX_VERIFY_ATTEMPTS + Cardinality(Reqs)
  <2>1. Guessing(i)' \subseteq Guessing(i)
    BY <1>7
  <2> QED
    BY <1>2, <1>4, <1>6, <1>10, <2>1, FewerGuesses
<1>11. \A i \in DOMAIN tokens' :
         tokens'[i].attempts + Cardinality(Guessing(i)')
           < MAX_VERIFY_ATTEMPTS + Cardinality(Reqs)
  BY <1>4, <1>9, <1>10
<1> QED
  BY <1>11 DEF GuessInv

LEMMA VerifyStep ==
    ASSUME TypeOK, TypeOK', GuessInv, NEW p \in Reqs, NEW ph \in Phones, NEW c \in Codes,
           VerifyOtp(p, ph, c)
    PROVE  GuessInv'
<1>1. PICK k \in DOMAIN tokens : req' = [req EXCEPT ![p] =
           [Idle EXCEPT !.pc = Verdict(tokens[k], c), !.phone = ph, !.tok = k]]
  BY DEF VerifyOtp
<1>2. req \in [Reqs -> Request] /\ tokens' = tokens /\ RowsOK /\ RowsOK'
      /\ req[p].pc = "idle"
  BY DEF TypeOK, ReqsOK, VerifyOtp, At
<1>3. /\ req'[p].pc = Verdict(tokens[k], c)
      /\ req'[p].tok = k
      /\ \A q \in Reqs \ {p} : req'[q] = req[q]
  BY <1>1, <1>2 DEF Idle
<1>4. ASSUME NEW i \in DOMAIN tokens, ~(i = k /\ Verdict(tokens[k], c) = "count")
      PROVE  tokens'[i].attempts + Cardinality(Guessing(i)')
               < MAX_VERIFY_ATTEMPTS + Cardinality(Reqs)
  <2>1. Guessing(i)' \subseteq Guessing(i)
    BY <1>2, <1>3, <1>4 DEF Guessing
  <2> QED
    BY <1>2, <2>1, FewerGuesses
<1>5. ASSUME Verdict(tokens[k], c) = "count"
      PROVE  tokens'[k].attempts + Cardinality(Guessing(k)')
               < MAX_VERIFY_ATTEMPTS + Cardinality(Reqs)
  <2>1. tokens[k].attempts \in Nat /\ MAX_VERIFY_ATTEMPTS \in Nat
    BY <1>2, AttemptsNat, AccountsAssumption
  <2>2. tokens[k].attempts < MAX_VERIFY_ATTEMPTS
    BY <1>5, <2>1 DEF Verdict
  <2>3. Guessing(k)' \in SUBSET Reqs
    BY DEF Guessing
  <2>4. Cardinality(Guessing(k)') \in Nat /\ Cardinality(Reqs) \in Nat
        /\ Cardinality(Guessing(k)') <= Cardinality(Reqs)
    BY <2>3, GuessingFinite
  <2> QED
    BY <1>2, <2>1, <2>2, <2>4
<1> QED
  BY <1>2, <1>4, <1>5 DEF GuessInv

\* Any other move of a request takes it to no guess.
LEMMA OtherMoves ==
    ASSUME TypeOK, TypeOK', GuessInv, NEW p \in Reqs,
           \A q \in Reqs \ {p} : req'[q] = req[q],
           req'[p].pc # "count" \/ req'[p] = req[p],
           DOMAIN tokens \subseteq DOMAIN tokens',
           \A i \in DOMAIN tokens : tokens'[i].attempts = tokens[i].attempts,
           \A i \in DOMAIN tokens' \ DOMAIN tokens : tokens'[i].attempts = 0
    PROVE  GuessInv'
<1>1. \A i : Guessing(i)' \subseteq Guessing(i)
  BY DEF Guessing
<1>2. ASSUME NEW i \in DOMAIN tokens
      PROVE  tokens'[i].attempts + Cardinality(Guessing(i)')
               < MAX_VERIFY_ATTEMPTS + Cardinality(Reqs)
  BY <1>1, FewerGuesses DEF TypeOK
<1>3. ASSUME NEW i \in DOMAIN tokens', i \notin DOMAIN tokens
      PROVE  tokens'[i].attempts + Cardinality(Guessing(i)')
               < MAX_VERIFY_ATTEMPTS + Cardinality(Reqs)
  <2>1. Guessing(i)' \in SUBSET Reqs
    BY DEF Guessing
  <2>2. Cardinality(Guessing(i)') \in Nat /\ Cardinality(Reqs) \in Nat
        /\ Cardinality(Guessing(i)') <= Cardinality(Reqs)
    BY <2>1, GuessingFinite
  <2> QED
    BY <1>3, <2>2, AccountsAssumption
<1> QED
  BY <1>2, <1>3 DEF GuessInv

LEMMA GuessStep ==
    ASSUME TypeOK, TypeOK', GuessInv, [Next]_vars
    PROVE  GuessInv'
<1>1. req \in [Reqs -> Request] /\ tokens \in Seq(Token)
  BY DEF TypeOK, ReqsOK, RowsOK
<1>2. CASE \E p \in Reqs : CountAttempt(p)
  BY <1>2, CountStep
<1>3. CASE \E p \in Reqs, ph \in Phones, c \in Codes : VerifyOtp(p, ph, c)
  BY <1>3, VerifyStep
<1>4. ASSUME NEW p \in Reqs, NEW ph \in Phones, IssueOtp(p, ph) PROVE GuessInv'
  <2>1. /\ \A q \in Reqs \ {p} : req'[q] = req[q]
        /\ req'[p].pc # "count"
        /\ tokens' = tokens
    BY <1>1, <1>4 DEF IssueOtp, Idle
  <2> QED
    BY <2>1, OtherMoves
<1>5. ASSUME NEW p \in Reqs, CreateUser(p) \/ CooldownCheck(p) PROVE GuessInv'
  <2>0. req[p] \in Request
    BY <1>1
  <2>1. /\ \A q \in Reqs \ {p} : req'[q] = req[q]
        /\ req'[p].pc # "count"
    <3>1. CASE CreateUser(p)
      BY <1>1, <2>0, <3>1 DEF CreateUser, Finish, Idle, Request
    <3>2. CASE CooldownCheck(p)
      BY <1>1, <2>0, <3>2 DEF CooldownCheck, Finish, Idle, Request
    <3> QED
      BY <1>5, <3>1, <3>2
  <2>2. tokens' = tokens
    BY <1>5 DEF CreateUser, CooldownCheck
  <2> QED
    BY <2>1, <2>2, OtherMoves
<1>6. ASSUME NEW p \in Reqs, CreateToken(p) PROVE GuessInv'
  <2>1. PICK c \in Codes :
          tokens' = Append(tokens, [user |-> req[p].user, phone |-> req[p].phone,
                                    code |-> c, born |-> now,
                                    expires |-> req[p].expires,
                                    used |-> FALSE, attempts |-> 0])
    BY <1>6 DEF CreateToken
  <2>2. /\ DOMAIN tokens \subseteq DOMAIN tokens'
        /\ \A i \in DOMAIN tokens : tokens'[i].attempts = tokens[i].attempts
        /\ \A i \in DOMAIN tokens' \ DOMAIN tokens : tokens'[i].attempts = 0
    BY <1>1, <2>1
  <2>3. /\ \A q \in Reqs \ {p} : req'[q] = req[q]
        /\ req'[p].pc # "count"
    BY <1>1, <1>6 DEF CreateToken, Request
  <2> QED
    BY <2>2, <2>3, OtherMoves
<1>7. ASSUME NEW p \in Reqs, BurnToken(p) \/ Redeem(p) PROVE GuessInv'
  <2>1. PICK k : k = req[p].tok
    OBVIOUS
  <2>2. k \in DOMAIN tokens
    BY <1>7, <2>1 DEF BurnToken, Redeem, At, TypeOK, ReqsOK, ReqOK
  <2>3. tokens' = [tokens EXCEPT ![k] = [tokens[k] EXCEPT !.used = TRUE]]
    BY <1>1, <1>7, <2>1, <2>2 DEF BurnToken, Redeem
  <2>4. tokens[k] \in Token
    BY <1>1, <2>2
  <2>5. DOMAIN tokens' = DOMAIN tokens
    BY <1>1, <2>2, <2>3
  <2>6. \A i \in DOMAIN tokens : tokens'[i].attempts = tokens[i].attempts
    BY <1>1, <2>2, <2>3, <2>4 DEF Token
  <2>7. /\ \A q \in Reqs \ {p} : req'[q] = req[q]
        /\ req'[p].pc # "count"
    BY <1>1, <1>7 DEF BurnToken, Redeem, Finish, Idle
  <2> QED
    BY <2>5, <2>6, <2>7, OtherMoves
<1>10. ASSUME NEW p \in Reqs, SendOtp(p) \/ Fail(p) \/ FindUser(p) PROVE GuessInv'
  <2>1. /\ \A q \in Reqs \ {p} : req'[q] = req[q]
        /\ req'[p].pc # "count"
    BY <1>1, <1>10 DEF SendOtp, Fail, FindUser, Finish, Idle, Request
  <2>2. tokens' = tokens
    BY <1>10 DEF SendOtp, Fail, FindUser
  <2> QED
    BY <2>1, <2>2, OtherMoves
<1>8. CASE UNCHANGED <<tokens, req>>
  <2>1. \A i : Guessing(i)' = Guessing(i)
    BY <1>8 DEF Guessing
  <2> QED
    BY <1>8, <2>1 DEF GuessInv
<1>9. CASE \/ \E u \in Ids : DeleteMe(u) \/ \E b \in BOOLEAN : SetBanned(u, b)
           \/ Tick
           \/ UNCHANGED vars
  BY <1>8, <1>9 DEF DeleteMe, SetBanned, Tick, vars
<1> QED
  BY <1>2, <1>3, <1>4, <1>5, <1>6, <1>7, <1>9, <1>10 DEF Next, Step

\* However many requests read the attempt counter before one of them writes
\* it, it passes its limit by less than the number of request slots.
THEOREM GuessesStayBounded == Spec => []GuessesBounded
<1>1. Init => GuessInv
  BY DEF Init, GuessInv
<1>2. TypeOK /\ TypeOK' /\ GuessInv /\ [Next]_vars => GuessInv'
  BY GuessStep
<1>3. TypeOK /\ GuessInv => GuessesBounded
  <2> SUFFICES ASSUME TypeOK, GuessInv, NEW i \in DOMAIN tokens
               PROVE  tokens[i].attempts < MAX_VERIFY_ATTEMPTS + Cardinality(Reqs)
    BY DEF GuessesBounded
  <2>1. Cardinality(Guessing(i)) \in Nat /\ Cardinality(Reqs) \in Nat
    BY GuessingFinite DEF Guessing
  <2>2. tokens[i].attempts \in Nat /\ MAX_VERIFY_ATTEMPTS \in Nat
    BY AttemptsNat, AccountsAssumption DEF TypeOK
  <2> QED
    BY <2>1, <2>2 DEF GuessInv
<1> QED
  BY <1>1, <1>2, <1>3, AccountsTyped, PTL DEF Spec
-----------------------------------------------------------------------------
(* Who a code belongs to.  A user that once owned a number owns it until   *)
(* the account is deleted: numbers go to users that did not exist before.  *)
(* So what a code, a request or a session says of a user and a number is   *)
(* true, or the user is gone.                                              *)

OwnedOrGone(u, ph) == user[u].phone = ph \/ user[u].deleted

LoginOK(p) ==
    /\ req[p].pc \in {"cooldown", "createToken", "redeem"} =>
         OwnedOrGone(req[p].user, req[p].phone)
    /\ req[p].pc \in {"findUser", "redeem"} =>
         tokens[req[p].tok].phone = req[p].phone

CodeOK(i) == OwnedOrGone(tokens[i].user, tokens[i].phone)
SessionOK(s) == OwnedOrGone(s.user, s.phone)

LoginInv ==
    /\ \A i \in DOMAIN tokens : CodeOK(i)
    /\ \A p \in Reqs : LoginOK(p)
    /\ \A s \in sessions : SessionOK(s)

\* Owners go on owning or are gone, and codes stay whose they were.
Lasting ==
    /\ \A u \in Ids, ph \in Phones : OwnedOrGone(u, ph) => OwnedOrGone(u, ph)'
    /\ DOMAIN tokens \subseteq DOMAIN tokens'
    /\ \A i \in DOMAIN tokens : /\ tokens'[i].user = tokens[i].user
                                /\ tokens'[i].phone = tokens[i].phone

LEMMA CodesLast ==
    ASSUME TypeOK, LoginInv, Lasting, NEW i \in DOMAIN tokens
    PROVE  CodeOK(i)'
<1>1. tokens[i].user \in Ids /\ tokens[i].phone \in Phones
  <2>1. tokens[i] \in Token
    BY DEF TypeOK, RowsOK
  <2> QED BY <2>1 DEF Token
<1>2. PICK u \in Ids, ph \in Phones : u = tokens[i].user /\ ph = tokens[i].phone
  BY <1>1
<1>3. OwnedOrGone(u, ph)'
  BY <1>2 DEF LoginInv, CodeOK, Lasting
<1> QED
  BY <1>2, <1>3 DEF CodeOK, OwnedOrGone, Lasting

LEMMA SessionsLast ==
    ASSUME TypeOK, LoginInv, Lasting, NEW s \in sessions
    PROVE  SessionOK(s)'
<1>1. s.user \in Ids /\ s.phone \in Phones
  BY DEF TypeOK, RowsOK, Session
<1> QED
  BY <1>1 DEF LoginInv, SessionOK, Lasting

LEMMA RequestLasts ==
    ASSUME TypeOK, LoginInv, Lasting, NEW q \in Reqs, req'[q] = req[q]
    PROVE  LoginOK(q)'
<1>1. ReqOK(req[q], DOMAIN tokens) /\ LoginOK(q)
  BY DEF TypeOK, ReqsOK, LoginInv
<1>2. ASSUME req[q].pc \in {"cooldown", "createToken", "redeem"}
      PROVE  OwnedOrGone(req[q].user, req[q].phone)'
  <2>1. PICK u \in Ids, ph \in Phones : u = req[q].user /\ ph = req[q].phone
    BY <1>1, <1>2 DEF ReqOK
  <2>2. OwnedOrGone(u, ph)'
    BY <1>1, <1>2, <2>1 DEF LoginOK, Lasting
  <2> QED BY <2>1, <2>2 DEF OwnedOrGone
<1>3. ASSUME req[q].pc \in {"findUser", "redeem"}
      PROVE  tokens'[req[q].tok].phone = req[q].phone
  BY <1>1, <1>3 DEF ReqOK, LoginOK, Lasting
<1> QED
  BY <1>2, <1>3 DEF LoginOK

\* A step of p that brings in nothing that is not true.
LEMMA LoginStep ==
    ASSUME TypeOK, LoginInv, Lasting, NEW p \in Reqs,
           \A q \in Reqs \ {p} : req'[q] = req[q], LoginOK(p)',
           \A i \in DOMAIN tokens' \ DOMAIN tokens : CodeOK(i)',
           \A s \in sessions' \ sessions : SessionOK(s)'
    PROVE  LoginInv'
<1>1. \A i \in DOMAIN tokens' : CodeOK(i)'
  BY CodesLast
<1>2. \A s \in sessions' : SessionOK(s)'
  BY SessionsLast
<1>3. \A q \in Reqs : LoginOK(q)'
  BY RequestLasts
<1> QED
  BY <1>1, <1>2, <1>3 DEF LoginInv

LEMMA SameLasting == UNCHANGED <<user, tokens>> => Lasting
BY DEF Lasting, OwnedOrGone

\* A phone goes to a user that did not exist, so to none that owned one before.
LEMMA UserWriteLasting ==
    ASSUME TypeOK, UNCHANGED tokens,
           \/ UNCHANGED user
           \/ \E u \in Ids, ph \in Phones :
                ~Exists(u) /\ user' = [user EXCEPT ![u].phone = ph]
           \/ \E u \in Ids :
                user' = [user EXCEPT ![u].phone = NoPhone, ![u].deleted = TRUE]
           \/ \E u \in Ids, b \in BOOLEAN : user' = [user EXCEPT ![u].banned = b]
    PROVE  Lasting
<1>1. user \in [Ids -> UserRow]
  BY DEF TypeOK, RowsOK
<1>2. ASSUME NEW v \in Ids, NEW ph \in Phones, OwnedOrGone(v, ph)
      PROVE  OwnedOrGone(v, ph)'
  <2>1. CASE UNCHANGED user
    BY <1>2, <2>1 DEF OwnedOrGone
  <2>2. ASSUME NEW u \in Ids, NEW h \in Phones, ~Exists(u),
               user' = [user EXCEPT ![u].phone = h]
        PROVE  OwnedOrGone(v, ph)'
    <3>1. u # v
      BY <1>2, <2>2, AccountsAssumption DEF OwnedOrGone, Exists, AccountsAssumption
    <3> QED BY <1>1, <1>2, <2>2, <3>1 DEF OwnedOrGone
  <2>3. ASSUME NEW u \in Ids,
               user' = [user EXCEPT ![u].phone = NoPhone, ![u].deleted = TRUE]
        PROVE  OwnedOrGone(v, ph)'
    <3>1. CASE u = v
      BY <1>1, <2>3, <3>1 DEF OwnedOrGone, UserRow
    <3>2. CASE u # v
      BY <1>1, <1>2, <2>3, <3>2 DEF OwnedOrGone
    <3> QED BY <3>1, <3>2
  <2>4. ASSUME NEW u \in Ids, NEW b \in BOOLEAN, user' = [user EXCEPT ![u].banned = b]
        PROVE  OwnedOrGone(v, ph)'
    BY <1>1, <1>2, <2>4 DEF OwnedOrGone, UserRow
  <2> QED BY <2>1, <2>2, <2>3, <2>4
<1> QED
  BY <1>2 DEF Lasting

\* A request that ends, with rows, codes and sessions as they were.
LEMMA FinishLogin ==
    ASSUME TypeOK, LoginInv, Lasting, NEW p \in Reqs, Finish(p),
           DOMAIN tokens' = DOMAIN tokens, UNCHANGED sessions
    PROVE  LoginInv'
<1>1. req \in [Reqs -> Request]
  BY DEF TypeOK, ReqsOK
<1>2. \A q \in Reqs \ {p} : req'[q] = req[q]
  BY <1>1 DEF Finish
<1>3. LoginOK(p)'
  BY <1>1 DEF Finish, Idle, LoginOK
<1> QED
  BY <1>2, <1>3, LoginStep

LEMMA IssueLogin ==
    ASSUME TypeOK, LoginInv, NEW p \in Reqs, NEW ph \in Phones, IssueOtp(p, ph)
    PROVE  LoginInv'
<1>1. req \in [Reqs -> Request] /\ UNCHANGED <<user, tokens, sessions>>
  BY DEF TypeOK, ReqsOK, IssueOtp
<1>2. Lasting
  BY <1>1, SameLasting
<1>3. \A q \in Reqs \ {p} : req'[q] = req[q]
  BY <1>1 DEF IssueOtp
<1>4. CASE req' = [req EXCEPT ![p] = [Idle EXCEPT !.pc = "createUser", !.phone = ph]]
  <2>1. LoginOK(p)'
    BY <1>1, <1>4 DEF LoginOK, Idle
  <2> QED
    BY <1>1, <1>2, <1>3, <2>1, LoginStep
<1>5. ASSUME NEW u \in Owners(ph),
             req' = [req EXCEPT ![p] =
                       [Idle EXCEPT !.pc = "cooldown", !.phone = ph, !.user = u]]
      PROVE  LoginInv'
  <2>1. /\ req'[p].pc = "cooldown" /\ req'[p].user = u /\ req'[p].phone = ph
        /\ user'[u].phone = ph
    BY <1>1, <1>5 DEF Idle, Owners
  <2>2. LoginOK(p)'
    BY <2>1 DEF LoginOK, OwnedOrGone
  <2> QED
    BY <1>1, <1>2, <1>3, <2>2, LoginStep
<1> QED
  BY <1>4, <1>5 DEF IssueOtp

LEMMA CreateUserLogin ==
    ASSUME TypeOK, LoginInv, NEW p \in Reqs, CreateUser(p)
    PROVE  LoginInv'
<1>1. /\ req \in [Reqs -> Request] /\ req[p].phone \in Phones
      /\ user \in [Ids -> UserRow] /\ UNCHANGED <<tokens, sessions>>
  BY DEF TypeOK, RowsOK, ReqsOK, ReqOK, CreateUser, At
<1>2. CASE Finish(p) /\ UNCHANGED user
  BY <1>1, <1>2, SameLasting, FinishLogin
<1>3. ASSUME NEW u \in Ids, ~Exists(u), user' = [user EXCEPT ![u].phone = req[p].phone],
             req' = [req EXCEPT ![p].pc = "cooldown", ![p].user = u]
      PROVE  LoginInv'
  <2>1. PICK ph \in Phones : ph = req[p].phone
    BY <1>1
  <2>2. Lasting
    BY <1>1, <1>3, <2>1, UserWriteLasting
  <2>3. \A q \in Reqs \ {p} : req'[q] = req[q]
    BY <1>1, <1>3
  <2>4. /\ req'[p].pc = "cooldown" /\ req'[p].user = u /\ req'[p].phone = ph
        /\ user'[u].phone = ph
    BY <1>1, <1>3, <2>1 DEF Request, UserRow
  <2>5. LoginOK(p)'
    BY <2>4 DEF LoginOK, OwnedOrGone
  <2> QED
    BY <1>1, <2>2, <2>3, <2>5, LoginStep
<1> QED
  BY <1>2, <1>3 DEF CreateUser

LEMMA CooldownLogin ==
    ASSUME TypeOK, LoginInv, NEW p \in Reqs, CooldownCheck(p)
    PROVE  LoginInv'
<1>1. req \in [Reqs -> Request] /\ UNCHANGED <<user, tokens, sessions>>
  BY DEF TypeOK, ReqsOK, CooldownCheck
<1>2. Lasting
  BY <1>1, SameLasting
<1>3. CASE Finish(p)
  BY <1>1, <1>2, <1>3, FinishLogin
<1>4. CASE req' = [req EXCEPT ![p].pc = "createToken", ![p].expires = now + Expiry]
  <2>1. \A q \in Reqs \ {p} : req'[q] = req[q]
    BY <1>1, <1>4
  <2>2. /\ req'[p].pc = "createToken" /\ req'[p].user = req[p].user
        /\ req'[p].phone = req[p].phone
    BY <1>1, <1>4 DEF Request
  <2>3. OwnedOrGone(req[p].user, req[p].phone)
    BY DEF LoginInv, LoginOK, CooldownCheck, At
  <2>4. LoginOK(p)'
    BY <1>1, <2>2, <2>3 DEF LoginOK, OwnedOrGone
  <2> QED
    BY <1>1, <1>2, <2>1, <2>4, LoginStep
<1> QED
  BY <1>3, <1>4 DEF CooldownCheck

LEMMA CreateTokenLogin ==
    ASSUME TypeOK, LoginInv, NEW p \in Reqs, CreateToken(p)
    PROVE  LoginInv'
<1>1. /\ req \in [Reqs -> Request] /\ tokens \in Seq(Token)
      /\ UNCHANGED <<user, sessions>>
  BY DEF TypeOK, RowsOK, ReqsOK, CreateToken
<1>2. PICK t : /\ tokens' = Append(tokens, t)
               /\ t.user = req[p].user /\ t.phone = req[p].phone
  BY DEF CreateToken
<1>3. /\ DOMAIN tokens \subseteq DOMAIN tokens'
      /\ \A i \in DOMAIN tokens : tokens'[i] = tokens[i]
      /\ \A i \in DOMAIN tokens' \ DOMAIN tokens : tokens'[i] = t
  BY <1>1, <1>2
<1>4. Lasting
  BY <1>1, <1>3 DEF Lasting, OwnedOrGone
<1>5. OwnedOrGone(req[p].user, req[p].phone)
  BY DEF LoginInv, LoginOK, CreateToken, At
<1>6. \A i \in DOMAIN tokens' \ DOMAIN tokens : CodeOK(i)'
  BY <1>1, <1>2, <1>3, <1>5 DEF CodeOK, OwnedOrGone
<1>7. (\A q \in Reqs \ {p} : req'[q] = req[q]) /\ req'[p].pc = "send"
  BY <1>1 DEF CreateToken, Request
<1>8. LoginOK(p)'
  BY <1>7 DEF LoginOK
<1> QED
  BY <1>1, <1>4, <1>6, <1>7, <1>8, LoginStep

LEMMA VerifyLogin ==
    ASSUME TypeOK, LoginInv, NEW p \in Reqs, NEW ph \in Phones, NEW c \in Codes,
           VerifyOtp(p, ph, c)
    PROVE  LoginInv'
<1>1. req \in [Reqs -> Request] /\ UNCHANGED <<user, tokens, sessions>>
  BY DEF TypeOK, ReqsOK, VerifyOtp
<1>2. PICK i \in DOMAIN tokens :
        /\ tokens[i].phone = ph
        /\ req' = [req EXCEPT ![p] = [Idle EXCEPT !.pc = Verdict(tokens[i], c),
                                                  !.phone = ph, !.tok = i]]
  BY DEF VerifyOtp, Newest, Candidates
<1>3. /\ req'[p].pc \in {"burn", "count", "findUser"}
      /\ req'[p].phone = ph /\ req'[p].tok = i
      /\ \A q \in Reqs \ {p} : req'[q] = req[q]
  BY <1>1, <1>2 DEF Idle, Verdict
<1>4. LoginOK(p)'
  BY <1>1, <1>2, <1>3 DEF LoginOK
<1> QED
  BY <1>1, <1>3, <1>4, SameLasting, LoginStep

\* Spending a code or counting a guess leaves it whose it was.
LEMMA TokenWriteLasting ==
    ASSUME TypeOK, UNCHANGED user, NEW i \in DOMAIN tokens,
           \/ tokens' = [tokens EXCEPT ![i].used = TRUE]
           \/ tokens' = [tokens EXCEPT ![i].attempts = @ + 1]
    PROVE  Lasting /\ DOMAIN tokens' = DOMAIN tokens
<1>1. tokens \in Seq(Token) /\ tokens[i] \in Token
  BY DEF TypeOK, RowsOK
<1>2. PICK w : /\ w.user = tokens[i].user /\ w.phone = tokens[i].phone
               /\ tokens' = [tokens EXCEPT ![i] = w]
  <2>1. /\ [tokens[i] EXCEPT !.used = TRUE].user = tokens[i].user
        /\ [tokens[i] EXCEPT !.used = TRUE].phone = tokens[i].phone
        /\ [tokens[i] EXCEPT !.attempts = @ + 1].user = tokens[i].user
        /\ [tokens[i] EXCEPT !.attempts = @ + 1].phone = tokens[i].phone
    BY <1>1 DEF Token
  <2> QED BY <2>1
<1>3. DOMAIN tokens' = DOMAIN tokens
  BY <1>1, <1>2
<1>4. \A j \in DOMAIN tokens : /\ tokens'[j].user = tokens[j].user
                               /\ tokens'[j].phone = tokens[j].phone
  BY <1>1, <1>2
<1> QED
  BY <1>3, <1>4 DEF Lasting, OwnedOrGone

LEMMA TokenStepLogin ==
    ASSUME TypeOK, LoginInv, NEW p \in Reqs, BurnToken(p) \/ CountAttempt(p)
    PROVE  LoginInv'
<1>1. req[p].tok \in DOMAIN tokens /\ UNCHANGED <<user, sessions>>
  BY DEF TypeOK, ReqsOK, ReqOK, BurnToken, CountAttempt, At
<1>2. PICK i \in DOMAIN tokens : i = req[p].tok
  BY <1>1
<1>3. Lasting /\ DOMAIN tokens' = DOMAIN tokens
  BY <1>1, <1>2, TokenWriteLasting DEF BurnToken, CountAttempt
<1> QED
  BY <1>1, <1>3, FinishLogin DEF BurnToken, CountAttempt

LEMMA FindUserLogin ==
    ASSUME TypeOK, LoginInv, NEW p \in Reqs, FindUser(p)
    PROVE  LoginInv'
<1>1. req \in [Reqs -> Request] /\ UNCHANGED <<user, tokens, sessions>>
  BY DEF TypeOK, ReqsOK, FindUser
<1>2. /\ req[p].tok \in DOMAIN tokens
      /\ tokens[req[p].tok].phone = req[p].phone
      /\ OwnedOrGone(tokens[req[p].tok].user, tokens[req[p].tok].phone)
  BY DEF TypeOK, ReqsOK, ReqOK, LoginInv, LoginOK, CodeOK, FindUser, At
<1>3. /\ req'[p].pc = "redeem" /\ req'[p].user = tokens[req[p].tok].user
      /\ req'[p].phone = req[p].phone /\ req'[p].tok = req[p].tok
      /\ \A q \in Reqs \ {p} : req'[q] = req[q]
  BY <1>1 DEF FindUser, Request
<1>4. LoginOK(p)'
  BY <1>1, <1>2, <1>3 DEF LoginOK, OwnedOrGone
<1> QED
  BY <1>1, <1>3, <1>4, SameLasting, LoginStep

LEMMA RedeemLogin ==
    ASSUME TypeOK, LoginInv, NEW p \in Reqs, Redeem(p)
    PROVE  LoginInv'
<1>1. /\ req \in [Reqs -> Request] /\ req[p].tok \in DOMAIN tokens /\ UNCHANGED user
      /\ OwnedOrGone(req[p].user, req[p].phone)
  BY DEF TypeOK, ReqsOK, ReqOK, LoginInv, LoginOK, Redeem, At
<1>2. PICK i \in DOMAIN tokens : i = req[p].tok
  BY <1>1
<1>3. Lasting /\ DOMAIN tokens' = DOMAIN tokens
  BY <1>1, <1>2, TokenWriteLasting DEF Redeem
<1>4. \A s \in sessions' \ sessions : SessionOK(s)'
  BY <1>1 DEF Redeem, SessionOK, OwnedOrGone
<1>5. \A q \in Reqs \ {p} : req'[q] = req[q]
  BY <1>1 DEF Redeem, Finish
<1>6. LoginOK(p)'
  BY <1>1 DEF Redeem, Finish, Idle, LoginOK
<1> QED
  BY <1>3, <1>4, <1>5, <1>6, LoginStep

\* Steps of no request: a deletion, a ban, the clock.
LEMMA OtherLogin ==
    ASSUME TypeOK, LoginInv, Lasting, UNCHANGED <<tokens, sessions, req>>
    PROVE  LoginInv'
BY CodesLast, SessionsLast, RequestLasts DEF LoginInv

LEMMA LoginNext ==
    ASSUME TypeOK, LoginInv, [Next]_vars
    PROVE  LoginInv'
<1>1. CASE \E p \in Reqs : CreateUser(p) \/ CooldownCheck(p) \/ CreateToken(p)
  BY <1>1, CreateUserLogin, CooldownLogin, CreateTokenLogin
<1>2. CASE \E p \in Reqs : BurnToken(p) \/ CountAttempt(p) \/ Redeem(p) \/ FindUser(p)
  BY <1>2, TokenStepLogin, RedeemLogin, FindUserLogin
<1>3. CASE \E p \in Reqs : SendOtp(p) \/ Fail(p)
  <2>1. PICK p \in Reqs : Finish(p) /\ UNCHANGED <<user, tokens, sessions>>
    BY <1>3 DEF SendOtp, Fail
  <2> QED BY <2>1, SameLasting, FinishLogin
<1>4. CASE \E p \in Reqs, ph \in Phones :
             IssueOtp(p, ph) \/ \E c \in Codes : VerifyOtp(p, ph, c)
  BY <1>4, IssueLogin, VerifyLogin
<1>5. CASE \E u \in Ids : DeleteMe(u) \/ \E b \in BOOLEAN : SetBanned(u, b)
  <2>1. Lasting
    BY <1>5, UserWriteLasting DEF DeleteMe, SetBanned
  <2> QED BY <1>5, <2>1, OtherLogin DEF DeleteMe, SetBanned
<1>6. CASE Tick
  BY <1>6, SameLasting, OtherLogin DEF Tick
<1>7. CASE UNCHANGED vars
  BY <1>7, SameLasting, OtherLogin DEF vars
<1> QED
  BY <1>1, <1>2, <1>3, <1>4, <1>5, <1>6, <1>7 DEF Next, Step

\* A session that JwtStrategy.validate accepts belongs to the present owner of
\* the phone it was given to, for any number of users, phones and requests.
THEOREM LoginsAreOwners == Spec => []LoginIsOwner
<1>1. Init => LoginInv
  BY DEF Init, LoginInv, CodeOK, LoginOK, SessionOK, Idle
<1>2. LoginInv => LoginIsOwner
  BY DEF LoginInv, SessionOK, OwnedOrGone, LoginIsOwner, Validates
<1>3. TypeOK /\ LoginInv /\ [Next]_vars => LoginInv'
  BY LoginNext
<1> QED
  BY <1>1, <1>2, <1>3, AccountsTyped, PTL DEF Spec

-----------------------------------------------------------------------------
(* The cooldown.  A request passes it only when every code of the phone is *)
(* old enough, so whoever still has a code to insert while a young one is  *)
(* there passed before that one: the codes of one burst and the requests   *)
(* that may add to it were in flight together.                             *)

Burst(i) == {j \in DOMAIN tokens :
               /\ tokens[j].phone = tokens[i].phone
               /\ tokens[j].born \in tokens[i].born .. tokens[i].born + Cooldown - 1}

Young(i) == now < tokens[i].born + Cooldown

\* Those past the cooldown that may still add to the burst of a code.
Adding(i) == {p \in Reqs : At(p, "createToken") /\ req[p].phone = tokens[i].phone /\ Young(i)}

SpacedInv ==
    \A i \in DOMAIN tokens :
        /\ tokens[i].born <= now
        /\ Cardinality(Burst(i)) + Cardinality(Adding(i)) <= Cardinality(Reqs)

LEMMA BornNat ==
    ASSUME RowsOK
    PROVE  /\ \A i \in DOMAIN tokens : tokens[i].born \in Nat
           /\ now \in Nat /\ Cooldown \in Nat
<1>1. MaxTime \in Nat /\ Cooldown \in Nat
  BY AccountsAssumption
<1>2. \A i \in DOMAIN tokens : tokens[i] \in Token
  BY DEF RowsOK
<1>3. \A t \in Token : t.born \in Nat
  BY <1>1 DEF Token
<1> QED
  BY <1>1, <1>2, <1>3 DEF RowsOK

LEMMA BurstFinite ==
    ASSUME RowsOK
    PROVE  \A S \in SUBSET DOMAIN tokens : IsFiniteSet(S) /\ Cardinality(S) \in Nat
<1>1. DOMAIN tokens = 1 .. Len(tokens) /\ Len(tokens) \in Nat
  BY DEF RowsOK
<1>2. IsFiniteSet(DOMAIN tokens)
  BY <1>1, FS_Interval
<1> QED
  BY <1>2, FS_Subset, FS_CardinalityType

\* Time passes, columns other than these change, and nobody comes to add.
LEMMA NobodyAdds ==
    ASSUME TypeOK, TypeOK', SpacedInv, DOMAIN tokens' = DOMAIN tokens,
           \A i \in DOMAIN tokens : /\ tokens'[i].phone = tokens[i].phone
                                    /\ tokens'[i].born = tokens[i].born,
           now' >= now,
           \A i \in DOMAIN tokens, p \in Reqs : p \in Adding(i)' => p \in Adding(i)
    PROVE  SpacedInv'
<1>1. /\ \A i \in DOMAIN tokens : tokens[i].born \in Nat
      /\ now \in Nat /\ now' \in Nat
  BY BornNat DEF TypeOK, RowsOK
<1>2. \A i \in DOMAIN tokens : Burst(i)' = Burst(i) /\ Burst(i) \subseteq DOMAIN tokens
  BY DEF Burst
<1>3. ASSUME NEW i \in DOMAIN tokens
      PROVE  Cardinality(Burst(i)') + Cardinality(Adding(i)') <= Cardinality(Reqs)
  <2> DEFINE S == Adding(i)
             T == Adding(i)'
             b == Cardinality(Burst(i))
  <2>1. S \in SUBSET Reqs /\ T \in SUBSET S
    BY DEF Adding
  <2>2. IsFiniteSet(S) /\ Cardinality(S) \in Nat /\ Cardinality(T) \in Nat
        /\ Cardinality(Reqs) \in Nat
    BY <2>1, GuessingFinite
  <2>3. Cardinality(T) <= Cardinality(S)
    BY <2>1, <2>2, FS_Subset
  <2>4. b \in Nat /\ Cardinality(Burst(i)') = b
    BY <1>2, BurstFinite DEF TypeOK
  <2>5. b + Cardinality(S) <= Cardinality(Reqs)
    BY DEF SpacedInv
  <2> HIDE DEF S, b
  <2>6. b + Cardinality(T) <= Cardinality(Reqs)
    BY <2>2, <2>3, <2>4, <2>5
  <2> QED BY <2>4, <2>6
<1>4. \A i \in DOMAIN tokens : tokens'[i].born <= now'
  BY <1>1 DEF SpacedInv
<1> QED
  BY <1>3, <1>4 DEF SpacedInv

\* A request moves to where it adds no code.
LEMMA MoveSpaced ==
    ASSUME TypeOK, TypeOK', SpacedInv, NEW p \in Reqs,
           \A q \in Reqs \ {p} : req'[q] = req[q], ~At(p, "createToken")',
           now' = now, DOMAIN tokens' = DOMAIN tokens,
           \A i \in DOMAIN tokens : /\ tokens'[i].phone = tokens[i].phone
                                    /\ tokens'[i].born = tokens[i].born
    PROVE  SpacedInv'
<1>1. \A i \in DOMAIN tokens, q \in Reqs : q \in Adding(i)' => q \in Adding(i)
  BY DEF Adding, At, Young
<1>2. now' >= now
  BY BornNat DEF TypeOK
<1> QED
  BY <1>1, <1>2, NobodyAdds

LEMMA CooldownSpaced ==
    ASSUME TypeOK, TypeOK', SpacedInv, NEW p \in Reqs, CooldownCheck(p)
    PROVE  SpacedInv'
<1>1. /\ req \in [Reqs -> Request] /\ tokens' = tokens /\ now' = now
      /\ \A q \in Reqs \ {p} : req'[q] = req[q]
  BY DEF CooldownCheck, Finish, TypeOK, ReqsOK
<1>2. CASE Finish(p)
  BY <1>1, <1>2, MoveSpaced DEF Finish, Idle, At
<1>3. CASE ~\E i \in DOMAIN tokens : /\ tokens[i].phone = req[p].phone
                                     /\ tokens[i].born > now - Cooldown
  <2>1. \A i \in DOMAIN tokens : tokens[i].phone = req[p].phone => ~Young(i)
    BY <1>3, BornNat DEF Young, TypeOK
  <2>2. req'[p].phone = req[p].phone
    BY <1>1, <1>3 DEF CooldownCheck, Request
  <2>3. \A i \in DOMAIN tokens, q \in Reqs : q \in Adding(i)' => q \in Adding(i)
    BY <1>1, <2>1, <2>2 DEF Adding, At, Young
  <2>4. now' >= now
    BY <1>1, BornNat DEF TypeOK
  <2> QED
    BY <1>1, <2>3, <2>4, NobodyAdds
<1> QED
  BY <1>2, <1>3 DEF CooldownCheck

LEMMA CreateTokenSpaced ==
    ASSUME TypeOK, TypeOK', SpacedInv, NEW p \in Reqs, CreateToken(p)
    PROVE  SpacedInv'
<1>0. PICK n : n = Len(tokens) + 1
  OBVIOUS
<1>1. /\ req \in [Reqs -> Request] /\ tokens \in Seq(Token) /\ RowsOK /\ RowsOK'
      /\ req[p].pc = "createToken"
  BY DEF TypeOK, ReqsOK, RowsOK, CreateToken, At
<1>2. /\ \A i \in DOMAIN tokens : tokens'[i] = tokens[i]
      /\ DOMAIN tokens' = DOMAIN tokens \cup {n} /\ n \notin DOMAIN tokens
      /\ tokens'[n].phone = req[p].phone /\ tokens'[n].born = now
      /\ now' = now
  BY <1>0, <1>1 DEF CreateToken
<1>3. req'[p].pc = "send" /\ \A q \in Reqs \ {p} : req'[q] = req[q]
  BY <1>1 DEF CreateToken, Request
<1>4. /\ \A i \in DOMAIN tokens : tokens[i].born \in Nat /\ tokens[i].born <= now
      /\ now \in Nat /\ Cooldown \in Nat
  BY <1>1, BornNat DEF SpacedInv
<1>5. Cardinality(Reqs) \in Nat
  BY GuessingFinite
<1>6. ASSUME NEW i \in DOMAIN tokens
      PROVE  Cardinality(Burst(i)') + Cardinality(Adding(i)') <= Cardinality(Reqs)
  <2> DEFINE S == Burst(i)
             A == Adding(i)
  <2>1. /\ IsFiniteSet(S) /\ Cardinality(S) \in Nat /\ n \notin S
        /\ IsFiniteSet(A) /\ Cardinality(A) \in Nat
        /\ Cardinality(S) + Cardinality(A) <= Cardinality(Reqs)
    <3>1. S \subseteq DOMAIN tokens /\ A \subseteq Reqs
      BY DEF Burst, Adding
    <3> QED BY <1>1, <1>2, <3>1, BurstFinite, GuessingFinite DEF SpacedInv
  <2>2. CASE p \in A
    <3>1. Adding(i)' = A \ {p}
      <4>1. \A q \in Reqs : q \in Adding(i)' <=> (q \in A /\ q # p)
        BY <1>2, <1>3 DEF Adding, At, Young
      <4> QED BY <4>1 DEF Adding
    <3>2. Burst(i)' = S \cup {n}
      <4>1. /\ tokens[i].phone = req[p].phone
            /\ now \in tokens[i].born .. tokens[i].born + Cooldown - 1
        BY <1>4, <2>2 DEF Adding, Young
      <4>2. \A j \in DOMAIN tokens : j \in Burst(i)' <=> j \in S
        BY <1>2 DEF Burst
      <4>3. n \in Burst(i)'
        BY <1>2, <4>1 DEF Burst
      <4>4. Burst(i)' \subseteq DOMAIN tokens \cup {n} /\ S \subseteq DOMAIN tokens
        BY <1>2 DEF Burst
      <4> HIDE DEF S
      <4> QED BY <4>2, <4>3, <4>4
    <3>3. Cardinality(A \ {p}) = Cardinality(A) - 1
      BY <2>1, <2>2, FS_RemoveElement
    <3>4. Cardinality(S \cup {n}) = Cardinality(S) + 1
      BY <2>1, FS_AddElement
    <3> HIDE DEF S, A
    <3> QED BY <1>5, <2>1, <3>1, <3>2, <3>3, <3>4
  <2>3. CASE p \notin A
    <3>1. Adding(i)' = A
      <4>1. \A q \in Reqs : q \in Adding(i)' <=> q \in A
        BY <1>2, <1>3, <2>3 DEF Adding, At, Young
      <4> QED BY <4>1 DEF Adding
    <3>2. Burst(i)' = S
      <4>1. ~(/\ tokens[i].phone = req[p].phone
              /\ now \in tokens[i].born .. tokens[i].born + Cooldown - 1)
        BY <1>1, <1>4, <2>3 DEF Adding, Young, At
      <4>2. \A j \in DOMAIN tokens : j \in Burst(i)' <=> j \in S
        BY <1>2 DEF Burst
      <4>3. n \notin Burst(i)'
        BY <1>2, <4>1 DEF Burst
      <4>4. Burst(i)' \subseteq DOMAIN tokens \cup {n} /\ S \subseteq DOMAIN tokens
        BY <1>2 DEF Burst
      <4> HIDE DEF S
      <4> QED BY <4>2, <4>3, <4>4
    <3> QED BY <2>1, <3>1, <3>2
  <2> QED BY <2>2, <2>3
<1>7. Cardinality(Burst(n)') + Cardinality(Adding(n)') <= Cardinality(Reqs)
  <2>1. CASE \E i \in DOMAIN tokens : tokens[i].phone = req[p].phone /\ tokens[i].born = now
    <3>1. PICK i \in DOMAIN tokens : tokens[i].phone = req[p].phone /\ tokens[i].born = now
      BY <2>1
    <3>2. Burst(n)' = Burst(i)' /\ Adding(n)' = Adding(i)'
      BY <1>2, <3>1 DEF Burst, Adding, Young
    <3> QED BY <1>6, <3>2
  <2>2. CASE ~\E i \in DOMAIN tokens : tokens[i].phone = req[p].phone /\ tokens[i].born = now
    <3>1. Burst(n)' \subseteq {n}
      BY <1>2, <1>4, <2>2 DEF Burst
    <3>2. Adding(n)' \subseteq Reqs \ {p}
      BY <1>3 DEF Adding, At
    <3>3. Cardinality(Burst(n)') <= 1 /\ Cardinality(Burst(n)') \in Nat
      <4>1. IsFiniteSet({n}) /\ Cardinality({n}) = 1
        BY FS_Singleton
      <4> QED BY <3>1, <4>1, FS_Subset, FS_CardinalityType
    <3>4. IsFiniteSet(Reqs) /\ Cardinality(Reqs \ {p}) = Cardinality(Reqs) - 1
      BY AccountsAssumption, FS_RemoveElement
    <3>5. IsFiniteSet(Reqs \ {p}) /\ Cardinality(Adding(n)') <= Cardinality(Reqs \ {p})
          /\ Cardinality(Adding(n)') \in Nat
      BY <3>2, <3>4, FS_Subset, FS_CardinalityType, GuessingFinite
    <3> QED BY <1>5, <3>3, <3>4, <3>5
  <2> QED BY <2>1, <2>2
<1> QED
  BY <1>2, <1>4, <1>6, <1>7 DEF SpacedInv

LEMMA SpacedStep ==
    ASSUME TypeOK, TypeOK', SpacedInv, [Next]_vars
    PROVE  SpacedInv'
<1>1. req \in [Reqs -> Request] /\ tokens \in Seq(Token) /\ now \in Nat
  BY BornNat DEF TypeOK, ReqsOK, RowsOK
<1>2. CASE \E p \in Reqs : CooldownCheck(p) \/ CreateToken(p)
  BY <1>2, CooldownSpaced, CreateTokenSpaced
<1>3. ASSUME NEW p \in Reqs, NEW ph \in Phones,
             IssueOtp(p, ph) \/ \E c \in Codes : VerifyOtp(p, ph, c)
      PROVE  SpacedInv'
  <2>1. CASE IssueOtp(p, ph)
    <3>1. /\ \A q \in Reqs \ {p} : req'[q] = req[q]
          /\ req'[p].pc \in {"createUser", "cooldown"}
      BY <1>1, <2>1 DEF IssueOtp, Idle
    <3> QED
      BY <2>1, <3>1, MoveSpaced DEF IssueOtp, At
  <2>2. ASSUME NEW c \in Codes, VerifyOtp(p, ph, c) PROVE SpacedInv'
    <3>1. PICK i \in DOMAIN tokens :
            req' = [req EXCEPT ![p] = [Idle EXCEPT !.pc = Verdict(tokens[i], c),
                                                   !.phone = ph, !.tok = i]]
      BY <2>2 DEF VerifyOtp
    <3>2. Verdict(tokens[i], c) \in {"burn", "count", "findUser"}
      BY DEF Verdict
    <3>3. /\ \A q \in Reqs \ {p} : req'[q] = req[q]
          /\ req'[p].pc # "createToken"
      BY <1>1, <3>1, <3>2 DEF Idle
    <3> QED
      BY <2>2, <3>3, MoveSpaced DEF VerifyOtp, At
  <2> QED
    BY <1>3, <2>1, <2>2
<1>4. ASSUME NEW p \in Reqs, CreateUser(p) \/ SendOtp(p) \/ Fail(p) \/ FindUser(p)
      PROVE  SpacedInv'
  <2>1. /\ \A q \in Reqs \ {p} : req'[q] = req[q]
        /\ req'[p].pc # "createToken"
    BY <1>1, <1>4 DEF CreateUser, SendOtp, Fail, FindUser, Finish, Idle, Request
  <2> QED
    BY <1>4, <2>1, MoveSpaced DEF CreateUser, SendOtp, Fail, FindUser, At
<1>5. ASSUME NEW p \in Reqs, BurnToken(p) \/ CountAttempt(p) \/ Redeem(p) PROVE SpacedInv'
  <2>1. PICK k : k = req[p].tok
    OBVIOUS
  <2>2. k \in DOMAIN tokens
    BY <1>5, <2>1 DEF BurnToken, CountAttempt, Redeem, At, TypeOK, ReqsOK, ReqOK
  <2>3. \/ tokens' = [tokens EXCEPT ![k] = [tokens[k] EXCEPT !.used = TRUE]]
        \/ tokens' = [tokens EXCEPT ![k] = [tokens[k] EXCEPT !.attempts = tokens[k].attempts + 1]]
    BY <1>1, <1>5, <2>1, <2>2 DEF BurnToken, CountAttempt, Redeem
  <2>4. tokens[k] \in Token
    BY <1>1, <2>2
  <2>5. /\ DOMAIN tokens' = DOMAIN tokens
        /\ \A i \in DOMAIN tokens : /\ tokens'[i].phone = tokens[i].phone
                                    /\ tokens'[i].born = tokens[i].born
    <3>1. CASE tokens' = [tokens EXCEPT ![k] = [tokens[k] EXCEPT !.used = TRUE]]
      BY <1>1, <2>2, <2>4, <3>1 DEF Token
    <3>2. CASE tokens' = [tokens EXCEPT ![k] =
                            [tokens[k] EXCEPT !.attempts = tokens[k].attempts + 1]]
      BY <1>1, <2>2, <2>4, <3>2 DEF Token
    <3> QED BY <2>3, <3>1, <3>2
  <2>6. /\ \A q \in Reqs \ {p} : req'[q] = req[q]
        /\ ~At(p, "createToken")' /\ now' = now
    BY <1>1, <1>5 DEF BurnToken, CountAttempt, Redeem, Finish, Idle, At
  <2> QED
    BY <2>5, <2>6, MoveSpaced
<1>6. CASE UNCHANGED <<tokens, req>> /\ now' \in {now, now + 1}
  <2>1. now' >= now
    BY <1>1, <1>6
  <2>2. \A i \in DOMAIN tokens, q \in Reqs : q \in Adding(i)' => q \in Adding(i)
    BY <1>1, <1>6, BornNat DEF Adding, At, Young, TypeOK
  <2> QED
    BY <1>6, <2>1, <2>2, NobodyAdds
<1>7. CASE \/ \E u \in Ids : DeleteMe(u) \/ \E b \in BOOLEAN : SetBanned(u, b)
           \/ Tick
           \/ UNCHANGED vars
  BY <1>6, <1>7 DEF DeleteMe, SetBanned, Tick, vars
<1> QED
  BY <1>2, <1>3, <1>4, <1>5, <1>7 DEF Next, Step

\* The cooldown is checked before the insert, yet a phone gets no more codes
\* within one cooldown than requests are served at once (issueOtp).
THEOREM CodesStaySpaced == Spec => []CodesSpaced
<1>1. Init => SpacedInv
  BY DEF Init, SpacedInv
<1>2. TypeOK /\ TypeOK' /\ SpacedInv /\ [Next]_vars => SpacedInv'
  BY SpacedStep
<1>3. TypeOK /\ SpacedInv => CodesSpaced
  <2> SUFFICES ASSUME TypeOK, SpacedInv, NEW i \in DOMAIN tokens
               PROVE  Cardinality(Burst(i)) <= Cardinality(Reqs)
    BY DEF CodesSpaced, Burst
  <2>1. Burst(i) \subseteq DOMAIN tokens /\ Adding(i) \subseteq Reqs
    BY DEF Burst, Adding
  <2>2. Cardinality(Burst(i)) \in Nat /\ Cardinality(Adding(i)) \in Nat
        /\ Cardinality(Reqs) \in Nat
    BY <2>1, BurstFinite, GuessingFinite DEF TypeOK
  <2>3. Cardinality(Burst(i)) + Cardinality(Adding(i)) <= Cardinality(Reqs)
    BY DEF SpacedInv
  <2> QED BY <2>2, <2>3
<1> QED
  BY <1>1, <1>2, <1>3, AccountsTyped, PTL DEF Spec
=============================================================================
