------------------------------ MODULE Accounts ------------------------------
(***************************************************************************)
(* Accounts and one-time codes: AuthService, the JWT strategy, bans and    *)
(* account deletion.  It shares no row with the money core: a task refers  *)
(* to a user by an id that never goes away.                                *)
(*                                                                         *)
(* issueOtp and verifyOtp are chains of awaited statements without a       *)
(* transaction or a conditional update, so concurrent requests for one     *)
(* phone work on what they read before.  Time is a clock of few ticks.     *)
(***************************************************************************)
EXTENDS Integers, Sequences, FiniteSets

CONSTANTS
    Phones, Ids,          \* phone numbers and user ids
    NoPhone, NoId,
    Codes,                \* the codes generateOtp chooses from
    Reqs,                 \* slots for requests being served concurrently
    MAX_VERIFY_ATTEMPTS,
    Cooldown, Expiry,     \* OTP_RESEND_COOLDOWN_SECONDS, OTP_EXPIRY_MINUTES
    MaxTime, MaxTokens    \* bounds: ticks of the clock, codes issued

ASSUME AccountsAssumption ==
    /\ NoPhone \notin Phones
    /\ NoId \notin Ids
    /\ IsFiniteSet(Reqs) /\ Reqs # {}
    /\ MAX_VERIFY_ATTEMPTS \in Nat \ {0}
    /\ {Cooldown, Expiry, MaxTime, MaxTokens} \subseteq Nat

VARIABLES
    user,      \* User rows; the phone of a deleted user is free again
    tokens,    \* OtpToken rows in the order of createdAt
    sessions,  \* the access tokens given out, with the phone they were given to
    now,       \* the clock
    req        \* the requests in flight

vars == <<user, tokens, sessions, now, req>>

-----------------------------------------------------------------------------
UserRow == [phone : Phones \cup {NoPhone}, banned : BOOLEAN, deleted : BOOLEAN]
Token == [user : Ids, phone : Phones, code : Codes, born : 0 .. MaxTime,
          expires : Nat, used : BOOLEAN, attempts : Nat]
Session == [user : Ids, phone : Phones]

Request == [pc : {"idle", "createUser", "cooldown", "createToken", "send",
                  "burn", "count", "findUser", "redeem"},
            phone : Phones \cup {NoPhone}, user : Ids \cup {NoId},
            tok : Nat, expires : Nat, banned : BOOLEAN]

Idle == [pc |-> "idle", phone |-> NoPhone, user |-> NoId, tok |-> 0,
         expires |-> 0, banned |-> FALSE]

At(p, l) == req[p].pc = l
Finish(p) == req' = [req EXCEPT ![p] = Idle]

\* An id is taken for good: deleteMe keeps the row.
Exists(u) == user[u].phone # NoPhone \/ user[u].deleted
Owners(ph) == {u \in Ids : user[u].phone = ph}

\* The strategy without the check of deletedAt and isActive (mutant).
ValidatesDeleted(u) == Exists(u) /\ ~user[u].banned

\* What JwtStrategy.validate accepts; isActive is cleared by deleteMe alone.
Validates(u) == Exists(u) /\ ~user[u].banned /\ ~user[u].deleted

-----------------------------------------------------------------------------
(* issueOtp *)

\* findUnique by phone; a banned account is refused.
IssueOtp(p, ph) ==
    /\ At(p, "idle")
    /\ Len(tokens) < MaxTokens
    /\ \/ /\ Owners(ph) = {}
          /\ req' = [req EXCEPT ![p] = [Idle EXCEPT !.pc = "createUser", !.phone = ph]]
       \/ \E u \in Owners(ph) :
            /\ ~user[u].banned
            /\ req' = [req EXCEPT ![p] =
                         [Idle EXCEPT !.pc = "cooldown", !.phone = ph, !.user = u]]
    /\ UNCHANGED <<user, tokens, sessions, now>>

\* The unique index on phone rejects the second of two concurrent sign-ups.
CreateUser(p) ==
    /\ At(p, "createUser")
    /\ LET ph == req[p].phone IN
         \/ /\ Owners(ph) # {}
            /\ Finish(p)
            /\ UNCHANGED user
         \/ \E u \in Ids :
              /\ Owners(ph) = {}
              /\ ~Exists(u)
              /\ user' = [user EXCEPT ![u].phone = ph]
              /\ req' = [req EXCEPT ![p].pc = "cooldown", ![p].user = u]
    /\ UNCHANGED <<tokens, sessions, now>>

\* The cooldown that looks at unused codes only (mutant).
CooldownCheckUnused(p) ==
    /\ At(p, "cooldown")
    /\ LET recent == \E i \in DOMAIN tokens :
                       /\ tokens[i].phone = req[p].phone
                       /\ ~tokens[i].used
                       /\ tokens[i].born > now - Cooldown
       IN IF recent THEN Finish(p)
          ELSE req' = [req EXCEPT ![p].pc = "createToken", ![p].expires = now + Expiry]
    /\ UNCHANGED <<user, tokens, sessions, now>>

\* A code that is younger than the cooldown refuses a new one, used or not.
CooldownCheck(p) ==
    /\ At(p, "cooldown")
    /\ LET recent == \E i \in DOMAIN tokens :
                       /\ tokens[i].phone = req[p].phone
                       /\ tokens[i].born > now - Cooldown
       IN IF recent THEN Finish(p)
          ELSE req' = [req EXCEPT ![p].pc = "createToken", ![p].expires = now + Expiry]
    /\ UNCHANGED <<user, tokens, sessions, now>>

\* The token row without its userId (mutant).
CreateTokenOfNobody(p) ==
    /\ At(p, "createToken")
    /\ \E c \in Codes :
         tokens' = Append(tokens, [user |-> NoId, phone |-> req[p].phone,
                                   code |-> c, born |-> now, expires |-> req[p].expires,
                                   used |-> FALSE, attempts |-> 0])
    /\ req' = [req EXCEPT ![p].pc = "send"]
    /\ UNCHANGED <<user, sessions, now>>

CreateToken(p) ==
    /\ At(p, "createToken")
    /\ \E c \in Codes :
         tokens' = Append(tokens, [user |-> req[p].user, phone |-> req[p].phone,
                                   code |-> c, born |-> now, expires |-> req[p].expires,
                                   used |-> FALSE, attempts |-> 0])
    /\ req' = [req EXCEPT ![p].pc = "send"]
    /\ UNCHANGED <<user, sessions, now>>

\* sms.sendOtp delivers or throws; the row stays either way.
SendOtp(p) ==
    /\ At(p, "send")
    /\ Finish(p)
    /\ UNCHANGED <<user, tokens, sessions, now>>

-----------------------------------------------------------------------------
(* verifyOtp *)

\* The newest unused, unexpired token of the phone is the one that counts.
Candidates(ph) == {i \in DOMAIN tokens : /\ tokens[i].phone = ph
                                         /\ ~tokens[i].used
                                         /\ tokens[i].expires > now}
Newest(ph, i) == i \in Candidates(ph) /\ \A j \in Candidates(ph) : j <= i

\* The limit checked with > (mutant).
VerdictOffByOne(token, code) ==
    IF token.attempts > MAX_VERIFY_ATTEMPTS THEN "burn"
    ELSE IF token.code # code THEN "count" ELSE "findUser"

Verdict(token, code) ==
    IF token.attempts >= MAX_VERIFY_ATTEMPTS THEN "burn"
    ELSE IF token.code # code THEN "count" ELSE "findUser"

VerifyOtp(p, ph, code) ==
    /\ At(p, "idle")
    /\ \E i \in DOMAIN tokens :
         /\ Newest(ph, i)
         /\ req' = [req EXCEPT ![p] = [Idle EXCEPT !.pc = Verdict(tokens[i], code),
                                                   !.phone = ph, !.tok = i]]
    /\ UNCHANGED <<user, tokens, sessions, now>>

BurnToken(p) ==
    /\ At(p, "burn")
    /\ tokens' = [tokens EXCEPT ![req[p].tok].used = TRUE]
    /\ Finish(p)
    /\ UNCHANGED <<user, sessions, now>>

CountAttempt(p) ==
    /\ At(p, "count")
    /\ tokens' = [tokens EXCEPT ![req[p].tok].attempts = @ + 1]
    /\ Finish(p)
    /\ UNCHANGED <<user, sessions, now>>

\* The user is found by the id in the token, not by the phone.
FindUser(p) ==
    /\ At(p, "findUser")
    /\ LET u == tokens[req[p].tok].user IN
         req' = [req EXCEPT ![p].pc = "redeem", ![p].user = u,
                            ![p].banned = user[u].banned]
    /\ UNCHANGED <<user, tokens, sessions, now>>

\* The code is spent, also for a banned account, and the session signed.
Redeem(p) ==
    /\ At(p, "redeem")
    /\ tokens' = [tokens EXCEPT ![req[p].tok].used = TRUE]
    /\ sessions' = IF req[p].banned THEN sessions
                   ELSE sessions \cup {[user |-> req[p].user, phone |-> req[p].phone]}
    /\ Finish(p)
    /\ UNCHANGED <<user, now>>

-----------------------------------------------------------------------------
(* Single statements.  Each writes constants by id after a read that no    *)
(* step can invalidate (rows stay), so read and write are one step.        *)

\* deleteMe, from a session that the strategy accepts; the phone is renamed.
DeleteMe(u) ==
    /\ \E s \in sessions : s.user = u
    /\ Validates(u)
    /\ user' = [user EXCEPT ![u].phone = NoPhone, ![u].deleted = TRUE]
    /\ UNCHANGED <<tokens, sessions, now, req>>

\* banUser and unbanUser.
SetBanned(u, b) ==
    /\ Exists(u)
    /\ user' = [user EXCEPT ![u].banned = b]
    /\ UNCHANGED <<tokens, sessions, now, req>>

\* A statement is rejected, the SMS gateway throws or the process dies.
Fail(p) ==
    /\ ~At(p, "idle")
    /\ Finish(p)
    /\ UNCHANGED <<user, tokens, sessions, now>>

Tick ==
    /\ now < MaxTime
    /\ now' = now + 1
    /\ UNCHANGED <<user, tokens, sessions, req>>

-----------------------------------------------------------------------------
Init ==
    /\ user = [u \in Ids |-> [phone |-> NoPhone, banned |-> FALSE, deleted |-> FALSE]]
    /\ tokens = <<>>
    /\ sessions = {}
    /\ now = 0
    /\ req = [p \in Reqs |-> Idle]

Step(p) ==
    \/ CreateUser(p) \/ CooldownCheck(p) \/ CreateToken(p) \/ SendOtp(p)
    \/ BurnToken(p) \/ CountAttempt(p) \/ FindUser(p) \/ Redeem(p)
    \/ Fail(p)

Next ==
    \/ \E p \in Reqs, ph \in Phones :
         IssueOtp(p, ph) \/ \E c \in Codes : VerifyOtp(p, ph, c)
    \/ \E p \in Reqs : Step(p)
    \/ \E u \in Ids : DeleteMe(u) \/ \E b \in BOOLEAN : SetBanned(u, b)
    \/ Tick

Spec == Init /\ [][Next]_vars

-----------------------------------------------------------------------------
RowsOK ==
    /\ user \in [Ids -> UserRow]
    /\ tokens \in Seq(Token)
    /\ sessions \subseteq Session
    /\ now \in 0 .. MaxTime

\* A request that works for a phone, an issued token or a user has one.
ReqOK(r, issued) ==
    /\ r \in Request
    /\ r.pc # "idle" => r.phone \in Phones
    /\ r.pc \in {"burn", "count", "findUser", "redeem"} => r.tok \in issued
    /\ r.pc \in {"cooldown", "createToken", "redeem"} => r.user \in Ids

ReqsOK == req \in [Reqs -> Request] /\ \A p \in Reqs : ReqOK(req[p], DOMAIN tokens)

\* Every row and every request in flight has its type.
TypeOK == RowsOK /\ ReqsOK

\* The attempt counter is checked on a snapshot and incremented later
\* (verifyOtp), yet it passes its limit by no more than the requests that
\* can race: one less than are served at once.
GuessesBounded ==
    \A i \in DOMAIN tokens :
        tokens[i].attempts < MAX_VERIFY_ATTEMPTS + Cardinality(Reqs)

\* The cooldown is checked before the insert (issueOtp), yet within one
\* cooldown a phone gets no more codes than requests can race.
CodesSpaced ==
    \A i \in DOMAIN tokens :
        LET b == tokens[i].born
            burst == {j \in DOMAIN tokens : /\ tokens[j].phone = tokens[i].phone
                                            /\ tokens[j].born \in b .. b + Cooldown - 1}
        IN Cardinality(burst) <= Cardinality(Reqs)

\* A session that the strategy still accepts belongs to the present owner of
\* the phone it was given to, although tokens outlive accounts (deleteMe),
\* numbers get new owners and the code is matched by phone (verifyOtp).
LoginIsOwner ==
    \A s \in sessions : Validates(s.user) => user[s.user].phone = s.phone
=============================================================================
