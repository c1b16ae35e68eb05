----------------------------- MODULE Deployment -----------------------------
(***************************************************************************)
(* A process with its environment: whether it starts, and what becomes     *)
(* then of the codes it sends, the money it charges and returns, and the   *)
(* documents it is given.                                                  *)
(***************************************************************************)
EXTENDS Checkout, Documents, FiniteSets

VARIABLE
    delivered   \* the outcomes of sending codes and pushes

vars == <<env, phase, order, file, delivered>>

Outcome == {"otp logged", "otp sent", "otp failed", "push logged", "push dropped"}

\* sendOtp: the console logs the code, a gateway without its settings throws.
SendOtp ==
    /\ phase = "running"
    /\ delivered' = delivered \cup
         {IF SmsProvider = "console" THEN "otp logged"
          ELSE IF env.SMS_GATEWAY = "unset" THEN "otp failed" ELSE "otp sent"}

\* sendToToken: the FCM provider never obtains an access token yet.
SendPush ==
    /\ phase = "running"
    /\ delivered' = delivered \cup
         {IF PushProvider = "console" THEN "push logged" ELSE "push dropped"}

Init == ConfigurationInit /\ CheckoutInit /\ DocumentsInit /\ delivered = {}

Next ==
    \/ Boot /\ UNCHANGED <<order, file, delivered>>
    \/ CheckoutStep /\ UNCHANGED <<env, phase, file, delivered>>
    \/ DocumentsStep /\ UNCHANGED <<env, phase, order, delivered>>
    \/ (SendOtp \/ SendPush) /\ UNCHANGED <<env, phase, order, file>>

Spec == Init /\ [][Next]_vars

-----------------------------------------------------------------------------
\* The environment, the order, the file and the outcomes have their types.
TypeOK ==
    /\ env \in EnvType
    /\ phase \in {"starting", "running", "refused"}
    /\ order \in Order
    /\ file \in File
    /\ delivered \subseteq Outcome

Production == env.NODE_ENV = "production"

\* In production a code goes to the log only under a provider name that the
\* factory does not know as it is spelled: validation and factory agree on the
\* console in every spelling (env.validation.ts, smsProviderFactory).
CodesStayOutOfLogs ==
    Production /\ "otp logged" \in delivered
        => env.SMS_PROVIDER \in {"unknown", "dialog PADDED"}

\* Unless the sandbox is allowed there, a production process takes real money
\* only, however the mode is spelled, and hears of it over https unless
\* PAYHERE_NOTIFY_URL says otherwise (env.validation.ts, initiatePayment).
ProductionChargesLive ==
    Production /\ order.host # "none" =>
        /\ order.host = "live" \/ env.PAYHERE_ALLOW_SANDBOX_IN_PROD = "true"
        /\ order.notify = "https" \/ order.notify = env.PAYHERE_NOTIFY_URL

\* Where the mode is spelled as both sides compare it, a charge can be returned:
\* its refund is asked for at the host that took it, and in production it does
\* not wait for credentials (initiatePayment, PayHereClient, env.validation.ts).
RefundsReachCharges ==
    env.PAYHERE_MODE \in {"unset", "live", "sandbox"} /\ order.status \in {"refunding", "refunded"}
        => /\ order.asked \in {"none", order.host}
           /\ Production => ~order.queued

\* Rounded one by one, the amounts still add up: what the doer gets and what he
\* is charged make the budget, but for a cent where both are halves; the payout
\* and the trust fund's share never exceed what the poster paid; and a refund is
\* what he paid (create, initiatePayment, initiateForEscrow, releaseEscrow).
BooksBalance ==
    order.mode = "ESCROW" /\ order.status # "none" =>
        /\ order.fees.net + order.fees.doer \in
             IF order.budget % 20 = 10
             THEN {order.budget - 1, order.budget, order.budget + 1} ELSE {order.budget}
        /\ order.payout # 0 => order.payout + order.fees.trust <= order.charge
        /\ order.refund \in {0, order.charge}

\* What a profile refers to is its owner's own file, lies in the private bucket
\* without a public URL and is read from there; and what was presigned for the
\* KYC is taken by one field of the submission: the five tables agree (presign,
\* SubmitKycDto, submitKyc, presignRead).
DocumentsReachReview ==
    file.status # "none" =>
        /\ file.profiles # {} => /\ file.profiles = {file.owner}
                                 /\ file.bucket = "private" /\ ~file.public
        /\ file.readFrom \in {"nowhere", file.bucket}
        /\ file.bucket = "private" =>
             /\ Prefix \in AnyKycKey
             /\ Cardinality({field \in DOMAIN FieldSubtype : FieldSubtype[field] = Prefix}) = 1
=============================================================================
