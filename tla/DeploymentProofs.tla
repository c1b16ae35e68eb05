-------------------------- MODULE DeploymentProofs --------------------------
(***************************************************************************)
(* For every set of environments and budgets, and however the floats       *)
(* decide the ties: the amounts of a task add up, and what the services    *)
(* read from the environment agrees with what validation let through.      *)
(***************************************************************************)
EXTENDS Deployment, FiniteSetTheorems, TLAPS

\* The rounding errs by half a cent at most.
LEMMA RoundedIsNear ==
    ASSUME NEW n \in Nat, NEW c \in Rounded(n)
    PROVE  c \in Nat /\ 100 * c - n <= 50 /\ n - 100 * c <= 50
BY DEF Rounded

\* The doer's net and the doer's fee, rounded apart, differ from the budget by a
\* cent at most, and only where both were halves of a cent.
LEMMA SplitIsNear ==
    ASSUME NEW b \in Nat, NEW n \in Rounded(85 * b), NEW d \in Rounded(15 * b)
    PROVE  n + d \in IF b % 20 = 10 THEN {b - 1, b, b + 1} ELSE {b}
<1>1. n \in Nat /\ 100 * n - 85 * b <= 50 /\ 85 * b - 100 * n <= 50
  BY RoundedIsNear
<1>2. d \in Nat /\ 100 * d - 15 * b <= 50 /\ 15 * b - 100 * d <= 50
  BY RoundedIsNear
<1>3. n + d \in {b - 1, b, b + 1}
  BY <1>1, <1>2
<1>4. CASE n + d = b
  BY <1>4
<1>5. CASE n + d = b + 1
  <2>1. 100 * n = 85 * b + 50
    BY <1>1, <1>2, <1>5
  <2>2. b % 20 = 10
    BY <1>1, <2>1
  <2> QED
    BY <1>5, <2>2
<1>6. CASE n + d = b - 1
  <2>1. 100 * n = 85 * b - 50
    BY <1>1, <1>2, <1>6
  <2>2. b % 20 = 10
    BY <1>1, <2>1
  <2> QED
    BY <1>6, <2>2
<1> QED
  BY <1>3, <1>4, <1>5, <1>6

\* The payout and the trust fund's share stay within the charge.
LEMMA ShareIsCovered ==
    ASSUME NEW b \in Nat, NEW n \in Rounded(85 * b), NEW p \in Rounded(5 * b), n # 0
    PROVE  n + p <= b + p
<1>1. n \in Nat /\ 100 * n - 85 * b <= 50
  BY RoundedIsNear
<1>2. p \in Nat
  BY RoundedIsNear
<1>3. n <= b
  BY <1>1
<1> QED
  BY <1>1, <1>2, <1>3

-----------------------------------------------------------------------------
Handed == {"handed", "charged", "applied", "released", "refunding", "refunded"}

\* What is on record of an escrow task's amounts, and since when.
Amounts ==
    /\ order.budget \in Nat
    /\ order.fees \in Fees(order.budget)
    /\ order.status \in Handed => order.charge = order.budget + order.fees.poster
    /\ order.payout # 0 => order.payout = order.fees.net /\ order.status = "released"
    /\ order.refund # 0 => /\ order.refund = order.budget + order.fees.poster
                           /\ order.status \in {"refunding", "refunded"}

IInv ==
    /\ env \in EnvType
    /\ order \in Order
    /\ order.status = "none" => order = NoOrder
    /\ order.mode = "ESCROW" /\ order.status # "none" => Amounts

LEMMA InitEstablishes == Init => IInv
BY ConfigurationAssumption
DEF Init, ConfigurationInit, CheckoutInit, IInv, NoOrder, NoFees, Order, OrderStatus, Host,
    BaseUrl

LEMMA FeesAreAmounts ==
    ASSUME NEW b \in Nat, NEW f \in Fees(b)
    PROVE  f \in [poster : Nat, doer : Nat, trust : Nat, net : Nat]
BY RoundedIsNear DEF Fees

\* Creation fixes the fees; every later step of the checkout keeps them.
LEMMA CheckoutKeeps ==
    ASSUME IInv, CheckoutStep, UNCHANGED env
    PROVE  IInv'
<1>1. ASSUME NEW mode \in {"ESCROW", "CASH"}, NEW b \in Budgets, Create(mode, b)
      PROVE  IInv'
  <2>1. order = NoOrder /\ b \in Nat
    BY <1>1, CheckoutAssumption DEF Create, OrderIs, IInv
  <2>2. PICK f \in (IF mode = "ESCROW" THEN Fees(b) ELSE {NoFees}) :
          order' = [order EXCEPT !.status = "created", !.mode = mode,
                                 !.budget = b, !.fees = f]
    BY <1>1 DEF Create
  <2>3. f \in [poster : Nat, doer : Nat, trust : Nat, net : Nat]
    BY <2>1, <2>2, FeesAreAmounts DEF NoFees
  <2>4. order' \in Order
    BY <2>1, <2>2, <2>3 DEF NoOrder, Order, OrderStatus, Host, BaseUrl, OnOff
  <2> QED
    BY <1>1, <2>1, <2>2, <2>4 DEF Create, IInv, Amounts, NoOrder, Handed
<1>2. CASE OrderWrite \/ PosterPays \/ Webhook
  <2>1. PICK s \in OrderStatus : order' = [order EXCEPT !.status = s]
    BY <1>2 DEF OrderWrite, PosterPays, Webhook, OrderStatus
  <2>2. order' \in Order
    BY <2>1 DEF IInv, Order
  <2> QED
    BY <1>2, <2>2 DEF OrderWrite, PosterPays, Webhook, OrderIs, IInv, Amounts, Order, Handed
<1>3. CASE HandOut
  <2>1. CheckoutHost \in Host
    BY DEF CheckoutHost, Host
  <2>2. NotifyUrl \in BaseUrl
    BY DEF NotifyUrl, OrDefault, IInv, EnvType
  <2>3. Charge \in Nat
    BY DEF Charge, POSTING_FEE_LKR, IInv, Order
  <2>4. order' \in Order
    BY <1>3, <2>1, <2>2, <2>3 DEF HandOut, IInv, Order, OrderStatus
  <2> QED
    BY <1>3, <2>4 DEF HandOut, Charge, OrderIs, IInv, Amounts, Order, Handed
<1>4. CASE Release
  <2>1. order' \in Order
    BY <1>4 DEF Release, IInv, Order, OrderStatus
  <2> QED
    BY <1>4, <2>1 DEF Release, OrderIs, IInv, Amounts, Order, Handed
<1>5. CASE InitiateRefund
  <2>1. order' \in Order
    <3>1. PICK r : /\ r = order.budget + order.fees.poster
                   /\ order' = [order EXCEPT !.status = "refunding", !.refund = r]
      BY <1>5 DEF InitiateRefund
    <3>2. r \in Nat
      BY <3>1 DEF IInv, Order
    <3> QED
      BY <3>1, <3>2 DEF IInv, Order, OrderStatus
  <2>2. order.mode = "ESCROW" /\ order.status = "applied" /\ Amounts
    BY <1>5 DEF InitiateRefund, OrderIs, IInv
  <2>3. Amounts'
    BY <1>5, <2>1, <2>2 DEF InitiateRefund, Amounts, IInv, Order, Handed
  <2> QED
    BY <2>1, <2>3, <1>5, <2>2 DEF InitiateRefund, IInv, Order
<1>6. CASE Execute
  <2>1. RefundHost \in Host
    BY DEF RefundHost, Host
  <2>2. CASE order' = [order EXCEPT !.queued = TRUE]
    <3>1. order' \in Order
      BY <2>2 DEF IInv, Order
    <3> QED
      BY <1>6, <2>2, <3>1 DEF Execute, OrderIs, IInv, Amounts, Order, Handed
  <2>3. ASSUME NEW s \in {"refunding", "refunded"},
               order' = [order EXCEPT !.asked = RefundHost, !.status = s]
        PROVE  IInv'
    <3>1. order' \in Order
      BY <2>1, <2>3 DEF IInv, Order, OrderStatus
    <3> QED
      BY <1>6, <2>3, <3>1 DEF Execute, OrderIs, IInv, Amounts, Order, Handed
  <2> QED
    BY <1>6, <2>2, <2>3 DEF Execute
<1> QED
  BY <1>1, <1>2, <1>3, <1>4, <1>5, <1>6 DEF CheckoutStep

LEMMA OrderStep == IInv /\ [Next]_vars => IInv'
BY CheckoutKeeps DEF Next, vars, IInv, Amounts, Boot, SendOtp, SendPush

LEMMA Balance == IInv => BooksBalance
<1> SUFFICES ASSUME IInv, order.mode = "ESCROW", order.status # "none"
             PROVE  BooksBalance
  BY DEF BooksBalance
<1>1. Amounts
  BY DEF IInv
<1>2. PICK p \in Rounded(5 * order.budget), d \in Rounded(15 * order.budget),
           n \in Rounded(85 * order.budget) :
        order.fees = [poster |-> p, doer |-> d, trust |-> p, net |-> n]
  BY <1>1 DEF Amounts, Fees
<1>3. n + d \in IF order.budget % 20 = 10
                THEN {order.budget - 1, order.budget, order.budget + 1} ELSE {order.budget}
  <2>1. order.budget \in Nat
    BY <1>1 DEF Amounts
  <2> QED
    BY <2>1, <1>2, SplitIsNear
<1>4. order.payout # 0 => order.payout + order.fees.trust <= order.charge
  BY <1>1, <1>2, ShareIsCovered DEF Amounts, Handed
<1>5. order.refund \in {0, order.charge}
  BY <1>1 DEF Amounts, Handed
<1> QED
  BY <1>2, <1>3, <1>4, <1>5 DEF BooksBalance

\* Whatever the budget, the environment and the ties: the doer's net and fee
\* make the budget up to a cent, the poster's payment covers the payout and the
\* trust fund, and a refund is all he paid (create, initiatePayment,
\* initiateForEscrow, releaseEscrow).
THEOREM BooksAlwaysBalance == Spec => []BooksBalance
<1> QED
  BY InitEstablishes, OrderStep, Balance, PTL DEF Spec

-----------------------------------------------------------------------------
(* The environment.  A process that runs has passed validation, and its    *)
(* environment stays; what was decided by a reading of it can be read off  *)
(* it at any later time.                                                   *)

Booted ==
    /\ env \in EnvType
    /\ phase \in {"starting", "running", "refused"}
    /\ phase = "running" => collectEnvIssues(env) = {}

\* The host, the notify URL and the credentials are those of the environment.
Configured ==
    /\ order # NoOrder => phase = "running"
    /\ order.host \in {"none", CheckoutHost}
    /\ order.status \in Handed => order.host = CheckoutHost
    /\ order.host # "none" => order.notify = NotifyUrl
    /\ order.asked \in {"none", RefundHost}
    /\ order.queued => ~IsConfigured

Delivered ==
    /\ delivered \subseteq Outcome
    /\ "otp logged" \in delivered => phase = "running" /\ SmsProvider = "console"

\* A file lies where its purpose wants it; a profile has it under a KYC key.
Filed ==
    /\ file \in File
    /\ file.status # "none" =>
         /\ file.bucket = IF file.purpose \in PRIVATE_PURPOSES THEN "private" ELSE "public"
         /\ file.public <=> file.purpose \notin PRIVATE_PURPOSES
    /\ file.profiles # {} => file.profiles = {file.owner} /\ Prefix \in AnyKycKey
    /\ file.status = "none" => file.profiles = {} /\ file.readFrom = "nowhere"
    /\ file.readFrom = "private" => Prefix \in AnyKycKey

DeploymentInv == Booted /\ Configured /\ Delivered /\ Filed

LEMMA DeploymentInit == Init => DeploymentInv
<1> SUFFICES ASSUME Init PROVE DeploymentInv
  OBVIOUS
<1>1. Booted /\ Delivered
  BY ConfigurationAssumption DEF Init, ConfigurationInit, Booted, Delivered
<1>2. Configured
  BY DEF Init, CheckoutInit, Configured, NoOrder, Handed
<1>3. Filed
  <2>1. (CHOOSE u \in Users : TRUE) \in Users
    BY DocumentsAssumption
  <2> QED BY <2>1 DEF Init, DocumentsInit, NoFile, Filed, File, UploadPurpose
<1> QED
  BY <1>1, <1>2, <1>3 DEF DeploymentInv

\* What a process reads from its environment does not change.
LEMMA ReadingsLast ==
    ASSUME UNCHANGED env
    PROVE  /\ CheckoutHost' = CheckoutHost /\ NotifyUrl' = NotifyUrl
           /\ RefundHost' = RefundHost /\ IsConfigured' = IsConfigured
           /\ SmsProvider' = SmsProvider
BY DEF CheckoutHost, NotifyUrl, RefundHost, IsConfigured, SmsProvider

LEMMA CheckoutConfigured ==
    ASSUME order \in Order, Configured, CheckoutStep, UNCHANGED <<env, phase>>
    PROVE  Configured'
<1>1. /\ CheckoutHost' = CheckoutHost /\ NotifyUrl' = NotifyUrl
      /\ RefundHost' = RefundHost /\ IsConfigured' = IsConfigured
  BY ReadingsLast
<1>2. phase' = "running"
  BY DEF CheckoutStep, Create, OrderWrite, HandOut, PosterPays, Webhook, Release,
         InitiateRefund, Execute, OrderIs
<1>3. CASE \E mode \in {"ESCROW", "CASH"}, b \in Budgets : Create(mode, b)
  BY <1>1, <1>2, <1>3 DEF Create, OrderIs, Configured, Handed, Order
<1>4. CASE OrderWrite \/ PosterPays \/ Webhook
  BY <1>1, <1>2, <1>4
     DEF OrderWrite, PosterPays, Webhook, OrderIs, Configured, Handed, Order
<1>5. CASE HandOut
  BY <1>1, <1>2, <1>5 DEF HandOut, OrderIs, Configured, Handed, Order
<1>6. CASE Release
  BY <1>1, <1>2, <1>6 DEF Release, OrderIs, Configured, Handed, Order
<1>7. CASE InitiateRefund
  BY <1>1, <1>2, <1>7 DEF InitiateRefund, OrderIs, Configured, Handed, Order
<1>8. CASE Execute
  BY ZenonT(40), <1>1, <1>2, <1>8 DEF Execute, OrderIs, Configured, Handed, Order
<1> QED
  BY <1>3, <1>4, <1>5, <1>6, <1>7, <1>8 DEF CheckoutStep

LEMMA DocumentsFiled ==
    ASSUME Filed, DocumentsStep
    PROVE  Filed'
<1>1. ASSUME NEW u \in Users, NEW purpose \in UploadPurpose, Presign(u, purpose)
      PROVE  Filed'
  BY <1>1 DEF Presign, FileIs, Filed, File
<1>2. CASE Upload
  BY <1>2 DEF Upload, FileIs, Filed, File, Prefix
<1>3. ASSUME NEW u \in Users, NEW field \in DOMAIN FieldSubtype, Submit(u, field)
      PROVE  Filed'
  BY <1>3 DEF Submit, kycKeyBelongsTo, FileIs, Filed, File, Prefix
<1>4. CASE Review
  BY <1>4 DEF Review, FileIs, Filed, File, Prefix
<1> QED
  BY <1>1, <1>2, <1>3, <1>4 DEF DocumentsStep

LEMMA PartsLast ==
    /\ UNCHANGED <<env, phase>> => (Booted => Booted')
    /\ UNCHANGED <<env, phase, order>> => (Configured => Configured')
    /\ UNCHANGED <<env, phase, delivered>> => (Delivered => Delivered')
    /\ UNCHANGED file => (Filed => Filed')
<1>1. UNCHANGED <<env, phase>> => (Booted => Booted')
  BY DEF Booted
<1>2. UNCHANGED <<env, phase, order>> => (Configured => Configured')
  BY ReadingsLast DEF Configured
<1>3. UNCHANGED <<env, phase, delivered>> => (Delivered => Delivered')
  BY ReadingsLast DEF Delivered
<1>4. UNCHANGED file => (Filed => Filed')
  BY DEF Filed, Prefix
<1> QED
  BY <1>1, <1>2, <1>3, <1>4

LEMMA DeploymentStep == IInv /\ DeploymentInv /\ [Next]_vars => DeploymentInv'
<1> SUFFICES ASSUME IInv, DeploymentInv, [Next]_vars PROVE DeploymentInv'
  OBVIOUS
<1> USE DEF DeploymentInv
<1>1. CASE Boot /\ UNCHANGED <<order, file, delivered>>
  <2>1. Booted'
    BY <1>1 DEF Boot, Booted
  <2>2. Configured'
    BY <1>1, ReadingsLast DEF Boot, Configured
  <2>3. Delivered'
    BY <1>1 DEF Boot, Delivered
  <2> QED BY <1>1, <2>1, <2>2, <2>3, PartsLast
<1>2. CASE CheckoutStep /\ UNCHANGED <<env, phase, file, delivered>>
  BY <1>2, CheckoutConfigured, PartsLast DEF IInv
<1>3. CASE DocumentsStep /\ UNCHANGED <<env, phase, order, delivered>>
  BY <1>3, DocumentsFiled, PartsLast
<1>4. CASE (SendOtp \/ SendPush) /\ UNCHANGED <<env, phase, order, file>>
  <2>1. Delivered'
    BY <1>4, ReadingsLast DEF SendOtp, SendPush, Outcome, Delivered
  <2> QED BY <1>4, <2>1, PartsLast
<1>5. CASE UNCHANGED vars
  BY <1>5, PartsLast DEF vars
<1> QED
  BY <1>1, <1>2, <1>3, <1>4, <1>5 DEF Next

LEMMA DeploymentHolds == Spec => [](IInv /\ DeploymentInv)
<1> QED
  BY InitEstablishes, OrderStep, DeploymentInit, DeploymentStep, PTL DEF Spec

-----------------------------------------------------------------------------
\* The environment, the order, the file and the outcomes keep their types.
THEOREM DeploymentTyped == Spec => []TypeOK
<1>1. IInv /\ DeploymentInv => TypeOK
  BY DEF IInv, DeploymentInv, Booted, Filed, Delivered, TypeOK
<1> QED
  BY <1>1, DeploymentHolds, PTL

\* What validation let through in production.
LEMMA Validated ==
    ASSUME Booted, phase = "running", Production
    PROVE  /\ Word(env.SMS_PROVIDER, "console") # "console"
           /\ Word(env.PAYHERE_MODE, "sandbox") = "live" \/ env.PAYHERE_ALLOW_SANDBOX_IN_PROD = "true"
           /\ env.APP_PUBLIC_BASE_URL = "https"
           /\ env.PAYHERE_APP = "real"
<1>1. ProductionIssues(env) = {}
  BY DEF Booted, Production, collectEnvIssues
<1>2. {k \in Providers : Word(env[k], "console") = "console"} = {}
      /\ {k \in {"PAYHERE_MODE"} : /\ Word(env[k], "sandbox") # "live"
                                   /\ env.PAYHERE_ALLOW_SANDBOX_IN_PROD # "true"} = {}
      /\ {k \in {"APP_PUBLIC_BASE_URL"} : env[k] # "https"} = {}
      /\ {k \in Credentials : env[k] # "real"} = {}
  BY <1>1 DEF ProductionIssues
<1> QED
  BY <1>2 DEF Providers, Credentials

\* No environment lets a code into the log in production but by a provider name
\* that the factory does not know as it is spelled (env.validation.ts,
\* smsProviderFactory).
THEOREM CodesNeverLogged == Spec => []CodesStayOutOfLogs
<1>1. DeploymentInv => CodesStayOutOfLogs
  <2> SUFFICES ASSUME DeploymentInv, Production, "otp logged" \in delivered
               PROVE  env.SMS_PROVIDER \in {"unknown", "dialog PADDED"}
    BY DEF CodesStayOutOfLogs
  <2>1. Word(env.SMS_PROVIDER, "console") # "console" /\ SmsProvider = "console"
    BY Validated DEF DeploymentInv, Delivered
  <2>2. env.SMS_PROVIDER \in {"unset", "empty", "console", "CONSOLE", "dialog", "DIALOG",
                              "dialog PADDED", "unknown"}
    BY DEF DeploymentInv, Booted, EnvType
  <2> QED BY <2>1, <2>2 DEF Word, Lower, Trim, SmsProvider, OrDefault
<1> QED
  BY <1>1, DeploymentHolds, PTL

\* A production process takes real money only and hears of it over https, in
\* every environment that validation lets through (env.validation.ts,
\* initiatePayment).
THEOREM ProductionAlwaysLive == Spec => []ProductionChargesLive
<1>1. DeploymentInv => ProductionChargesLive
  <2> SUFFICES ASSUME DeploymentInv, Production, order.host # "none"
               PROVE  /\ order.host = "live" \/ env.PAYHERE_ALLOW_SANDBOX_IN_PROD = "true"
                      /\ order.notify = "https" \/ order.notify = env.PAYHERE_NOTIFY_URL
    BY DEF ProductionChargesLive
  <2>1. phase = "running" /\ order.host = CheckoutHost /\ order.notify = NotifyUrl
    BY DEF DeploymentInv, Configured, NoOrder
  <2>2. /\ Word(env.PAYHERE_MODE, "sandbox") = "live" \/ env.PAYHERE_ALLOW_SANDBOX_IN_PROD = "true"
        /\ env.APP_PUBLIC_BASE_URL = "https"
    BY <2>1, Validated DEF DeploymentInv
  <2>3. env.PAYHERE_MODE \in {"unset", "empty", "live", "LIVE", "live PADDED",
                              "sandbox", "SANDBOX", "unknown"}
    BY DEF DeploymentInv, Booted, EnvType
  <2>4. Word(env.PAYHERE_MODE, "sandbox") = "live" => CheckoutHost = "live"
    BY <2>3 DEF Word, Lower, Trim, CheckoutHost, OrDefault
  <2> QED BY <2>1, <2>2, <2>4 DEF NotifyUrl, OrDefault
<1> QED
  BY <1>1, DeploymentHolds, PTL

\* With the mode spelled as both compare it, the refund is asked for at the host
\* that took the charge, and in production it never waits for credentials
\* (initiatePayment, PayHereClient, env.validation.ts).
THEOREM RefundsFindCharges == Spec => []RefundsReachCharges
<1>1. DeploymentInv => RefundsReachCharges
  <2> SUFFICES ASSUME DeploymentInv, env.PAYHERE_MODE \in {"unset", "live", "sandbox"},
                      order.status \in {"refunding", "refunded"}
               PROVE  /\ order.asked \in {"none", order.host}
                      /\ Production => ~order.queued
    BY DEF RefundsReachCharges
  <2>1. CheckoutHost = RefundHost
    BY DEF CheckoutHost, RefundHost, OrDefault, Lower
  <2>2. order.host = CheckoutHost /\ order.asked \in {"none", RefundHost} /\ phase = "running"
    BY DEF DeploymentInv, Configured, Handed, NoOrder
  <2>3. Production => IsConfigured
    BY <2>2, Validated DEF DeploymentInv, IsConfigured
  <2> QED BY <2>1, <2>2, <2>3 DEF DeploymentInv, Configured
<1> QED
  BY <1>1, DeploymentHolds, PTL

\* The five tables agree: one private purpose, one prefix, one field.
LEMMA TablesAgree ==
    ASSUME file \in File
    PROVE  /\ Prefix \in AnyKycKey <=> file.purpose \in PRIVATE_PURPOSES
           /\ Prefix \in AnyKycKey =>
                \E field \in DOMAIN FieldSubtype :
                    {f \in DOMAIN FieldSubtype : FieldSubtype[f] = Prefix} = {field}
<1>1. file.purpose \in UploadPurpose
  BY DEF File
<1>2. Prefix \in AnyKycKey <=> file.purpose \in PRIVATE_PURPOSES
  BY <1>1 DEF Prefix, AnyKycKey, PRIVATE_PURPOSES, UploadPurpose, PURPOSE_PREFIX
<1>3. DOMAIN FieldSubtype = {"nicPhotoUrl", "selfieUrl", "addressProofUrl", "policeClearanceUrl",
                             "drivingLicenseUrl", "skillProofUrl"}
  BY DEF FieldSubtype
<1>4. \A a \in AnyKycKey : \E field \in DOMAIN FieldSubtype :
        {f \in DOMAIN FieldSubtype : FieldSubtype[f] = a} = {field}
  <2>1. /\ FieldSubtype["nicPhotoUrl"] = "nic" /\ FieldSubtype["selfieUrl"] = "selfie"
        /\ FieldSubtype["addressProofUrl"] = "address"
        /\ FieldSubtype["policeClearanceUrl"] = "police"
        /\ FieldSubtype["drivingLicenseUrl"] = "license"
        /\ FieldSubtype["skillProofUrl"] = "skill"
    BY DEF FieldSubtype
  <2> QED BY <1>3, <2>1 DEF AnyKycKey
<1> QED
  BY <1>2, <1>4

\* Whatever is presigned, uploaded and submitted in whatever order: a profile
\* refers to its owner's own private file, which the review reads where it lies
\* (presign, SubmitKycDto, submitKyc, presignRead).
THEOREM DocumentsAlwaysReachReview == Spec => []DocumentsReachReview
<1>1. DeploymentInv => DocumentsReachReview
  <2> SUFFICES ASSUME Filed, file.status # "none"
               PROVE  /\ file.profiles # {} => /\ file.profiles = {file.owner}
                                               /\ file.bucket = "private" /\ ~file.public
                      /\ file.readFrom \in {"nowhere", file.bucket}
                      /\ file.bucket = "private" =>
                           /\ Prefix \in AnyKycKey
                           /\ Cardinality({field \in DOMAIN FieldSubtype :
                                             FieldSubtype[field] = Prefix}) = 1
    BY DEF DocumentsReachReview, DeploymentInv
  <2>1. file \in File
    BY DEF Filed
  <2>2. ASSUME Prefix \in AnyKycKey
        PROVE  Cardinality({field \in DOMAIN FieldSubtype : FieldSubtype[field] = Prefix}) = 1
    BY <2>1, <2>2, TablesAgree, FS_Singleton
  <2>3. Prefix \in AnyKycKey <=> file.purpose \in PRIVATE_PURPOSES
    BY <2>1, TablesAgree
  <2>4. /\ file.profiles # {} => /\ file.profiles = {file.owner}
                                 /\ file.bucket = "private" /\ ~file.public
        /\ file.readFrom \in {"nowhere", file.bucket}
        /\ file.bucket = "private" => Prefix \in AnyKycKey
    BY <2>1, <2>3 DEF Filed, File
  <2> QED BY <2>2, <2>4
<1> QED
  BY <1>1, DeploymentHolds, PTL
=============================================================================
