--------------------------- MODULE Configuration ---------------------------
(***************************************************************************)
(* The environment a process is started with: validateEnv, which refuses   *)
(* to start in an unsafe one, and the readings that the services make of   *)
(* the same variables later.  Validation trims and lower-cases what it     *)
(* reads; of the readings some do the one, some the other, some neither.   *)
(***************************************************************************)
EXTENDS Naturals

CONSTANT Envs       \* the environments a process may be started with

\* The values of a variable that some reading tells apart.  "unset" is
\* undefined, "empty" the empty string; PADDED ends with a blank.
OnOff == {"unset", "set"}
Credential == {"unset", "your-", "real"}
BaseUrl == {"unset", "http", "https"}

EnvType == [
    NODE_ENV : {"production", "development"},
    DATABASE_URL : OnOff,
    JWT_SECRET : {"unset", "weak", "strong"},
    OTP_PEPPER : OnOff, CORS_ORIGINS : OnOff, ADMIN_PHONES : OnOff,
    APP_PUBLIC_BASE_URL : BaseUrl,
    PAYHERE_NOTIFY_URL : BaseUrl,
    PAYHERE_PAGE_URLS : OnOff,              \* PAYHERE_RETURN_URL and _CANCEL_URL
    SMS_PROVIDER : {"unset", "empty", "console", "CONSOLE", "dialog", "DIALOG",
                    "dialog PADDED", "unknown"},
    PUSH_PROVIDER : {"unset", "console", "CONSOLE", "fcm", "fcm PADDED", "unknown"},
    PAYHERE_MODE : {"unset", "empty", "live", "LIVE", "live PADDED",
                    "sandbox", "SANDBOX", "unknown"},
    PAYHERE_ALLOW_SANDBOX_IN_PROD : {"unset", "true"},
    PAYHERE_MERCHANT : Credential,          \* PAYHERE_MERCHANT_ID and _SECRET
    PAYHERE_APP : Credential,               \* PAYHERE_APP_ID and _SECRET
    SMS_GATEWAY : OnOff,                    \* SMS_GATEWAY_URL and _API_KEY
    S3 : OnOff ]                            \* the S3 keys and buckets

ASSUME ConfigurationAssumption == Envs \subseteq EnvType

VARIABLES
    env,        \* process.env
    phase       \* "starting", "running" or "refused"

-----------------------------------------------------------------------------
(* How a value is read *)

Lower(v) == CASE v = "LIVE" -> "live"
              [] v = "SANDBOX" -> "sandbox"
              [] v = "CONSOLE" -> "console"
              [] v = "DIALOG" -> "dialog"
              [] OTHER -> v

Trim(v) == CASE v = "live PADDED" -> "live"
             [] v = "dialog PADDED" -> "dialog"
             [] v = "fcm PADDED" -> "fcm"
             [] OTHER -> v

\* value ?? default
OrDefault(v, default) == IF v = "unset" THEN default ELSE v

\* str(env, key) || default, in lower case
Word(v, default) == Lower(IF v \in {"unset", "empty"} THEN default ELSE Trim(v))

-----------------------------------------------------------------------------
(* collectEnvIssues *)

Always == {"DATABASE_URL", "JWT_SECRET"}
Filled == {"OTP_PEPPER", "CORS_ORIGINS", "ADMIN_PHONES"}
Providers == {"SMS_PROVIDER", "PUSH_PROVIDER"}
Credentials == {"PAYHERE_MERCHANT", "PAYHERE_APP"}

ProductionIssues(e) ==
    {k \in Filled : e[k] = "unset"}
    \cup {k \in {"JWT_SECRET"} : e[k] = "weak"}
    \cup {k \in {"APP_PUBLIC_BASE_URL"} : e[k] # "https"}
    \cup {k \in Providers : Word(e[k], "console") = "console"}
    \cup {k \in {"PAYHERE_MODE"} : /\ Word(e[k], "sandbox") # "live"
                                   /\ e.PAYHERE_ALLOW_SANDBOX_IN_PROD # "true"}
    \cup {k \in Credentials : e[k] # "real"}

collectEnvIssues(e) ==
    {k \in Always : e[k] = "unset"}
    \cup (IF e.NODE_ENV = "production" THEN ProductionIssues(e) ELSE {})

\* validateEnv
Boot ==
    /\ phase = "starting"
    /\ phase' = IF collectEnvIssues(env) = {} THEN "running" ELSE "refused"
    /\ UNCHANGED env

ConfigurationInit == env \in Envs /\ phase = "starting"

-----------------------------------------------------------------------------
(* What the services make of it *)

\* The factory that compares the name as it is spelled (mutant).
SmsProviderExact == IF env.SMS_PROVIDER = "dialog" THEN "dialog" ELSE "console"

\* smsProviderFactory ('twilio' goes like 'dialog')
SmsProvider ==
    IF Lower(OrDefault(env.SMS_PROVIDER, "console")) = "dialog" THEN "dialog" ELSE "console"

\* pushProviderFactory
PushProvider ==
    IF Lower(OrDefault(env.PUSH_PROVIDER, "console")) = "fcm" THEN "fcm" ELSE "console"

\* A checkout that asks for the live mode as it is spelled (mutant).
CheckoutHostIfLive == IF env.PAYHERE_MODE = "live" THEN "live" ELSE "sandbox"

\* initiatePayment
CheckoutHost == IF OrDefault(env.PAYHERE_MODE, "sandbox") = "sandbox" THEN "sandbox" ELSE "live"

\* A host that is named after the mode (mutant).
RefundHostAsSpelled == OrDefault(env.PAYHERE_MODE, "sandbox")

\* A client that asks whether it is not the sandbox (mutant).
RefundHostUnlessSandbox == IF env.PAYHERE_MODE = "sandbox" THEN "sandbox" ELSE "live"

\* PayHereClient.baseUrl
RefundHost ==
    IF Lower(OrDefault(env.PAYHERE_MODE, "sandbox")) = "live" THEN "live" ELSE "sandbox"

\* PayHereClient.isConfigured: placeholders count as credentials here
IsConfigured == env.PAYHERE_APP # "unset"

\* callbackUrls: an explicit notify URL, or one under the base URL
NotifyUrl == OrDefault(env.PAYHERE_NOTIFY_URL, env.APP_PUBLIC_BASE_URL)

CallbacksComplete ==
    /\ NotifyUrl # "unset"
    /\ env.PAYHERE_PAGE_URLS = "set" \/ env.APP_PUBLIC_BASE_URL # "unset"
=============================================================================
