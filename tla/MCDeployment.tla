---------------------------- MODULE MCDeployment ----------------------------
(* Instances of Deployment for TLC: the environment of .env.example, the    *)
(* safe one of env.validation.spec.ts, and those that differ from one of    *)
(* them in at most two variables.                                           *)
EXTENDS Deployment

Example == [
    NODE_ENV |-> "development", DATABASE_URL |-> "set", JWT_SECRET |-> "weak",
    OTP_PEPPER |-> "unset", CORS_ORIGINS |-> "unset", ADMIN_PHONES |-> "set",
    APP_PUBLIC_BASE_URL |-> "http", PAYHERE_NOTIFY_URL |-> "unset",
    PAYHERE_PAGE_URLS |-> "unset", SMS_PROVIDER |-> "console", PUSH_PROVIDER |-> "console",
    PAYHERE_MODE |-> "sandbox", PAYHERE_ALLOW_SANDBOX_IN_PROD |-> "unset",
    PAYHERE_MERCHANT |-> "your-", PAYHERE_APP |-> "unset", SMS_GATEWAY |-> "unset",
    S3 |-> "unset"]

ProdSafe == [
    NODE_ENV |-> "production", DATABASE_URL |-> "set", JWT_SECRET |-> "strong",
    OTP_PEPPER |-> "set", CORS_ORIGINS |-> "set", ADMIN_PHONES |-> "set",
    APP_PUBLIC_BASE_URL |-> "https", PAYHERE_NOTIFY_URL |-> "unset",
    PAYHERE_PAGE_URLS |-> "unset", SMS_PROVIDER |-> "dialog", PUSH_PROVIDER |-> "fcm",
    PAYHERE_MODE |-> "live", PAYHERE_ALLOW_SANDBOX_IN_PROD |-> "unset",
    PAYHERE_MERCHANT |-> "real", PAYHERE_APP |-> "real", SMS_GATEWAY |-> "set",
    S3 |-> "set"]

EnvKeys == DOMAIN ProdSafe
EnvValues(k) == {"unset", "empty", "set", "weak", "strong", "your-", "real", "http", "https",
    "console", "CONSOLE", "dialog", "DIALOG", "dialog PADDED", "fcm", "fcm PADDED",
    "live", "LIVE", "live PADDED", "sandbox", "SANDBOX", "unknown", "true",
    "production", "development"}

Near(e) == {d \in UNION {{[e EXCEPT ![k] = v] : v \in EnvValues(k)} : k \in EnvKeys} : d \in EnvType}
MCEnvs == UNION {Near(d) : d \in Near(Example) \cup Near(ProdSafe)}

\* Every residue modulo 20 above the smallest budget of CreateTaskDto.
MCBudgets == 50000..50019

\* The order, the file and the outcomes never meet: one at a time.
MCOneConcern ==
    Cardinality({c \in {"order", "file", "outcome"} :
        CASE c = "order" -> order # NoOrder
          [] c = "file" -> file # NoFile
          [] OTHER -> delivered # {}}) <= 1
=============================================================================
