----------------------------- MODULE Environment -----------------------------
(***************************************************************************)
(* The process environment, read twice: validateEnv coerces and checks it  *)
(* and refuses to start, the namespaces of the configuration parse it      *)
(* again, each with rules of its own for what is absent or empty.  (A      *)
(* variable that only the .env file has reaches them as it was coerced.)   *)
(*                                                                         *)
(* An environment maps variables to texts.  Of those that nobody checks or *)
(* that are checked alike one stands for all: JWT_ACCESS_SECRET and        *)
(* JWT_ACCESS_TTL for the four of each.                                    *)
(***************************************************************************)
EXTENDS Integers

(* JavaScript's two readings of a text as a number: the texts that Number  *)
(* reads as an integer and those that parseInt, in base ten, finds an      *)
(* integer at the start of, with what they make of it.  "0x10" is 16 to    *)
(* one and 0 to the other; either has texts that the other has not.        *)
CONSTANTS Number, parseInt

Unset == "unset"
Empty == "empty"

ASSUME EnvironmentAssumption ==
  {Unset, Empty} \intersect (DOMAIN Number \union DOMAIN parseInt) = {}

DefaultFrom == "Agendox <no-reply@agendox.local>"

(* Addresses, with their domain; a text that is none has no domain.        *)
Domain == [t \in {DefaultFrom, "Agendox <hola@shop.com>", "hola@shop.com"} |->
  IF t = DefaultFrom THEN "agendox.local" ELSE "shop.com"]
NoDomain == "no domain"

Https == {"https://app.com", "https://app.com/"}
Mailto == {"mailto:ops@shop.com", "mailto:admin@agendox.local"}
WellFormedKeys == {"key"}
-----------------------------------------------------------------------------
(* validateEnv                                                             *)

Given(v) == v \notin {Unset, Empty}
IsInt(v, range) == v \in DOMAIN Number /\ Number[v] \in range
IsOptionalInt(v, range) == Given(v) => IsInt(v, range)

Ports == 0 .. 65535
SmtpPorts == 1 .. 65535
PoolSizes == 1 .. 100
OtpMinutes == 1 .. 60
OtpAttempts == 1 .. 20
ResendMinutes == 5 .. 1440

(* IsOptional does not pass the empty text.                                *)
IsEnum(v, values) == v \in values \union {Unset}

ServerVariables(e) ==
  /\ IsEnum(e["NODE_ENV"], {"development", "production", "test"})
  /\ IsOptionalInt(e["PORT"], Ports)

DatabaseVariables(e) ==
  Given(e["DATABASE_URL"]) /\ IsOptionalInt(e["DATABASE_POOL_MAX"], PoolSizes)

AuthVariables(e) == Given(e["JWT_ACCESS_SECRET"])

OtpVariables(e) ==
  /\ IsOptionalInt(e["OTP_TTL_MINUTES"], OtpMinutes)
  /\ IsOptionalInt(e["OTP_MAX_ATTEMPTS"], OtpAttempts)
  /\ IsOptionalInt(e["OTP_RESEND_WINDOW_MINUTES"], ResendMinutes)

(* Mutant: the port is optional as the others are.                         *)
MailVariables_OptionalPort(e) ==
  /\ IsEnum(e["MAIL_PROVIDER"], {"log", "smtp"})
  /\ e["MAIL_PROVIDER"] = "smtp" =>
       /\ Given(e["SMTP_HOST"]) /\ Given(e["SMTP_USER"])
       /\ IsOptionalInt(e["SMTP_PORT"], 0 .. 99999)
       /\ Given(e["SMTP_PASS"]) \/ Given(e["APP_KEY"])

MailVariables(e) ==
  /\ IsEnum(e["MAIL_PROVIDER"], {"log", "smtp"})
  /\ e["MAIL_PROVIDER"] = "smtp" =>
       /\ Given(e["SMTP_HOST"]) /\ Given(e["SMTP_USER"])
       /\ IsInt(e["SMTP_PORT"], SmtpPorts)
       /\ Given(e["SMTP_PASS"]) \/ Given(e["APP_KEY"])

PaymentVariables(e) ==
  /\ IsEnum(e["PAYMENT_PROVIDER"], {"mock", "mercadopago"})
  /\ e["PAYMENT_PROVIDER"] = "mercadopago" =>
       /\ {e["APP_DASHBOARD_URL"], e["API_PUBLIC_URL"]} \subseteq Https
       /\ Given(e["MP_ACCESS_TOKEN"]) /\ Given(e["MP_WEBHOOK_SECRET"])

Or(v, default) == IF v = Unset THEN default ELSE v

emailDomain(v) == IF v \in DOMAIN Domain THEN Domain[v] ELSE NoDomain

Misaligned(from, user) ==
  NoDomain \notin {emailDomain(from), emailDomain(user)} /\ emailDomain(from) # emailDomain(user)

validateRelations(e) ==
  /\ ~(e["MAIL_PROVIDER"] = "smtp" /\ Misaligned(Or(e["MAIL_FROM"], DefaultFrom), e["SMTP_USER"]))
  /\ Given(e["VAPID_PUBLIC_KEY"]) <=> Given(e["VAPID_PRIVATE_KEY"])
  /\ Given(e["VAPID_PUBLIC_KEY"]) /\ Given(e["VAPID_SUBJECT"]) => e["VAPID_SUBJECT"] \in Mailto

validateEnv(e) ==
  /\ ServerVariables(e) /\ DatabaseVariables(e) /\ AuthVariables(e) /\ OtpVariables(e)
  /\ MailVariables(e) /\ PaymentVariables(e)
  /\ validateRelations(e)
-----------------------------------------------------------------------------
(* The configuration                                                       *)

toBoolean(v, fallback) == IF v = Unset THEN fallback ELSE v \in {"true", "1"}
toInt(v, fallback) == IF v \in DOMAIN parseInt THEN parseInt[v] ELSE fallback

stripTrailingSlash(url) == IF url = "https://app.com/" THEN "https://app.com" ELSE url

appConfig(e) == [
  port |-> toInt(e["PORT"], 3000),
  dashboardUrl |-> stripTrailingSlash(Or(e["APP_DASHBOARD_URL"], "http://localhost:3001"))]

databaseConfig(e) == [
  url |-> Or(e["DATABASE_URL"], Empty),
  poolMax |-> toInt(e["DATABASE_POOL_MAX"], 10)]

authConfig(e) == [
  accessSecret |-> Or(e["JWT_ACCESS_SECRET"], Empty),
  accessTtl |-> Or(e["JWT_ACCESS_TTL"], "15m"),
  otpTtlMinutes |-> toInt(e["OTP_TTL_MINUTES"], 10),
  otpMaxAttempts |-> toInt(e["OTP_MAX_ATTEMPTS"], 5),
  otpResendWindowMinutes |-> toInt(e["OTP_RESEND_WINDOW_MINUTES"], 60)]

mailConfig(e) == [
  provider |-> Or(e["MAIL_PROVIDER"], "log"),
  from |-> Or(e["MAIL_FROM"], DefaultFrom),
  host |-> Or(e["SMTP_HOST"], Empty),
  port |-> toInt(e["SMTP_PORT"], 465),
  secure |-> toBoolean(e["SMTP_SECURE"], TRUE),
  user |-> Or(e["SMTP_USER"], Empty),
  pass |-> Or(e["SMTP_PASS"], Or(e["APP_KEY"], Empty))]

pushConfig(e) == [
  vapidPublicKey |-> Or(e["VAPID_PUBLIC_KEY"], Empty),
  vapidPrivateKey |-> Or(e["VAPID_PRIVATE_KEY"], Empty),
  vapidSubject |-> Or(e["VAPID_SUBJECT"], "mailto:admin@agendox.local")]

paymentConfig(e) == [
  provider |-> Or(e["PAYMENT_PROVIDER"], "mock"),
  apiPublicUrl |-> Or(e["API_PUBLIC_URL"], "http://localhost:3000"),
  accessToken |-> Or(e["MP_ACCESS_TOKEN"], Empty),
  webhookSecret |-> Or(e["MP_WEBHOOK_SECRET"], Empty)]
-----------------------------------------------------------------------------
(* What the providers make of it when the application is created           *)

(* The sender of the envelope: the address in the From, or the account.    *)
fromAddress(mail) == IF mail.from \in DOMAIN Domain THEN mail.from ELSE mail.user

PushEnabled(push) == Empty \notin {push.vapidPublicKey, push.vapidPrivateKey}

(* setVapidDetails throws for what it cannot use.                          *)
setVapidDetails(push) ==
  push.vapidSubject \in Mailto /\ {push.vapidPublicKey, push.vapidPrivateKey} \subseteq WellFormedKeys

Constructs(e) == PushEnabled(pushConfig(e)) => setVapidDetails(pushConfig(e))
=============================================================================
