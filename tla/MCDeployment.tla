---------------------------- MODULE MCDeployment ----------------------------
(* Small instances of Deployment for TLC.                                  *)
EXTENDS Deployment, TLC

(* The least environment, and those that differ from it in one of the      *)
(* groups of variables that are checked together.                          *)
Variables == {
  "NODE_ENV", "PORT", "DATABASE_URL", "DATABASE_POOL_MAX", "JWT_ACCESS_SECRET", "JWT_ACCESS_TTL",
  "OTP_TTL_MINUTES", "OTP_MAX_ATTEMPTS", "OTP_RESEND_WINDOW_MINUTES",
  "MAIL_PROVIDER", "MAIL_FROM", "SMTP_HOST", "SMTP_PORT", "SMTP_SECURE", "SMTP_USER", "SMTP_PASS", "APP_KEY",
  "VAPID_PUBLIC_KEY", "VAPID_PRIVATE_KEY", "VAPID_SUBJECT",
  "PAYMENT_PROVIDER", "APP_DASHBOARD_URL", "API_PUBLIC_URL", "MP_ACCESS_TOKEN", "MP_WEBHOOK_SECRET"}

Least == [v \in Variables |->
  IF v = "DATABASE_URL" THEN "postgresql://db" ELSE IF v = "JWT_ACCESS_SECRET" THEN "secret" ELSE Unset]

Absent == {Unset, Empty}

(* Plain numerals; those that only Number reads through, as hexadecimal,   *)
(* binary or with an exponent; a blank, which is 0 to it and nothing to    *)
(* parseInt; and a number with a unit, which only parseInt takes.          *)
Plain == [t \in {"0", "4", "12", "465", "90000"} |->
  CASE t = "0" -> 0 [] t = "4" -> 4 [] t = "12" -> 12 [] t = "465" -> 465 [] t = "90000" -> 90000]
NumberOf == Plain @@ "1e1" :> 10 @@ "0x10" :> 16 @@ "0b11" :> 3 @@ "0.1e2" :> 10 @@ " " :> 0
ParseIntOf == Plain @@ "1e1" :> 1 @@ "0x10" :> 0 @@ "0b11" :> 0 @@ "0.1e2" :> 0 @@ "12min" :> 12

Numerals == (DOMAIN NumberOf \union DOMAIN ParseIntOf \union Absent) \ {"465"}

One == {[Least EXCEPT ![v] = t] :
  v \in {"PORT", "DATABASE_POOL_MAX", "OTP_TTL_MINUTES", "OTP_MAX_ATTEMPTS", "OTP_RESEND_WINDOW_MINUTES"},
  t \in Numerals}

Required == {[Least EXCEPT !["NODE_ENV"] = n, !["DATABASE_URL"] = d, !["JWT_ACCESS_SECRET"] = s] :
  n \in {"production", "staging", Empty, Unset}, d \in {"postgresql://db"} \union Absent, s \in {"secret"} \union Absent}

Mail == {[Least EXCEPT !["MAIL_PROVIDER"] = p, !["MAIL_FROM"] = f, !["SMTP_HOST"] = h, !["SMTP_PORT"] = n,
                       !["SMTP_USER"] = u, !["SMTP_PASS"] = k] :
  p \in {"smtp", Unset, Empty}, f \in {"Agendox <hola@shop.com>", Unset, Empty}, h \in {"smtp.shop.com", Empty},
  n \in {"465", "0", "12min", "0x10"} \union Absent, u \in {"hola@shop.com", "apikey", Unset}, k \in {"secret", Unset}}

Push == {[Least EXCEPT !["VAPID_PUBLIC_KEY"] = p, !["VAPID_PRIVATE_KEY"] = q, !["VAPID_SUBJECT"] = s] :
  p \in {"key", "garbage"} \union Absent, q \in {"key"} \union Absent,
  s \in {"mailto:ops@shop.com", "ops@shop.com"} \union Absent}

Payment == {[Least EXCEPT !["PAYMENT_PROVIDER"] = p, !["APP_DASHBOARD_URL"] = d, !["API_PUBLIC_URL"] = a,
                          !["MP_ACCESS_TOKEN"] = t, !["MP_WEBHOOK_SECRET"] = s] :
  p \in {"mercadopago", Unset}, d \in {"https://app.com/", "http://app.com", Unset, Empty},
  a \in {"https://app.com", "http://app.com", Unset}, t \in {"token", Empty}, s \in {"secret", Unset}}

AllEnvironments == One \union Required \union Mail \union Push \union Payment

(* The commands are followed under the least environment; under the others *)
(* only whether they start matters.                                        *)
Basic == [name |-> "Basic", price |-> 40]
Pro == [name |-> "Pro", price |-> 60]
Started == {
  [migrated |-> FALSE, organized |-> FALSE, plans |-> << >>],
  [migrated |-> TRUE, organized |-> FALSE, plans |-> <<Basic, Pro>>],
  [migrated |-> TRUE, organized |-> TRUE, plans |-> <<Basic>>]}
DatabasesOf == [e \in AllEnvironments |-> IF e = Least THEN Started ELSE {[migrated |-> TRUE, organized |-> TRUE, plans |-> << >>]}]
CommandsOf == [e \in AllEnvironments |-> IF e = Least THEN {"seed", "fixPlans", "seedDemo"} ELSE {"fixPlans"}]

VersionsOf == [e \in AllEnvironments |-> IF e["NODE_ENV"] = "production" THEN {1, 2, 3} ELSE {1}]

Plans == <<[name |-> "Basico", price |-> 50, legacyNames |-> {"Basic"}],
           [name |-> "Pro", price |-> 75, legacyNames |-> {}]>>
Catalog == <<[service |-> "cut", options |-> <<"plain", "wash">>], [service |-> "beard", options |-> <<"trim">>]>>
Staff == <<[name |-> "Nico", services |-> <<"cut", "beard">>], [name |-> "Chair", services |-> <<"cut">>]>>
=============================================================================
