----------------------------- MODULE Providers -----------------------------
(***************************************************************************)
(* The delivery adapters of notifications/adapters.py: how a backend is     *)
(* opened and how its adapter turns what happened on the wire into success, *)
(* a permanent or a temporary failure.  Message texts, headers and URLs are *)
(* left out; a configuration is the set of its fields that fail validation. *)
(***************************************************************************)
EXTENDS Naturals

Email == {"smtp", "postmark", "resend"}
Push == {"apns", "fcm"}
Production == Email \cup Push
\* The adapters that never leave the process.  "in_process" is the one a
\* NotificationService falls back on when the host has bound none.
Fixtures == {"fixture_email", "fixture_push", "in_process"}
Backends == Production \cup Fixtures

(***************************************************************************)
(* Opening a backend: what each configuration class refuses.                *)
(***************************************************************************)
SMTPConfig == {"host", "port", "from_address", "credentials", "tls_mode",
               "timeout_seconds", "reply_to"}
PostmarkConfig == {"server_token", "from_address", "reply_to",
                   "message_stream", "timeout_seconds", "endpoint"}
ResendConfig == {"api_key", "from_address", "reply_to", "timeout_seconds",
                 "endpoint"}
APNsPushConfig == {"auth_token", "topic", "bundle_id", "apns_priority",
                   "apns_push_type", "timeout_seconds", "endpoint"}
FCMConfig == {"project_id", "server_token", "timeout_seconds", "endpoint"}

Fields(kind) ==
    IF kind = "smtp" THEN SMTPConfig
    ELSE IF kind = "postmark" THEN PostmarkConfig
    ELSE IF kind = "resend" THEN ResendConfig
    ELSE IF kind = "apns" THEN APNsPushConfig
    ELSE IF kind = "fcm" THEN FCMConfig
    ELSE {}

\* The adapter is opened only when no field of its configuration is refused:
\* otherwise the call raises, and nothing else is opened in its place.
open_email_adapter(kind, faults) == IF faults = {} THEN kind ELSE "error"
open_push_adapter(kind, faults) == IF faults = {} THEN kind ELSE "error"

(***************************************************************************)
(* One attempt of an adapter, from the resolution of the recipient to the   *)
(* answer: everything the adapter can see of it.  "unresolved" is a host    *)
(* resolver that raises or gives no usable address: nothing is sent.        *)
(***************************************************************************)
SMTPEmailAdapter == {"unresolved", "accepted", "refused", "status_5xx",
                     "status_4xx", "transport", "quit_5xx"}
HTTPReplies == {"unresolved", "accepted", "http_4xx", "http_429", "http_5xx",
                "invalid", "transport", "protocol"}
\* Postmark and Resend report an error inside a well-formed answer as well.
PostmarkEmailAdapter == HTTPReplies \cup {"error_code"}
ResendEmailAdapter == HTTPReplies \cup {"error_name"}
APNsPushAdapter == HTTPReplies
FCMPushAdapter == HTTPReplies
FixtureEmailAdapter == {"accepted", "bounce", "temporary"}
FixturePushAdapter == {"accepted", "temporary"}
InProcessDeliveryAdapter == {"accepted", "temporary"}

Replies(b) ==
    IF b = "smtp" THEN SMTPEmailAdapter
    ELSE IF b = "postmark" THEN PostmarkEmailAdapter
    ELSE IF b = "resend" THEN ResendEmailAdapter
    ELSE IF b = "apns" THEN APNsPushAdapter
    ELSE IF b = "fcm" THEN FCMPushAdapter
    ELSE IF b = "fixture_email" THEN FixtureEmailAdapter
    ELSE IF b = "fixture_push" THEN FixturePushAdapter
    ELSE InProcessDeliveryAdapter

\* Did the provider take the message?  The answer may be lost, or unreadable,
\* after it was taken; SMTP's QUIT may fail after the message was accepted.
MayHaveTaken(reply) ==
    IF reply \in {"accepted", "quit_5xx"} THEN {TRUE}
    ELSE IF reply \in {"http_5xx", "invalid", "transport", "protocol"}
           THEN BOOLEAN
    ELSE {FALSE}

\* What the adapter reports: refused recipient, refused sender, failed login,
\* SMTP statuses from 500 up, HTTP 4xx except 429, and an error in the answer
\* are permanent.  An exception of http.client (a malformed status line) is
\* none of the types the HTTP adapters catch, and passes through them.
Verdict_Unread(reply) ==
    IF reply \in {"accepted", "invalid"} THEN "success"
    ELSE IF reply \in {"unresolved", "refused", "status_5xx", "quit_5xx",
                       "http_4xx", "error_code", "error_name", "bounce"}
           THEN "permanent"
    ELSE IF reply = "protocol" THEN "raises"
    ELSE "temporary"
Verdict(reply) ==
    IF reply = "accepted" THEN "success"
    ELSE IF reply \in {"unresolved", "refused", "status_5xx", "quit_5xx",
                       "http_4xx", "error_code", "error_name", "bounce"}
           THEN "permanent"
    ELSE IF reply = "protocol" THEN "raises"
    ELSE "temporary"
=============================================================================
