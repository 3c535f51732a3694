---------------------------- MODULE MailTemplates ----------------------------
(***************************************************************************)
(* The mails the platform writes: what NotificationService supplies for    *)
(* each template, what the templates in code print, what the Handlebars    *)
(* templates seeded into the database print, and the mails that are sent   *)
(* without the queue.  A field is its name, the wording and the layout are *)
(* left out.                                                               *)
(***************************************************************************)
EXTENDS FiniteSets

\* CRITICAL_TEMPLATES, and the preference that switches a template off
CRITICAL_TEMPLATES == {
    "grace-period-start", "grace-period-warning", "auto-suspended", "admin-suspended", "admin-reactivated",
    "password-reset", "welcome", "account-deletion-requested", "account-deletion-cancelled",
    "account-deletion-completed"}

PREF_MAP == [
    billing_low_balance |-> {"low-balance", "credits-depleted"},
    billing_auto_topup |-> {"auto-topup-success", "auto-topup-failed"},
    billing_receipts |-> {"credit-purchase-receipt", "crypto-payment-confirmed", "credits-granted", "dividend-weekly-digest"},
    agent_channel_disconnect |-> {"channel-disconnected"},
    agent_status_changes |-> {"agent-created", "channel-connected", "agent-suspended"},
    account_role_changes |-> {"role-changed"},
    account_team_invites |-> {"team-invite"},
    fleet_updates |-> {"fleet-update-available", "fleet-update-complete"}]

-----------------------------------------------------------------------------
\* What NotificationService enqueues; enqueue adds the brand's name to each.

CreditMails == [m \in {"low-balance", "credits-depleted", "grace-period-start", "grace-period-warning",
                       "auto-suspended", "auto-topup-success", "auto-topup-failed"} |->
    {"email", "creditsUrl"} \cup
    CASE m = "low-balance" -> {"balanceDollars", "estimatedDaysRemaining"}
      [] m = "grace-period-start" -> {"balanceDollars", "graceDays"}
      [] m = "auto-suspended" -> {"reason"}
      [] m = "auto-topup-success" -> {"amountDollars", "newBalanceDollars"}
      [] OTHER -> {}]

PaymentMails == [m \in {"affiliate-credit-match", "dispute-created", "dispute-won", "dispute-lost", "spend-alert",
                        "credit-purchase-receipt", "dividend-weekly-digest", "crypto-payment-confirmed"} |->
    {"email"} \cup (IF m = "crypto-payment-confirmed" THEN {} ELSE {"creditsUrl"}) \cup
    CASE m \in {"affiliate-credit-match"} -> {"amountDollars"}
      [] m = "dispute-created" -> {"disputeId", "amountDollars", "reason"}
      [] m \in {"dispute-won", "dispute-lost"} -> {"disputeId", "amountDollars"}
      [] m = "spend-alert" -> {"currentSpendDollars", "alertAtDollars"}
      [] m \in {"credit-purchase-receipt", "crypto-payment-confirmed"} -> {"amountDollars", "newBalanceDollars"}
      [] OTHER -> {"weeklyTotalDollars", "weeklyTotalCents", "lifetimeTotalDollars", "distributionCount",
                   "poolAvgCents", "activeUsersAvg", "nextDividendDate", "weekStartDate", "weekEndDate",
                   "unsubscribeUrl"}]

AccountMails == [m \in {"admin-suspended", "admin-reactivated", "credits-granted", "role-changed", "team-invite",
                        "agent-created", "channel-connected", "channel-disconnected", "agent-suspended",
                        "account-deletion-requested", "account-deletion-cancelled", "account-deletion-completed"} |->
    {"email"} \cup
    CASE m = "admin-suspended" -> {"reason"}
      [] m = "credits-granted" -> {"amountDollars", "reason"}
      [] m = "role-changed" -> {"newRole"}
      [] m = "team-invite" -> {"tenantName", "inviteUrl"}
      [] m = "agent-created" -> {"agentName"}
      [] m = "channel-connected" -> {"channelName", "agentName"}
      [] m = "channel-disconnected" -> {"channelName", "agentName", "reason"}
      [] m = "agent-suspended" -> {"agentName", "reason"}
      [] m = "account-deletion-requested" -> {"deleteAfterDate", "cancelUrl"}
      [] OTHER -> {}]

FleetMails == [m \in {"fleet-update-available", "fleet-update-complete", "custom"} |->
    {"email"} \cup
    CASE m = "fleet-update-available" -> {"version", "changelogDate", "changelogSummary", "fleetUrl"}
      [] m = "fleet-update-complete" -> {"version", "succeeded", "failed", "total", "fleetUrl"}
      [] OTHER -> {"subject", "bodyText"}]

Mails == DOMAIN CreditMails \cup DOMAIN PaymentMails \cup DOMAIN AccountMails \cup DOMAIN FleetMails

\* NotificationService's methods
notify(m) ==
    {"brandName"} \cup
    CASE m \in DOMAIN CreditMails -> CreditMails[m]
      [] m \in DOMAIN PaymentMails -> PaymentMails[m]
      [] m \in DOMAIN AccountMails -> AccountMails[m]
      [] OTHER -> FleetMails[m]

-----------------------------------------------------------------------------
\* The templates in code: the fields that are printed as they are, without a
\* default of their own; a template that is in none of them throws.

CreditTexts == [m \in {"credits-depleted", "grace-period-start", "grace-period-warning", "auto-suspended",
                       "auto-topup-success", "auto-topup-failed", "crypto-payment-confirmed"} |->
    CASE m = "grace-period-start" -> {"balanceDollars"}
      [] m = "auto-suspended" -> {"reason"}
      [] m \in {"auto-topup-success", "crypto-payment-confirmed"} -> {"amountDollars", "newBalanceDollars"}
      [] OTHER -> {}]

AccountTexts == [m \in {"admin-suspended", "admin-reactivated", "credits-granted", "role-changed", "team-invite",
                        "agent-created", "channel-connected"} |->
    CASE m = "admin-suspended" -> {"reason"}
      [] m = "credits-granted" -> {"amountDollars"}
      [] m = "role-changed" -> {"newRole"}
      [] m = "team-invite" -> {"tenantName"}
      [] m = "agent-created" -> {"agentName"}
      [] m = "channel-connected" -> {"channelName", "agentName"}
      [] OTHER -> {}]

DeletionTexts == [m \in {"channel-disconnected", "agent-suspended", "account-deletion-requested",
                         "account-deletion-cancelled", "account-deletion-completed"} |->
    CASE m = "channel-disconnected" -> {"channelName", "agentName"}
      [] m = "agent-suspended" -> {"agentName"}
      [] m = "account-deletion-requested" -> {"email", "deleteAfterDate"}
      [] OTHER -> {"email"}]

DigestTexts == [m \in {"dividend-weekly-digest", "custom"} |->
    IF m = "custom" THEN {}
    ELSE {"weeklyTotalDollars", "weekStartDate", "weekEndDate", "lifetimeTotalDollars", "nextDividendDate"}]

PlainTexts == [m \in {"affiliate-credit-match", "spend-alert", "fleet-update-available", "fleet-update-complete"} |->
    CASE m = "affiliate-credit-match" -> {"amountDollars"}
      [] m = "spend-alert" -> {"currentSpendDollars", "alertAtDollars"}
      [] OTHER -> {"version"}]

PassedTexts == [m \in {"low-balance", "credit-purchase-receipt", "welcome", "password-reset"} |->
    CASE m = "low-balance" -> {"balanceDollars"}
      [] m = "credit-purchase-receipt" -> {"amountDollars"}
      [] OTHER -> {}]

TextTemplates == DOMAIN CreditTexts \cup DOMAIN AccountTexts \cup DOMAIN DeletionTexts \cup DOMAIN DigestTexts
                 \cup DOMAIN PlainTexts \cup DOMAIN PassedTexts

renderNotificationTemplate(m) ==
    CASE m \in DOMAIN CreditTexts -> CreditTexts[m]
      [] m \in DOMAIN AccountTexts -> AccountTexts[m]
      [] m \in DOMAIN DeletionTexts -> DeletionTexts[m]
      [] m \in DOMAIN DigestTexts -> DigestTexts[m]
      [] m \in DOMAIN PlainTexts -> PlainTexts[m]
      [] OTHER -> PassedTexts[m]

-----------------------------------------------------------------------------
\* The Handlebars templates: the fields outside an {{#if}} of their own.

CreditSeeds == [m \in DOMAIN CreditTexts \ {"crypto-payment-confirmed"} |->
    CASE m = "grace-period-start" -> {"balanceDollars", "graceDays"}
      [] m = "auto-suspended" -> {"reason"}
      [] m = "auto-topup-success" -> {"amountDollars", "newBalanceDollars"}
      [] m = "auto-topup-failed" -> {"supportEmail"}
      [] OTHER -> {}]

AccountSeeds == [m \in DOMAIN AccountTexts \cup {"crypto-payment-confirmed"} |->
    CASE m = "crypto-payment-confirmed" -> {"amountDollars", "newBalanceDollars"}
      [] m = "admin-suspended" -> {"reason", "supportEmail"}
      [] m = "credits-granted" -> {"amountDollars"}
      [] m = "role-changed" -> {"newRole", "supportEmail"}
      [] m = "team-invite" -> {"tenantName"}
      [] m = "agent-created" -> {"agentName"}
      [] m = "channel-connected" -> {"channelName", "agentName"}
      [] OTHER -> {}]

DeletionSeeds == [m \in DOMAIN DeletionTexts \cup {"dividend-weekly-digest"} |->
    CASE m = "channel-disconnected" -> {"channelName", "agentName"}
      [] m = "agent-suspended" -> {"agentName", "supportEmail"}
      [] m = "account-deletion-requested" -> {"deleteAfterDate", "email", "supportEmail"}
      [] m = "account-deletion-cancelled" -> {"email", "supportEmail"}
      [] m = "account-deletion-completed" -> {"email"}
      [] OTHER -> {"weeklyTotalDollars", "lifetimeTotalDollars", "distributionCount", "activeUsersAvg",
                   "poolAvgDollars", "nextDividendDate", "weekStartDate", "weekEndDate"}]

PassedSeeds == [m \in DOMAIN PlainTexts \cup DOMAIN PassedTexts \cup {"custom"} |->
    CASE m = "affiliate-credit-match" -> {"amountDollars"}
      [] m = "spend-alert" -> {"alertAtDollars", "currentSpendDollars"}
      [] m = "custom" -> {"bodyText", "bodyTextHtml", "subject"}
      [] m = "low-balance" -> {"balanceDollars"}
      [] m = "credit-purchase-receipt" -> {"amountDollars"}
      [] m \in {"welcome", "password-reset"} -> {}
      [] m = "fleet-update-available" -> {"version"}
      [] OTHER -> {"version", "succeeded", "failed", "total"}]

DEFAULT_TEMPLATES == DOMAIN CreditSeeds \cup DOMAIN AccountSeeds \cup DOMAIN DeletionSeeds \cup DOMAIN PassedSeeds

\* HandlebarsRenderer.render prints a missing field as nothing.
renderSeeded(m) ==
    {"brandName"} \cup
    CASE m \in DOMAIN CreditSeeds -> CreditSeeds[m]
      [] m \in DOMAIN AccountSeeds -> AccountSeeds[m]
      [] m \in DOMAIN DeletionSeeds -> DeletionSeeds[m]
      [] OTHER -> PassedSeeds[m]

-----------------------------------------------------------------------------
\* The mails that go out at once: what BillingEmailService, the hooks of
\* better-auth and the verification route pass.  Without a brand the template
\* falls back on its own.

DirectMails == [m \in {"credit-purchase", "low-balance-warning", "bot-suspended", "bot-destruction", "data-deleted",
                       "verify-email", "reset-password", "welcome-verified"} |->
    {"email"} \cup
    CASE m = "credit-purchase" -> {"amountDollars", "newBalanceDollars", "creditsUrl"}
      [] m = "low-balance-warning" -> {"balanceDollars", "estimatedDaysRemaining", "creditsUrl"}
      [] m = "bot-suspended" -> {"botName", "reason", "creditsUrl"}
      [] m = "bot-destruction" -> {"botName", "daysRemaining", "creditsUrl"}
      [] m = "data-deleted" -> {"creditsUrl"}
      [] m = "verify-email" -> {"verifyUrl", "brandName"}
      [] m = "reset-password" -> {"resetUrl", "brandName"}
      [] OTHER -> {}]

SignupTexts == [m \in {"verify-email", "welcome-verified", "reset-password"} |->
    {"email"} \cup CASE m = "verify-email" -> {"verifyUrl"} [] m = "reset-password" -> {"resetUrl"} [] OTHER -> {}]

PurchaseTexts == [m \in {"credit-purchase", "low-balance-warning"} |->
    {"email", IF m = "credit-purchase" THEN "amountDollars" ELSE "balanceDollars"}]

SuspensionTexts == [m \in {"bot-suspended", "bot-destruction", "data-deleted"} |->
    {"email"} \cup CASE m = "bot-suspended" -> {"botName", "reason"}
                     [] m = "bot-destruction" -> {"botName", "daysRemaining"}
                     [] OTHER -> {}]

renderDirect(m) ==
    CASE m \in DOMAIN SignupTexts -> SignupTexts[m]
      [] m \in DOMAIN PurchaseTexts -> PurchaseTexts[m]
      [] OTHER -> SuspensionTexts[m]

-----------------------------------------------------------------------------
\* The transports: what send may end with.

SesTransport == {"sent", "throws"}
PostmarkTransport == {"sent", "throws"}     \* an ErrorCode other than 0 throws
ResendTransport == {"sent", "throws"}       \* so does an error of the API
NoopTransport == {"sent"}

\* The first backend that the environment configures; without one every call
\* throws before it sends.
getEmailClient(env) ==
    IF "EMAIL_DISABLED" \in env THEN NoopTransport
    ELSE IF "AWS_SES_REGION" \in env THEN SesTransport
    ELSE IF "POSTMARK_API_KEY" \in env THEN PostmarkTransport
    ELSE IF "RESEND_API_KEY" \in env THEN ResendTransport
    ELSE {}
=============================================================================
