--------------------------- MODULE WebhookEvents ---------------------------
(***************************************************************************)
(* How the Payment API client reads one payment notification: the          *)
(* signature over the raw body, the fields each purpose must carry, and    *)
(* the event ID receivers deduplicate by.                                  *)
(*                                                                         *)
(* A body is the JSON values of the fields a decision looks at.  A string  *)
(* is its text without surrounding white space, and whether it had any.    *)
(* The fields that are only decoded (amounts, dates, items) count as one:  *)
(* readable or not.                                                        *)
(***************************************************************************)
EXTENDS Integers, FiniteSets

CONSTANTS
  MerchantID,   \* the merchant the client is configured for
  Tolerance     \* Config.WebhookTolerance, in ticks of the clock

ASSUME ToleranceAssumption == Tolerance \in Nat

JSON(type, text, padded) == [type |-> type, text |-> text, padded |-> padded]
Absent     == JSON("absent", "", FALSE)
Null       == JSON("null", "", FALSE)
String(t)  == JSON("string", t, FALSE)
Boolean(b) == JSON("boolean", IF b THEN "true" ELSE "false", FALSE)

isNullRaw(value) == value.type \in {"absent", "null"}

(* requiredWebhookString: not a string, or nothing but white space, is an  *)
(* error; the text it returns is trimmed.                                  *)
isRequiredString(value) == value.type = "string" /\ value.text # ""

-----------------------------------------------------------------------------
(***************************************************************************)
(* Purposes.                                                               *)
(***************************************************************************)
invoiceRequiredFields ==
  {"merchantId", "id", "chargeId", "invoiceNumber", "invoiceStatus", "invoiceDate",
   "randomNumber", "invoiceAmount", "createdAt"}

webhookRequiredFields ==
  [charge                    |-> {"merchantId", "id"},
   token                     |-> {"merchantId", "id", "success"},
   schedule_subscription     |-> {"merchantId", "id", "success", "subscriptionId"},
   subscription_card_changed |-> {"merchantId", "id", "success", "status", "subscriptionId"},
   refund                    |-> {"id"},
   subscription_cancelled    |-> {"id"},
   subscription_retry        |-> {"id"},
   invoice_issued            |-> invoiceRequiredFields,
   invoice_voided            |-> invoiceRequiredFields]

Known(purpose) == purpose \in DOMAIN webhookRequiredFields

IdentityFields == {"purpose", "merchantId", "id", "status", "success"}

Fields == IdentityFields \cup invoiceRequiredFields \cup {"subscriptionId", "token"}

purposeOf(body) == body.fields["purpose"].text

(* success must be there, invoiceAmount may be null but not left out, the  *)
(* others are nonempty strings.                                            *)
MissingField(body, field) ==
  LET value == body.fields[field] IN
  CASE field = "success"       -> isNullRaw(value)
    [] field = "invoiceAmount" -> value.type = "absent"
    [] OTHER                   -> ~ isRequiredString(value)

NamesOtherMerchant(body) ==
  LET value == body.fields["merchantId"] IN
  ~ isNullRaw(value) /\ (~ isRequiredString(value) \/ value.text # MerchantID)

hasOutcome(body) == body.fields["success"].type = "boolean"

success(body) == hasOutcome(body) /\ body.fields["success"].text = "true"

(* What only a purpose this version documents can get wrong. *)
KnownPurposeError(body) ==
  \/ \E field \in webhookRequiredFields[purposeOf(body)] : MissingField(body, field)
  \/ LET status == body.fields["status"]
     IN ~ isNullRaw(status) /\ ~ isRequiredString(status)
  \/ ~ isNullRaw(body.fields["success"]) /\ ~ hasOutcome(body)
  \/ purposeOf(body) = "token" /\ success(body) /\ ~ isRequiredString(body.fields["token"])
  \/ ~ body.detailReadable

-----------------------------------------------------------------------------
(***************************************************************************)
(* The event ID: a digest of the five identity values as they were sent,   *)
(* with null for one that is absent or not a finite number.  The digest is *)
(* taken to be one to one.                                                 *)
(***************************************************************************)
HasNoIdentity(body) == \E field \in IdentityFields : body.fields[field].type = "object"

IdentityValue(value) ==
  IF isNullRaw(value) \/ value = JSON("number", "infinite", FALSE) THEN Null ELSE value

(* Slip: a transaction has one ID, whatever became of it. *)
webhookEventID_withoutOutcome(body) ==
  [field \in {"purpose", "merchantId", "id"} |-> IdentityValue(body.fields[field])]

webhookEventID(body) == [field \in IdentityFields |-> IdentityValue(body.fields[field])]

-----------------------------------------------------------------------------
(***************************************************************************)
(* ParseWebhook.                                                           *)
(***************************************************************************)
Unreadable(body) ==
  \/ ~ body.isObject
  \/ ~ isRequiredString(body.fields["purpose"])
  \/ NamesOtherMerchant(body)
  \/ Known(purposeOf(body)) /\ KnownPurposeError(body)
  \/ HasNoIdentity(body)

(* Slip: the token is handed back whenever there is one. *)
tokenOf_always(body) ==
  IF purposeOf(body) = "token" /\ isRequiredString(body.fields["token"])
  THEN body.fields["token"].text ELSE ""

(* Only a binding that succeeded hands its token back. *)
tokenOf(body) ==
  IF purposeOf(body) = "token" /\ success(body) THEN body.fields["token"].text ELSE ""

ParsedEvent(body) ==
  [EventID |-> webhookEventID(body), Purpose |-> purposeOf(body),
   ID |-> body.fields["id"].text, Status |-> body.fields["status"].text,
   HasOutcome |-> hasOutcome(body), Success |-> success(body), Token |-> tokenOf(body)]

TokenBound(event) ==
  event.Purpose = "token" /\ event.HasOutcome /\ event.Success /\ event.Token # ""

ChargeSucceeded(event) ==
  event.Purpose = "charge" /\ event.HasOutcome /\ event.Success

-----------------------------------------------------------------------------
(***************************************************************************)
(* VerifyWebhook.                                                          *)
(***************************************************************************)
NoSecret == 0

(* The digest of a timestamp and a body under a secret: it matches itself  *)
(* and nothing else.                                                       *)
MAC(secret, t, body) == <<secret, t, body>>

(* One v1 value for each secret, in the order the provider puts them. *)
Signature(secrets, t, body) ==
  [signed |-> TRUE, t |-> t, v1 |-> [i \in DOMAIN secrets |-> MAC(secrets[i], t, body)]]

Signs(signature, secret, body) ==
  \E i \in DOMAIN signature.v1 : signature.v1[i] = MAC(secret, signature.t, body)

(* No header, or one without a timestamp or a v1 value that can be read.   *)
NoSignature == [signed |-> FALSE, t |-> 0, v1 |-> <<>>]

(* Slip: only the past is bounded. *)
withinTolerance_pastOnly(t, now) == now - t <= Tolerance

(* Slip: the edge of the tolerance is outside. *)
withinTolerance_strict(t, now) == now - t < Tolerance /\ now - t > - Tolerance

withinTolerance(t, now) == now - t <= Tolerance /\ now - t >= - Tolerance

SignatureMatches(body, signature, secret, now) ==
  /\ signature.signed
  /\ withinTolerance(signature.t, now)
  /\ Signs(signature, secret, body)

(* sentID: the OenPay-Event-Id header, Null when there is none. *)
ReadVerified(body, sentID) ==
  IF Unreadable(body) THEN "InvalidRequest"
  ELSE IF sentID # Null /\ sentID # webhookEventID(body) THEN "InvalidSignature"
  ELSE "verified"

(* Slip: without a secret there is nothing to verify. *)
VerifyWebhook_secretOptional(body, signature, sentID, secret, now) ==
  IF secret = NoSecret \/ SignatureMatches(body, signature, secret, now)
  THEN ReadVerified(body, sentID) ELSE "InvalidSignature"

VerifyWebhook(body, signature, sentID, secret, now) ==
  IF secret = NoSecret THEN "InvalidInput"
  ELSE IF SignatureMatches(body, signature, secret, now)
  THEN ReadVerified(body, sentID) ELSE "InvalidSignature"
=============================================================================
