------------------------- MODULE SubscriptionEvents -------------------------
(***************************************************************************)
(* How the Subscription API client reads one notification: a signature     *)
(* that may come from either of two secrets, an event with an ID of its    *)
(* own, and in its data the two objects Oen documents.                     *)
(***************************************************************************)
EXTENDS WebhookEvents

(* Strings are handed back as they came: white space alone is a text.      *)
readsAsString(value) == isNullRaw(value) \/ value.type = "string"

isNonemptyString(value) == value.type = "string" /\ (value.text # "" \/ value.padded)

optionalString(value) ==
  IF value.type = "string" THEN value ELSE String("")

(* Slip: the error of ParseInt is dropped. *)
readsAsWhole_always(value) == TRUE

readsAsWhole(value) ==
  isNullRaw(value) \/ (value.type = "number" /\ value.text = "whole")

(* A string is empty or an RFC 3339 time, a number is whole seconds.       *)
readsAsTime(value) ==
  \/ value.type = "string" /\ value.text \in {"", "time"}
  \/ readsAsWhole(value)

(* What ParseInt returns, 0 next to an error. *)
wholeOf(value) ==
  IF value.type = "number" /\ value.text = "whole" THEN value ELSE JSON("number", "0", FALSE)

(* An object of the data: its JSON type, and its fields if it is one.      *)
Object(fields) == [type |-> "object", fields |-> fields]
NoObject(type) == [type |-> type, fields |-> <<>>]

decodesSubscription(object) ==
  /\ object.type = "object"
  /\ readsAsString(object.fields.id) /\ readsAsString(object.fields.status)
  /\ readsAsTime(object.fields.nextChargeAt)

decodesPaymentDetail(object) ==
  /\ object.type = "object"
  /\ readsAsWhole(object.fields.amount) /\ readsAsString(object.fields.currency)

decodesData(data) ==
  \/ isNullRaw(data)
  \/ /\ data.type = "object"
     /\ \/ isNullRaw(data.fields.subscription)
        \/ decodesSubscription(data.fields.subscription)
     /\ \/ isNullRaw(data.fields.paymentDetail)
        \/ decodesPaymentDetail(data.fields.paymentDetail)

decodesEvent(body) ==
  /\ body.isObject
  /\ isNonemptyString(body.fields["id"]) /\ isNonemptyString(body.fields["type"])
  /\ readsAsTime(body.fields["created"])
  /\ decodesData(body.data)

Part(data, name) ==
  IF isNullRaw(data) \/ isNullRaw(data.fields[name]) THEN NoObject("absent")
  ELSE data.fields[name]

decodeEvent(body) ==
  LET subscription == Part(body.data, "subscription")
      detail       == Part(body.data, "paymentDetail")
  IN [EventID |-> [id |-> body.fields["id"]],
      Type |-> body.fields["type"],
      Subscription |->
        IF subscription.type = "absent" THEN NoObject("absent")
        ELSE Object([ID |-> optionalString(subscription.fields.id),
                     Status |-> optionalString(subscription.fields.status)]),
      PaymentDetail |->
        IF detail.type = "absent" THEN NoObject("absent")
        ELSE Object([Amount |-> wholeOf(detail.fields.amount),
                     Currency |-> optionalString(detail.fields.currency)])]

-----------------------------------------------------------------------------
(* Slip: the newest signature is the one to compare with. *)
VerifySignature_firstOnly(body, signature, secret, now) ==
  /\ secret # NoSecret
  /\ signature.signed
  /\ withinTolerance(signature.t, now)
  /\ signature.v1[1] = MAC(secret, signature.t, body)

(* A secret that does not look like one is no secret.                      *)
VerifySignature(body, signature, secret, now) ==
  /\ secret # NoSecret
  /\ signature.signed
  /\ withinTolerance(signature.t, now)
  /\ Signs(signature, secret, body)

Verify(body, signature, secret, now) ==
  IF ~ VerifySignature(body, signature, secret, now) THEN "InvalidSignature"
  ELSE IF decodesEvent(body) THEN "verified"
  ELSE "InvalidEvent"
=============================================================================
