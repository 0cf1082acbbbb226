-------------------------- MODULE MCWebhookIntake --------------------------
EXTENDS WebhookIntake, TLC

CONSTANTS e1, e2

Blank == [f \in Fields |-> Absent]

MCBody(fields) ==
  [api |-> "payment", isObject |-> TRUE, detailReadable |-> TRUE, fields |-> fields @@ Blank]

Padded(text) == JSON("string", text, TRUE)

(* A charge that is under way and the same charge with its outcome, a      *)
(* binding that failed though it carries a token, one that succeeded.      *)
Charging ==
  MCBody([purpose |-> String("charge"), merchantId |-> String("m"), id |-> Padded("tx"),
          status |-> String("charging")])
Charged ==
  MCBody([purpose |-> String("charge"), merchantId |-> String("m"), id |-> Padded("tx"),
          status |-> String("charged"), success |-> Boolean(TRUE)])
Bound(ok) ==
  MCBody([purpose |-> String("token"), merchantId |-> String("m"), id |-> String("b"),
          success |-> Boolean(ok), token |-> String("card")])
Refund == MCBody([purpose |-> String("refund"), id |-> String("r")])

(* A notification of another merchant, a purpose to skip with a number     *)
(* where others have a text, a binding whose token is missing.             *)
OtherMerchant ==
  MCBody([purpose |-> String("charge"), merchantId |-> String("other"), id |-> String("tx")])
Payout ==
  MCBody([purpose |-> String("payout"), id |-> String("p"),
          status |-> JSON("number", "infinite", FALSE)])
NoToken ==
  MCBody([purpose |-> String("token"), merchantId |-> String("m"), id |-> String("b"),
          success |-> Boolean(TRUE)])

(* A renewal, its refund, one whose amount is a text, one without an ID,   *)
(* and a type nobody knows yet.                                            *)
Whole == JSON("number", "whole", FALSE)

MCDetail(amount) == Object([amount |-> amount, currency |-> String("TWD")])
MCSubscription(status) ==
  Object([id |-> String("sub"), status |-> status, nextChargeAt |-> String("time")])

SubscriptionBody(id, type, data) ==
  [api |-> "subscription", isObject |-> TRUE, data |-> data,
   fields |-> [id |-> id, type |-> String(type), created |-> Whole]]

Renewed(id, amount) ==
  SubscriptionBody(String(id), "subscription_renewed",
    Object([subscription |-> MCSubscription(String("active")),
            paymentDetail |-> MCDetail(amount)]))
Refunded ==
  SubscriptionBody(String("evt2"), "subscription_payment_refunded",
    Object([subscription |-> MCSubscription(Null), paymentDetail |-> MCDetail(Whole)]))
NoID == SubscriptionBody(Null, "customer_updated", Null)
Future == SubscriptionBody(String("evt3"), "subscription_future_thing", Null)

MCBodies ==
  {Charging, Charged, Bound(FALSE), Bound(TRUE), Refund, OtherMerchant, Payout, NoToken,
   Renewed("evt1", Whole), Renewed("evt4", String("299")), Refunded, NoID, Future}

MCDeliveries == {<<e1, 1>>, <<e1, 2>>, <<e2, 1>>}

MCReencodings == {Charged, Refunded}

MCSkews == {0, -1}

(* Two events of one transaction or of one subscription, or others two by  *)
(* two, with one secret; or one event while the secret is replaced.        *)
TwoEvents ==
  /\ lastSecret = 1
  /\ \A d \in Deliveries : stage[d] = "unsent"
  /\ \/ <<body[e1], body[e2]>> = <<Charging, Charged>> /\ (idSent => skew = 0)
     \/ <<body[e1], body[e2]>> = <<Bound(FALSE), Bound(TRUE)>> /\ ~ idSent /\ skew = 0
     \/ <<body[e1], body[e2]>> = <<Payout, OtherMerchant>> /\ idSent /\ skew = 0
     \/ <<body[e1], body[e2]>> = <<Renewed("evt1", Whole), Refunded>> /\ skew = 0

OneEvent ==
  /\ lastSecret = 2
  /\ \A d \in Deliveries : stage[d] = IF d[1] = e1 THEN "unsent" ELSE "gone"
  /\ body[e1] = body[e2]
  /\ \/ body[e1] \in {Refund, Future}
     \/ body[e1] \in {Renewed("evt4", String("299")), NoID, NoToken} /\ skew = 0

MCInit == Init /\ (TwoEvents \/ OneEvent)

MCSpec == MCInit /\ [][Next]_intakeVars /\ Fairness
=============================================================================
