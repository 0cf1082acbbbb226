---------------------------- MODULE CardNumbers ----------------------------
(***************************************************************************)
(* What SanitizeJSON makes of one value, for the payloads it is given and  *)
(* for the rows that are decoded from what it returns.                     *)
(*                                                                         *)
(* A value is its type and what it holds.  A text, or a number as it is    *)
(* written, that may be taken for a card number is one of its kinds: "pan" *)
(* and "grouped" are a card number plain and printed in groups, "last4"    *)
(* what is kept of either, "reference" any other long text and "tail" the  *)
(* end of it.  A key, and the name of a method, stands for its spellings.  *)
(***************************************************************************)
Raw(json, content) == [json |-> json, content |-> content]

isScalar(raw) == raw.json \notin {"object", "array"}

isText(raw) == raw.json \in {"string", "number"}

-----------------------------------------------------------------------------
lastFourText(content) ==
  CASE content \in {"pan", "grouped"} -> "last4"
    [] content = "reference"          -> "tail"
    [] OTHER                          -> content

lastFour(raw) == Raw("string", lastFourText(raw.content))

looksLikeCardNumber(content, grouped) ==
  \/ content = "pan"
  \/ grouped /\ content = "grouped"

(* mask: "off", "unknown" or "card". *)
sanitizeScalar(raw, mask) ==
  IF /\ mask # "off" /\ isText(raw)
     /\ looksLikeCardNumber(raw.content, mask = "card" /\ raw.json = "string")
  THEN lastFour(raw) ELSE raw

maskPaymentInfoScalar(raw, context) ==
  IF context = "card" \/ looksLikeCardNumber(raw.content, FALSE) THEN lastFour(raw) ELSE raw

(* Under the key of a card number, where an object or an array is printed. *)
sanitizeCardNumber(raw) == IF isScalar(raw) THEN lastFour(raw) ELSE Raw("string", "tail")

-----------------------------------------------------------------------------
(***************************************************************************)
(* What one key of an object says of its method, for paymentContextOf.     *)
(***************************************************************************)
CardPurposes == {"token", "schedule_subscription", "subscription_card_changed"}
CardMethods  == {"card", "applepay"}
MethodKeys   == {"paymentmethod", "method"}

SaysCard(key, raw) ==
  /\ raw.json = "string"
  /\ \/ key = "purpose" /\ raw.content \in CardPurposes
     \/ key \in MethodKeys /\ raw.content \in CardMethods

SaysOther(key, raw) ==
  raw.json = "string" /\ key \in MethodKeys /\ raw.content \notin CardMethods \cup {""}
=============================================================================
