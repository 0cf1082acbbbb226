----------------------------- MODULE Redaction -----------------------------
(***************************************************************************)
(* SanitizeJSON: what is taken out of a payload before anybody gets it.    *)
(* Secrets go, card numbers keep their last four digits, and inside a      *)
(* paymentInfo everything that looks like a card number counts as one,     *)
(* unless the payload names a method without cards.                        *)
(*                                                                         *)
(* A payload is its nodes by their paths: the keys, and the places in      *)
(* arrays, that lead to them.  An object or an array holds nothing itself. *)
(***************************************************************************)
EXTENDS Integers, FiniteSetsExt, SequencesExt, CardNumbers

CONSTANTS
  Payloads,  \* JSON values
  Orders     \* orders in which a map may be ranged over, as sequences of keys

VARIABLES payload, order, clean

redactionVars == <<payload, order, clean>>

(* Every node but the first is in an object or an array, and an order has  *)
(* every key.                                                              *)
ASSUME PayloadAssumption ==
  /\ Orders \subseteq Seq(STRING)
  /\ \A tree \in Payloads :
       /\ <<>> \in DOMAIN tree
       /\ \A path \in DOMAIN tree \ {<<>>} :
            /\ path \in Seq(STRING)
            /\ Front(path) \in DOMAIN tree /\ ~ isScalar(tree[Front(path)])
            /\ tree[Front(path)].json = "object" => \A keys \in Orders : Last(path) \in Range(keys)

ObjectPaths(tree) == {path \in DOMAIN tree : tree[path].json = "object"}

(* An element of an array has no key. *)
keyOf(tree, path) ==
  IF path # <<>> /\ Front(path) \in ObjectPaths(tree) THEN Last(path) ELSE ""

SecretKeys     == {"token", "cvv"}
CardNumberKeys == {"cardnum"}

Redacted == Raw("string", "REDACTED")

-----------------------------------------------------------------------------
(***************************************************************************)
(* paymentContextOf: the keys in whatever order the map gives them.        *)
(***************************************************************************)
(* Slip: the first method named is the one. *)
paymentContextOf_first(tree, path, keys) ==
  LET context[k \in 0..Len(keys)] ==
        IF k = 0 THEN "unknown"
        ELSE LET child == Append(path, keys[k]) IN
             IF context[k - 1] # "unknown" \/ child \notin DOMAIN tree THEN context[k - 1]
             ELSE IF SaysCard(keys[k], tree[child]) THEN "card"
             ELSE IF SaysOther(keys[k], tree[child]) THEN "other" ELSE context[k - 1]
  IN context[Len(keys)]

(* A card is a card whatever comes next; another method may still become   *)
(* one.                                                                    *)
paymentContextOf(tree, path, keys) ==
  LET context[k \in 0..Len(keys)] ==
        IF k = 0 THEN "unknown"
        ELSE LET child == Append(path, keys[k]) IN
             IF context[k - 1] = "card" \/ child \notin DOMAIN tree THEN context[k - 1]
             ELSE IF SaysCard(keys[k], tree[child]) THEN "card"
             ELSE IF SaysOther(keys[k], tree[child]) THEN "other" ELSE context[k - 1]
  IN context[Len(keys)]

-----------------------------------------------------------------------------
(***************************************************************************)
(* sanitizeNode, by the path it is called for.                             *)
(***************************************************************************)
(* Slip: a paymentInfo is one of a card whatever method is named. *)
maskBelow_always(context, mask, key) ==
  IF key # "paymentinfo" THEN mask
  ELSE IF context = "card" THEN "card" ELSE "unknown"

maskBelow(context, mask, key) ==
  IF key # "paymentinfo" \/ context = "other" THEN mask
  ELSE IF context = "card" THEN "card" ELSE "unknown"

Above(path, i) == SubSeq(path, 1, i - 1)

(* The mask sanitizeNode is handed from level to level, down to path. *)
maskAt(tree, path, orders) ==
  LET mask[i \in 0..Len(path)] ==
        IF i = 0 THEN "off"
        ELSE LET above == Above(path, i) IN
             IF above \notin ObjectPaths(tree) THEN mask[i - 1]
             ELSE maskBelow(paymentContextOf(tree, above, orders[above]), mask[i - 1], path[i])
  IN mask[Len(path)]

IsMaskedInfo(tree, path, orders) ==
  /\ keyOf(tree, path) = "paymentinfo" /\ isText(tree[path])
  /\ paymentContextOf(tree, Front(path), orders[Front(path)]) # "other"

sanitizeNode(tree, path, orders) ==
  LET key  == keyOf(tree, path)
      node == tree[path]
  IN IF key \in SecretKeys THEN Redacted
     ELSE IF key \in CardNumberKeys THEN sanitizeCardNumber(node)
     ELSE IF IsMaskedInfo(tree, path, orders)
     THEN maskPaymentInfoScalar(node, paymentContextOf(tree, Front(path), orders[Front(path)]))
     ELSE sanitizeScalar(node, maskAt(tree, path, orders))

(* Nothing is left below a secret or a card number. *)
IsReached(tree, path) ==
  \A i \in 1..Len(path) - 1 :
    keyOf(tree, SubSeq(path, 1, i)) \notin SecretKeys \cup CardNumberKeys

SanitizeJSON(tree, orders) ==
  [path \in {p \in DOMAIN tree : IsReached(tree, p)} |-> sanitizeNode(tree, path, orders)]

-----------------------------------------------------------------------------
NoPayload == <<>>

(* Every map is ranged over in an order of its own. *)
RedactionInit ==
  /\ payload \in Payloads
  /\ order \in [ObjectPaths(payload) -> Orders]
  /\ clean = NoPayload

Sanitize ==
  /\ payload # NoPayload /\ clean = NoPayload
  /\ clean' = SanitizeJSON(payload, order)
  /\ UNCHANGED <<payload, order>>

RedactionSpec == RedactionInit /\ [][Sanitize]_redactionVars

-----------------------------------------------------------------------------
(***************************************************************************)
(* What a payload says of a path, in no order.                             *)
(***************************************************************************)
KeysAt(path) == {Last(child) : child \in {c \in DOMAIN payload \ {<<>>} : Front(c) = path}}

Says(path) ==
  IF \E key \in KeysAt(path) : SaysCard(key, payload[Append(path, key)]) THEN "card"
  ELSE IF \E key \in KeysAt(path) : SaysOther(key, payload[Append(path, key)]) THEN "other"
  ELSE "unknown"

Hidden(path) ==
  \E i \in DOMAIN path : keyOf(payload, SubSeq(path, 1, i)) \in SecretKeys \cup CardNumberKeys

(* The paymentInfos a path goes through, where no other method is named. *)
CardPlaces(path) ==
  {i \in DOMAIN path :
     keyOf(payload, SubSeq(path, 1, i)) = "paymentinfo" /\ Says(Above(path, i)) # "other"}

(* The innermost says how much is taken out; what it is itself, if a card  *)
(* is named, always is.                                                    *)
MustGo(path) ==
  /\ CardPlaces(path) # {}
  /\ LET place  == Max(CardPlaces(path))
         isCard == Says(Above(path, place)) = "card"
         node   == payload[path]
     IN /\ isText(node)
        /\ \/ node.content = "pan"
           \/ isCard /\ node.content = "grouped" /\ node.json = "string"
           \/ isCard /\ place = Len(path)

(* No secret and no card number survives: not under its own key, and not   *)
(* anywhere below a paymentInfo, unless the object that holds it names a   *)
(* method without cards and no card, in whatever order its keys come.      *)
NothingSecretSurvives ==
  clean # NoPayload =>
    \A path \in DOMAIN clean :
      LET key  == keyOf(payload, path)
          left == clean[path]
      IN /\ key \in SecretKeys => left = Redacted
         /\ key \in CardNumberKeys => isScalar(left) /\ left.content \notin {"pan", "grouped"}
         /\ MustGo(path) => left.content \notin {"pan", "grouped", "reference"}

(* Everything else survives as it was sent: a reference of another method  *)
(* too, even one that looks like a card number.                            *)
ReferencesSurvive ==
  clean # NoPayload =>
    \A path \in DOMAIN payload :
      ~ Hidden(path) =>
        /\ path \in DOMAIN clean
        /\ IF isScalar(payload[path]) /\ ~ MustGo(path) THEN clean[path] = payload[path]
           ELSE isScalar(payload[path]) <=> isScalar(clean[path])
=============================================================================
