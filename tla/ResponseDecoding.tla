-------------------------- MODULE ResponseDecoding --------------------------
(***************************************************************************)
(* What the clients make of the data of a successful response: a page of   *)
(* transactions, of store orders or of the Subscription API's resources,   *)
(* one transaction or one subscription, or the identifier of what was      *)
(* made.  A shape or a value they cannot read is an error, never an empty  *)
(* list and never a zero.                                                  *)
(*                                                                         *)
(* A JSON value is its type and what it holds: trimmed text for a string,  *)
(* a number or a boolean, elements for an array, fields for an object,     *)
(* where a field left out is absent.                                       *)
(***************************************************************************)
EXTENDS Integers, SequencesExt, CardNumbers

CONSTANTS
  Amounts,    \* texts of whole numbers in range, with the number each denotes
  Plain,      \* those written without a fraction and an exponent
  Responses   \* operations with the data they are answered with

VARIABLES
  question,  \* a response
  reading    \* what is made of it, once it is read

decodingVars == <<question, reading>>

AbsentRaw  == Raw("absent", "")
NullRaw    == Raw("null", "")
List(elements)  == [json |-> "array", elements |-> elements]
Struct(fields)  == [json |-> "object", fields |-> fields]

(* The names a list may have, in the order listResources looks for them.   *)
ListKeys == <<"transactions", "items", "data">>

(* The parts of a response that decide: a null has no text, and elements   *)
(* are numbered.                                                           *)
IsToken(raw) == raw.json \in {"absent", "null"} => raw.content = ""

IsList(raw) == raw.json = "array" => raw.elements \in Seq(Range(raw.elements))

IsTransactionPage(data) ==
  /\ IsList(data)
  /\ data.json = "object" =>
       /\ IsToken(data.fields.page)
       /\ \A key \in Range(ListKeys) : IsList(data.fields[key])

ASSUME AmountAssumption == "" \notin DOMAIN Amounts

ASSUME ShapeAssumption ==
  \A response \in Responses :
    /\ response.op = "transactions" => IsTransactionPage(response.data)
    /\ response.op = "storeSubscriptions" /\ response.data.json = "object" =>
         IsList(response.data.fields.subscriptions) /\ IsToken(response.data.fields.page)
    /\ response.op = "resources" =>
         /\ IsList(response.data)
         /\ response.paging.json = "object" => IsToken(response.paging.fields.next)

isNull(raw) == raw.json \in {"absent", "null"}

text(raw) == IF raw.json \in {"string", "number", "boolean"} THEN raw.content ELSE ""

isEmptyString(raw) == raw.json = "string" /\ raw.content = ""

-----------------------------------------------------------------------------
(***************************************************************************)
(* Values: [ok |-> whether there is one, value |-> what it is].            *)
(***************************************************************************)
Read(value) == [ok |-> TRUE, value |-> value]
Failed == [ok |-> FALSE, value |-> 0]

parseAmount(raw) ==
  IF text(raw) \in DOMAIN Amounts THEN Read(Amounts[text(raw)]) ELSE Failed

parseOptionalAmount(raw) == IF isNull(raw) THEN Read(0) ELSE parseAmount(raw)

parseOptionalInt(raw) ==
  IF isNull(raw) \/ isEmptyString(raw) THEN Read(0) ELSE parseAmount(raw)

(* A bare epoch must be a number and whole, a text must be an ISO date. *)
readsTime(raw) ==
  \/ isNull(raw) \/ isEmptyString(raw)
  \/ raw.json = "number" /\ raw.content \in Plain
  \/ raw.json = "string" /\ raw.content = "time"

readsPaymentInfo(raw) ==
  \/ isNull(raw) \/ raw.json = "string"
  \/ raw.json = "object" /\ readsTime(raw.fields.expiredAt)

(* The documented method outranks the one that card, account or store      *)
(* fields suggest.                                                         *)
guessedMethod(info) ==
  CASE info.json # "object"                    -> ""
    [] text(info.fields.method) # ""          -> text(info.fields.method)
    [] \/ text(info.fields.cardNum) # ""
       \/ text(info.fields.cardType) # ""     -> "card"
    [] \/ text(info.fields.account) # ""
       \/ text(info.fields.bankCode) # ""     -> "atm"
    [] \/ text(info.fields.cvsName) # ""
       \/ text(info.fields.code) # ""         -> "cvs"
    [] OTHER                                   -> ""

methodOf(row, info) ==
  IF text(row.paymentMethod) # "" THEN text(row.paymentMethod) ELSE guessedMethod(info)

firstNonEmpty(a, b) == IF a # "" THEN a ELSE b

-----------------------------------------------------------------------------
(***************************************************************************)
(* A transaction is sanitized before it is decoded.  Of what is decoded,   *)
(* that changes the paymentInfo alone: all other keys are above it.        *)
(***************************************************************************)
(* A row may spell its method in a way only the sanitizer knows ("method"),*)
(* and have a purpose, which is not decoded.                               *)
contextOf(row) ==
  IF \/ SaysCard("purpose", row.purpose)
     \/ SaysCard("paymentmethod", row.paymentMethod)
     \/ SaysCard("method", row.method)
  THEN "card"
  ELSE IF SaysOther("paymentmethod", row.paymentMethod) \/ SaysOther("method", row.method)
  THEN "other" ELSE "unknown"

sanitizedInfo(row) ==
  LET info    == row.paymentInfo
      context == contextOf(row)
      mask    == IF context = "other" THEN "off" ELSE context
  IN CASE info.json = "object" ->
            Struct([name \in DOMAIN info.fields |->
              IF name = "cardNum" /\ info.fields[name].json # "absent"
              THEN sanitizeCardNumber(info.fields[name])
              ELSE sanitizeScalar(info.fields[name], mask)])
       [] isText(info) /\ context # "other" -> maskPaymentInfoScalar(info, context)
       [] OTHER -> info

-----------------------------------------------------------------------------
(***************************************************************************)
(* Resources.  An element that is null decodes into one without fields.    *)
(***************************************************************************)
decodeTransaction(element) ==
  LET row    == element.fields
      info   == sanitizedInfo(row)
      id     == firstNonEmpty(text(row.id), text(row.transactionHid))
      amount == parseAmount(row.amount)
      fee    == parseOptionalAmount(row.fee)
      refund == parseOptionalAmount(row.refundAmount)
      period == parseOptionalInt(row.period)
  IN IF /\ element.json = "object"
        /\ id # "" /\ amount.ok /\ fee.ok /\ refund.ok /\ period.ok
        /\ readsPaymentInfo(info)
        /\ readsTime(row.createdAt) /\ readsTime(row.paidAt)
     THEN Read([ID |-> id, Amount |-> amount.value, Fee |-> fee.value,
                RefundAmount |-> refund.value, Period |-> period.value,
                Method |-> methodOf(row, info),
                Text |-> IF info.json = "string" THEN info.content ELSE ""])
     ELSE Failed

decodeSubscription(resource, requireAmount) ==
  LET row     == resource.fields
      amount  == parseOptionalAmount(row.amount)
      period  == parseOptionalInt(row.period)
      periods == parseOptionalInt(row.numberOfPeriods)
  IN IF /\ resource.json = "object" /\ text(row.id) # ""
        /\ requireAmount => ~ isNull(row.amount)
        /\ amount.ok /\ period.ok /\ periods.ok
        /\ readsTime(row.nextChargeAt)
     THEN Read([ID |-> text(row.id), Amount |-> amount.value, HasAmount |-> ~ isNull(row.amount),
                Period |-> period.value, NumberOfPeriods |-> periods.value])
     ELSE Failed

(* Every field is optional, and so is the order of a row that is null. *)
StoreFields ==
  {"id", "totalAmount", "period", "numberOfPeriods", "items", "user", "createdAt"}

decodeStoreSubscription(element) ==
  LET row     == IF isNull(element) THEN [name \in StoreFields |-> AbsentRaw] ELSE element.fields
      amount  == parseOptionalAmount(row.totalAmount)
      period  == parseOptionalInt(row.period)
      periods == parseOptionalInt(row.numberOfPeriods)
  IN IF /\ element.json \in {"object", "null"}
        /\ amount.ok /\ period.ok /\ periods.ok
        /\ isNull(row.items) \/ row.items.json = "array"
        /\ isNull(row.user) \/ row.user.json = "object"
        /\ readsTime(row.createdAt)
     THEN Read([ID |-> text(row.id), Amount |-> amount.value,
                HasAmount |-> ~ isNull(row.totalAmount),
                Period |-> period.value, NumberOfPeriods |-> periods.value])
     ELSE Failed

(* ChargeToken, SubscribeToken, hostedPage: the one field they require. *)
decodeCreated(data, key) ==
  IF data.json = "object" /\ text(data.fields[key]) # ""
  THEN Read([ID |-> text(data.fields[key])]) ELSE Failed

(* The wrapper counts only when the outer object has no ID of its own. *)
singleResource(data, wrapperKey) ==
  IF /\ data.json = "object" /\ isNull(data.fields.id)
     /\ ~ isNull(data.fields[wrapperKey])
  THEN data.fields[wrapperKey]
  ELSE data

-----------------------------------------------------------------------------
(***************************************************************************)
(* Lists.                                                                  *)
(***************************************************************************)
Present(data, keys) == {key \in keys : data.fields[key].json # "absent"}

Listed(elements, page) == [ok |-> TRUE, list |-> elements, page |-> page]
Unlisted == [ok |-> FALSE, list |-> <<>>, page |-> ""]

(* The first of the list keys that is there, null or not: the loop goes no *)
(* further.                                                                *)
IsFirst(data, i) ==
  /\ data.fields[ListKeys[i]].json # "absent"
  /\ \A j \in 1..i - 1 : data.fields[ListKeys[j]].json = "absent"

listUnder(data) == ListKeys[CHOOSE i \in DOMAIN ListKeys : IsFirst(data, i)]

(* Slip: an object without a list is an empty one. *)
listsUnder_optional(data, page) ==
  IF Present(data, Range(ListKeys)) = {} THEN Listed(<<>>, page)
  ELSE LET raw == data.fields[listUnder(data)]
       IN CASE raw.json = "null"  -> Listed(<<>>, page)
            [] raw.json = "array" -> Listed(raw.elements, page)
            [] OTHER              -> Unlisted

listsUnder(data, page) ==
  IF Present(data, Range(ListKeys)) = {}
  THEN IF Present(data, DOMAIN data.fields \ {"page"}) = {} THEN Listed(<<>>, page) ELSE Unlisted
  ELSE LET raw == data.fields[listUnder(data)]
       IN CASE raw.json = "null"  -> Listed(<<>>, page)
            [] raw.json = "array" -> Listed(raw.elements, page)
            [] OTHER              -> Unlisted

listResources(data) ==
  CASE data.json = "array" -> Listed(data.elements, "")
    [] data.json = "object" /\ (isNull(data.fields.page) \/ data.fields.page.json = "string") ->
         listsUnder(data, data.fields.page.content)
    [] OTHER -> Unlisted

(* All of the elements, or none. *)
Decoded(elements, page, decode(_)) ==
  IF \A i \in DOMAIN elements : decode(elements[i]).ok
  THEN Read([list |-> [i \in DOMAIN elements |-> decode(elements[i]).value], page |-> page])
  ELSE Failed

decodeTransactionPage(data) ==
  LET found == listResources(data)
  IN IF found.ok THEN Decoded(found.list, found.page, decodeTransaction) ELSE Failed

decodeStoreSubscriptionPage(data) ==
  IF /\ data.json = "object" /\ data.fields.subscriptions.json = "array"
     /\ isNull(data.fields.page) \/ data.fields.page.json = "string"
  THEN Decoded(data.fields.subscriptions.elements, data.fields.page.content,
               decodeStoreSubscription)
  ELSE Failed

(* The Subscription API: data is an array, paging an object or nothing.    *)
decodePage(data, paging) ==
  LET next == IF isNull(paging) THEN NullRaw ELSE paging.fields.next
      decodeRow(element) ==
        IF /\ element.json = "object"
           /\ element.fields.id.json \in {"absent", "null", "string"}
        THEN Read([ID |-> text(element.fields.id)]) ELSE Failed
  IN IF /\ data.json = "array"
        /\ isNull(paging) \/ paging.json = "object"
        /\ isNull(next) \/ next.json = "string"
     THEN Decoded(data.elements, next.content, decodeRow)
     ELSE Failed

-----------------------------------------------------------------------------
NoResponse == [op |-> "none", data |-> NullRaw, paging |-> NullRaw]

DecodingInit == question \in Responses /\ reading = <<>>

Decode ==
  /\ question # NoResponse /\ reading = <<>>
  /\ reading' = <<
       LET data == question.data IN
       CASE question.op = "transactions" -> decodeTransactionPage(data)
         [] question.op = "transaction" ->
              decodeTransaction(singleResource(data, "transaction"))
         [] question.op \in {"getSubscription", "cancelSubscription"} ->
              decodeSubscription(singleResource(data, "subscription"),
                                 question.op = "getSubscription")
         [] question.op = "storeSubscriptions" -> decodeStoreSubscriptionPage(data)
         [] question.op = "resources" -> decodePage(data, question.paging)
         [] OTHER -> decodeCreated(data, IF question.op = "subscribe" THEN "subscriptionId"
                                         ELSE "id") >>
  /\ UNCHANGED question

DecodingSpec == DecodingInit /\ [][Decode]_decodingVars

-----------------------------------------------------------------------------
(* What a response says.                                                   *)
SaysAmount(raw, value) ==
  \/ text(raw) \in DOMAIN Amounts /\ value = Amounts[text(raw)]
  \/ isNull(raw) /\ value = 0

SaysCount(raw, value) ==
  SaysAmount(raw, value) \/ (isEmptyString(raw) /\ value = 0)

(* What a paymentInfo is, a text or nothing: a reference of another method *)
(* than a card as it was sent, and no card number ever.                    *)
SaysPaymentInfo(sent, got) ==
  /\ contextOf(sent) = "other" =>
       got.Text = IF sent.paymentInfo.json = "string" THEN sent.paymentInfo.content ELSE ""
  /\ contextOf(sent) # "other" => got.Text # "pan"
  /\ contextOf(sent) = "card"  => got.Text \notin {"grouped", "reference"}

SaysTransaction(sent, got) ==
  /\ got.ID \in {text(sent.id), text(sent.transactionHid)} \ {""}
  /\ text(sent.amount) # "" /\ SaysAmount(sent.amount, got.Amount)
  /\ SaysAmount(sent.fee, got.Fee) /\ SaysAmount(sent.refundAmount, got.RefundAmount)
  /\ SaysCount(sent.period, got.Period)
  /\ SaysPaymentInfo(sent, got)

SaysSubscription(sent, amount, got) ==
  /\ got.ID = text(sent.id)
  /\ SaysAmount(amount, got.Amount)
  /\ got.HasAmount <=> ~ isNull(amount)
  /\ SaysCount(sent.period, got.Period)
  /\ SaysCount(sent.numberOfPeriods, got.NumberOfPeriods)

SaysList(elements, got, Says_(_, _)) ==
  /\ Len(got.list) = Len(elements)
  /\ \A i \in DOMAIN elements : Says_(elements[i], got.list[i])

SaysTransactions(elements, got) ==
  SaysList(elements, got, LAMBDA sent, row : SaysTransaction(sent.fields, row))

(* The documented shapes: an array, nothing but a page, or a known key     *)
(* with an array or null.  Where there are several, the first one counts.  *)
SaysPage(data, got) ==
  \/ data.json = "array" /\ SaysTransactions(data.elements, got)
  \/ /\ data.json = "object"
     /\ got.page = text(data.fields.page)
     /\ \/ Present(data, DOMAIN data.fields \ {"page"}) = {} /\ got.list = <<>>
        \/ \E i \in DOMAIN ListKeys :
             LET raw == data.fields[ListKeys[i]] IN
             /\ IsFirst(data, i)
             /\ \/ raw.json = "null" /\ got.list = <<>>
                \/ raw.json = "array" /\ SaysTransactions(raw.elements, got)

SaysStoreOrder(sent, got) ==
  IF isNull(sent)
  THEN got = [ID |-> "", Amount |-> 0, HasAmount |-> FALSE, Period |-> 0, NumberOfPeriods |-> 0]
  ELSE SaysSubscription(sent.fields, sent.fields.totalAmount, got)

(* The outer object, unless it wraps one and has no ID of its own. *)
Asked(data, wrapperKey) ==
  IF ~ isNull(data.fields.id) \/ isNull(data.fields[wrapperKey])
  THEN data.fields ELSE data.fields[wrapperKey].fields

(* A list has every element that was sent under the first key a list may   *)
(* have, with the token of the next page, and is empty only in the shapes  *)
(* that mean nothing; an amount is zero only when zero was sent or nothing *)
(* at all, and then the subscription says which; a count of periods is     *)
(* zero for an empty text too; what has an ID is never taken for what it   *)
(* contains; and a text about a payment is a reference or no card number.  *)
NothingIsMistakenForNothing ==
  reading # <<>> /\ reading[1].ok =>
    LET data == question.data
        got  == reading[1].value
    IN CASE question.op = "transactions" -> SaysPage(data, got)
         [] question.op = "transaction" -> SaysTransaction(Asked(data, "transaction"), got)
         [] question.op \in {"getSubscription", "cancelSubscription"} ->
              LET sent == Asked(data, "subscription")
              IN /\ SaysSubscription(sent, sent.amount, got)
                 /\ question.op = "getSubscription" => got.HasAmount
         [] question.op = "storeSubscriptions" ->
              /\ SaysList(data.fields.subscriptions.elements, got,
                   LAMBDA sent, row : SaysStoreOrder(sent, row))
              /\ got.page = text(data.fields.page)
         [] question.op = "resources" ->
              /\ SaysList(data.elements, got, LAMBDA sent, row : row.ID = text(sent.fields.id))
              /\ got.page = IF question.paging.json = "object"
                            THEN text(question.paging.fields.next) ELSE ""
         [] OTHER -> got.ID # "" /\ data.json = "object"
=============================================================================
