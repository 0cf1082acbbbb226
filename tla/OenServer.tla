----------------------------- MODULE OenServer -----------------------------
(***************************************************************************)
(* oentest.Server, the programmable Oen fake: one goroutine per request    *)
(* runs serve, and the test programs the fake while requests are in        *)
(* flight.  Every step below is one critical section of Server.mu (or a    *)
(* step outside it), so the interleavings are those of the real handlers.  *)
(*                                                                         *)
(* A transaction HID is the configured HID with the charge count as its    *)
(* suffix and is modelled by that count; a subscription ID likewise by its *)
(* position.  Amounts, card data, timestamps, headers and delays are       *)
(* payload no handler decides on.                                          *)
(***************************************************************************)
EXTENDS PaymentErrors, FiniteSets, Sequences

CONSTANTS
  Handlers,        \* the requests that may reach the fake, one goroutine each
  Orders,          \* merchant order references
  NoOrder,         \* "": the order of a body that is not JSON
  NoArg,           \* a path or a body without an identifier
  MaxCharges,      \* bound on recorded charges
  MaxSubs,         \* bound on subscriptions
  MaxScript,       \* bound on scripted responses queued over a run
  ServerRequests,  \* the requests sent to the fake
  ScriptKeys,      \* endpoints the test program scripts or blocks
  ScriptCodes,     \* codes it puts into its responses
  ScriptResponses  \* responses the test program queues

HIDs   == 1..MaxCharges
SubIDs == 1..MaxSubs

ChargeOps == {"charge", "subscribe"}
(* Operations that name one resource in the path. *)
PathOps == {"refund", "getTx", "listOrder", "getSub", "cancelSub"}
PlainOps == {"listTx", "listSubs", "hostedPage", "other"}

Requests ==
  [op : ChargeOps \cup {"listOrder"}, arg : Orders, authorized : BOOLEAN, complete : BOOLEAN]
    \cup [op : {"refund", "getTx"}, arg : HIDs, authorized : BOOLEAN, complete : BOOLEAN]
    \cup [op : {"getSub", "cancelSub"}, arg : SubIDs, authorized : BOOLEAN, complete : BOOLEAN]
    \cup [op : PlainOps, arg : {NoArg}, authorized : BOOLEAN, complete : BOOLEAN]

(* What a goroutine that has not started holds. *)
NoRequest == [op |-> "other", arg |-> NoArg, authorized |-> FALSE, complete |-> FALSE]

method(r) ==
  CASE r.op \in ChargeOps \cup {"refund", "hostedPage"} -> "POST"
    [] r.op = "cancelSub" -> "PUT"
    [] OTHER -> "GET"

(***************************************************************************)
(* Endpoints a response is queued under: a method or any, a route, and one *)
(* identifier or the route's template.                                     *)
(***************************************************************************)
Key(m, rt, arg) == [method |-> m, route |-> rt, arg |-> arg]

routeKey(r) == IF r.op \in {"getSub", "cancelSub"} THEN "subscription" ELSE r.op

pathArg(r) == IF r.op \in PathOps THEN r.arg ELSE NoArg

(* From the most to the least specific. *)
lookupKeys(r) ==
  << Key(method(r), routeKey(r), pathArg(r)), Key("any", routeKey(r), pathArg(r)),
     Key(method(r), routeKey(r), NoArg),      Key("any", routeKey(r), NoArg) >>

(***************************************************************************)
(* Stored resources and responses.                                         *)
(***************************************************************************)
Transaction(i, order, action, sub, status) ==
  [id |-> i, order |-> order, action |-> action, subscription |-> sub, status |-> status]

NoTx  == Transaction(0, NoOrder, "none", 0, "none")
NoSub == [status |-> "none", order |-> NoOrder, nextCharge |-> FALSE]

Transactions ==
  [id : HIDs, order : Orders \cup {NoOrder}, action : {"onetime", "subscription"},
   subscription : 0..MaxSubs, status : {"charged", "refunded"}]

Subscriptions ==
  [status : {"ongoing", "cancelled"}, order : Orders \cup {NoOrder}, nextCharge : BOOLEAN]

(* The data of an envelope: its shape, and what the operation put into it. *)
NoData ==
  [kind |-> "none", hid |-> 0, subscription |-> 0, txs |-> {}, sub |-> NoSub,
   page |-> FALSE]

ChargeData(i, s)     == [NoData EXCEPT !.kind = "charge", !.hid = i, !.subscription = s]
TransactionData(tx)  == [NoData EXCEPT !.kind = "transaction", !.txs = {tx}]
ListData(txs)        == [NoData EXCEPT !.kind = "list", !.txs = txs]
SubscriptionData(sb) == [NoData EXCEPT !.kind = "subscription", !.sub = sb]
StoreListData(token) == [NoData EXCEPT !.kind = "storeList", !.page = token]
PageData             == [NoData EXCEPT !.kind = "page"]

Data ==
  [kind : {"none", "charge", "transaction", "list", "subscription", "storeList", "page"},
   hid : 0..MaxCharges, subscription : 0..MaxSubs, txs : SUBSET Transactions,
   sub : Subscriptions \cup {NoSub}, page : BOOLEAN]

(* content: an envelope built from code and data, or bytes written as they *)
(* are (no bytes at all, or bytes that are not JSON).  seq: the position   *)
(* of a scripted response in the order they were queued, 0 for a default.  *)
Response(status, code, data) ==
  [status |-> status, code |-> code, content |-> "envelope", data |-> data,
   block |-> FALSE, recordCharge |-> FALSE, seq |-> 0]

Succeed(data)  == Response(200, CodeSuccess, data)
V0002          == Response(200, CodeInvalidTransactionState, NoData)
Unauthorized   == Response(401, CodeUnauthorized, NoData)
NotFound       == Response(404, NoText, NoData)
NoResponse     == Response(0, NoText, NoData)

Codes == {NoText, CodeSuccess, CodeInvalidTransactionState, CodeUnauthorized}
           \cup ScriptCodes

Responses ==
  [status : Nat, code : Codes,
   content : {"envelope", "empty", "notJSON"}, data : Data,
   block : BOOLEAN, recordCharge : BOOLEAN, seq : Nat]

ASSUME BoundsAssumption ==
  MaxCharges \in Nat /\ MaxSubs \in Nat /\ MaxScript \in Nat

ASSUME RequestAssumption == ServerRequests \subseteq Requests /\ NoOrder \notin Orders

ASSUME ScriptAssumption == ScriptResponses \subseteq Responses

VARIABLES
  (* Server's fields *)
  requests,             \* the log of received requests
  responses,            \* scripted responses, a FIFO queue per endpoint
  blocked,              \* endpoints Hang blocks
  rejectBadToken, nextPageToken,
  chargeCount, transactionsByID, transactionsByOrder, subscriptions,
  (* Close: the channel s.closed is closed from "signalled" on; the        *)
  (* listener is shut from "refusing" on                                   *)
  closing,
  (* one serve goroutine per handler, and its locals *)
  pc, request, response, queued, hid, subscriptionID,
  ctxDone,              \* requests whose context is cancelled
  (* history *)
  before,               \* handlers that had ended before this one began
  changed,              \* handlers that have changed a stored resource
  scripted              \* responses queued so far

resourceVars == <<chargeCount, transactionsByID, transactionsByOrder, subscriptions,
                  changed>>
scriptVars   == <<responses, blocked, rejectBadToken, nextPageToken, scripted>>
localVars    == <<request, queued, hid, subscriptionID>>
serverVars   == <<requests, resourceVars, scriptVars, closing, pc, localVars,
                  response, ctxDone, before>>

Ended == {"done", "dropped"}
closed == closing # "no"

Goto(h, from, to) == pc[h] = from /\ pc' = [pc EXCEPT ![h] = to]

-----------------------------------------------------------------------------
(***************************************************************************)
(* serve, up to the choice of a response.                                  *)
(***************************************************************************)
Receive(h, r) ==
  /\ closing \in {"no", "signalled"}
  /\ Goto(h, "idle", "authorize")
  /\ requests' = Append(requests, h)
  /\ request' = [request EXCEPT ![h] = r]
  /\ before' = [before EXCEPT ![h] = {g \in Handlers : pc[g] \in Ended}]
  /\ UNCHANGED <<resourceVars, scriptVars, closing, response, queued, hid,
                 subscriptionID, ctxDone>>

Authorized(h) ==
  /\ ~ rejectBadToken \/ request[h].authorized
  /\ Goto(h, "authorize", "next")
  /\ UNCHANGED <<requests, resourceVars, scriptVars, closing, localVars, response,
                 ctxDone, before>>

RefuseUnauthorized(h) ==
  /\ rejectBadToken /\ ~ request[h].authorized
  /\ Goto(h, "authorize", "write")
  /\ response' = [response EXCEPT ![h] = Unauthorized]
  /\ UNCHANGED <<requests, resourceVars, scriptVars, closing, localVars,
                 ctxDone, before>>

HasScript(key) == key \in ScriptKeys /\ responses[key] # <<>>

(* The most specific of the request's endpoints that has a response left. *)
ScriptedAt(r, i) ==
  /\ HasScript(lookupKeys(r)[i])
  /\ \A j \in 1..(i - 1) : ~ HasScript(lookupKeys(r)[j])

(* Slip: the newest response is taken, and the queue cut at its end. *)
nextResponse_newest(h) ==
  \E i \in 1..4 :
    LET key  == lookupKeys(request[h])[i]
        last == Len(responses[key])
    IN /\ ScriptedAt(request[h], i)
       /\ Goto(h, "next", IF responses[key][last].recordCharge THEN "default" ELSE "block")
       /\ response' = [response EXCEPT ![h] = responses[key][last]]
       /\ queued' = [queued EXCEPT ![h] = TRUE]
       /\ responses' = [responses EXCEPT ![key] = SubSeq(@, 1, last - 1)]
       /\ UNCHANGED <<requests, resourceVars, blocked, rejectBadToken, nextPageToken,
                      scripted, closing, request, hid, subscriptionID, ctxDone, before>>

nextResponse(h) ==
  \E i \in 1..4 :
    LET key == lookupKeys(request[h])[i] IN
    /\ ScriptedAt(request[h], i)
    /\ Goto(h, "next", IF Head(responses[key]).recordCharge THEN "default" ELSE "block")
    /\ response' = [response EXCEPT ![h] = Head(responses[key])]
    /\ queued' = [queued EXCEPT ![h] = TRUE]
    /\ responses' = [responses EXCEPT ![key] = Tail(@)]
    /\ UNCHANGED <<requests, resourceVars, blocked, rejectBadToken, nextPageToken,
                   scripted, closing, request, hid, subscriptionID, ctxDone, before>>

NoneQueued(h) ==
  /\ \A i \in 1..4 : ~ HasScript(lookupKeys(request[h])[i])
  /\ Goto(h, "next", "default")
  /\ UNCHANGED <<requests, resourceVars, scriptVars, closing, localVars, response,
                 ctxDone, before>>

-----------------------------------------------------------------------------
(***************************************************************************)
(* defaultResponse.  A handler that took a scripted response with          *)
(* RecordCharge runs it too, and throws the answer away.                   *)
(***************************************************************************)
Answer(h, default) ==
  response' = [response EXCEPT ![h] = IF queued[h] THEN @ ELSE default]

Serves(h, op) == request[h].op = op

(* A body cut off by a lost connection is not JSON: the error of ReadAll   *)
(* is ignored and the charge lands under the empty order.                  *)
bodyOrder(h) == IF request[h].complete THEN request[h].arg ELSE NoOrder

(* Slip: the suffix starts with the third charge. *)
hidOf_suffixFromThird(count) == IF count > 2 THEN count ELSE 1

(* Slip: the count is read again after it moved on. *)
hidOf_nextCount(count) == count + 1

hidOf(count) == count

recordCharge(h) ==
  /\ \/ Serves(h, "charge") /\ Goto(h, "default", "block")
     \/ Goto(h, "record", "block")
  /\ chargeCount < MaxCharges
  /\ LET i  == hidOf(chargeCount + 1)
         tx == Transaction(i, bodyOrder(h),
                           IF Serves(h, "charge") THEN "onetime" ELSE "subscription",
                           subscriptionID[h], "charged")
     IN /\ chargeCount' = chargeCount + 1
        /\ transactionsByID' = [transactionsByID EXCEPT ![i] = tx]
        /\ transactionsByOrder' = [transactionsByOrder EXCEPT ![bodyOrder(h)] = Append(@, tx)]
        /\ hid' = [hid EXCEPT ![h] = i]
        /\ Answer(h, Succeed(ChargeData(i, subscriptionID[h])))
  /\ changed' = changed \cup {h}
  /\ UNCHANGED <<requests, subscriptions, scriptVars, closing, request, queued,
                 subscriptionID, ctxDone, before>>

Existing == {s \in SubIDs : subscriptions[s] # NoSub}

(* Slip: the second subscription gets no suffix either. *)
subscriptionIDOf_suffixFromThird(count) == IF count > 1 THEN count + 1 ELSE 1

subscriptionIDOf(count) == count + 1

newSubscription(h) ==
  /\ Serves(h, "subscribe")
  /\ Goto(h, "default", "record")
  /\ Cardinality(Existing) < MaxSubs
  /\ LET id == subscriptionIDOf(Cardinality(Existing)) IN
     /\ subscriptions' = [subscriptions EXCEPT ![id] =
          [status |-> "ongoing", order |-> bodyOrder(h), nextCharge |-> TRUE]]
     /\ subscriptionID' = [subscriptionID EXCEPT ![h] = id]
  /\ changed' = changed \cup {h}
  /\ UNCHANGED <<requests, chargeCount, transactionsByID, transactionsByOrder,
                 scriptVars, closing, request, queued, hid, response, ctxDone, before>>

(* The reader's half of a handler: one answer from the state as it is. *)
Reads(h, from, to, default) ==
  /\ Goto(h, from, to)
  /\ Answer(h, default)
  /\ UNCHANGED <<requests, resourceVars, scriptVars, closing, localVars, ctxDone, before>>

refundResponse(h) ==
  LET i == request[h].arg
      refunded == [transactionsByID[i] EXCEPT !.status = "refunded"]
  IN /\ Serves(h, "refund")
     /\ \/ /\ transactionsByID[i] = NoTx
           /\ Reads(h, "default", "block", V0002)
        \/ /\ transactionsByID[i] # NoTx
           /\ Goto(h, "default", "block")
           /\ transactionsByID' = [transactionsByID EXCEPT ![i] = refunded]
           /\ Answer(h, Succeed(TransactionData(refunded)))
           /\ changed' = changed \cup {h}
           /\ UNCHANGED <<requests, chargeCount, transactionsByOrder, subscriptions,
                          scriptVars, closing, localVars, ctxDone, before>>

transactionResponse(h) ==
  LET tx == transactionsByID[request[h].arg] IN
  /\ Serves(h, "getTx")
  /\ Reads(h, "default", "block",
           IF tx = NoTx THEN V0002 ELSE Succeed(TransactionData(tx)))

(* The index of the order names the transactions; what they are now is     *)
(* read from the main map.                                                 *)
Current(tx) == IF transactionsByID[tx.id] = NoTx THEN tx ELSE transactionsByID[tx.id]

(* Slip: the loop starts at the second charge of the order. *)
Listed_skipsFirst(order) ==
  {Current(transactionsByOrder[order][k]) : k \in DOMAIN transactionsByOrder[order] \ {1}}

Listed(order) ==
  {Current(transactionsByOrder[order][k]) : k \in DOMAIN transactionsByOrder[order]}

orderTransactions(h) ==
  /\ Serves(h, "listOrder")
  /\ Reads(h, "default", "page", Succeed(ListData(Listed(request[h].arg))))

allTransactions(h) ==
  /\ Serves(h, "listTx")
  /\ Reads(h, "default", "page",
           Succeed(ListData({transactionsByID[i] : i \in HIDs} \ {NoTx})))

(* The page token is read under the lock again, after the listing. *)
listResponse(h) ==
  Reads(h, "page", "block", [response[h] EXCEPT !.data.page = nextPageToken])

subscriptionResponse(h) ==
  LET s == request[h].arg
      cancelled == [subscriptions[s] EXCEPT !.status = "cancelled", !.nextCharge = FALSE]
  IN \/ /\ Serves(h, "getSub") \/ Serves(h, "cancelSub")
        /\ subscriptions[s] = NoSub
        /\ Reads(h, "default", "block", V0002)
     \/ /\ Serves(h, "getSub")
        /\ subscriptions[s] # NoSub
        /\ Reads(h, "default", "block", Succeed(SubscriptionData(subscriptions[s])))
     \/ /\ Serves(h, "cancelSub")
        /\ subscriptions[s] # NoSub
        /\ Goto(h, "default", "block")
        /\ subscriptions' = [subscriptions EXCEPT ![s] = cancelled]
        /\ Answer(h, Succeed(SubscriptionData(cancelled)))
        /\ changed' = changed \cup {h}
        /\ UNCHANGED <<requests, chargeCount, transactionsByID, transactionsByOrder,
                       scriptVars, closing, localVars, ctxDone, before>>

storeSubscriptionsResponse(h) ==
  /\ Serves(h, "listSubs")
  /\ Reads(h, "default", "block", Succeed(StoreListData(nextPageToken)))

(* The hosted pages answer with configured identifiers and record nothing. *)
hostedPageResponse(h) ==
  /\ Serves(h, "hostedPage")
  /\ Reads(h, "default", "block", Succeed(PageData))

unknownEndpoint(h) ==
  /\ Serves(h, "other")
  /\ Reads(h, "default", "block", NotFound)

defaultResponse(h) ==
  \/ recordCharge(h) \/ newSubscription(h) \/ refundResponse(h)
  \/ transactionResponse(h) \/ orderTransactions(h) \/ allTransactions(h)
  \/ listResponse(h) \/ subscriptionResponse(h) \/ storeSubscriptionsResponse(h)
  \/ hostedPageResponse(h) \/ unknownEndpoint(h)

-----------------------------------------------------------------------------
(***************************************************************************)
(* serve, from the answer to the wire.                                     *)
(***************************************************************************)
isBlocked(h) == \E i \in 1..4 : lookupKeys(request[h])[i] \in blocked

CheckBlock(h) ==
  /\ Goto(h, "block", IF response[h].block \/ isBlocked(h) THEN "hijack" ELSE "write")
  /\ UNCHANGED <<requests, resourceVars, scriptVars, closing, localVars, response,
                 ctxDone, before>>

(* From here on net/http no longer watches the connection: only a context  *)
(* cancelled earlier, or Close, ends the wait.                             *)
Hijack(h) ==
  /\ Goto(h, "hijack", "hung")
  /\ UNCHANGED <<requests, resourceVars, scriptVars, closing, localVars, response,
                 ctxDone, before>>

(* Slip: the wait does not select on s.closed. *)
HangEnds_contextOnly(h) ==
  /\ h \in ctxDone
  /\ Goto(h, "hung", "dropped")
  /\ UNCHANGED <<requests, resourceVars, scriptVars, closing, localVars, response,
                 ctxDone, before>>

(* The deferred conn.Close drops the connection with nothing written. *)
HangEnds(h) ==
  /\ h \in ctxDone \/ closed
  /\ Goto(h, "hung", "dropped")
  /\ UNCHANGED <<requests, resourceVars, scriptVars, closing, localVars, response,
                 ctxDone, before>>

writeResponse(h) ==
  /\ Goto(h, "write", "done")
  /\ UNCHANGED <<requests, resourceVars, scriptVars, closing, localVars, response,
                 ctxDone, before>>

(* net/http sees the client leave and cancels the request's context. *)
DetectDisconnect(h) ==
  /\ pc[h] \notin {"idle", "hung"} \cup Ended
  /\ ctxDone' = ctxDone \cup {h}
  /\ UNCHANGED <<requests, resourceVars, scriptVars, closing, pc, localVars, response,
                 before>>

Serve(h) ==
  \/ Authorized(h) \/ RefuseUnauthorized(h) \/ nextResponse(h) \/ NoneQueued(h)
  \/ defaultResponse(h)
  \/ CheckBlock(h) \/ Hijack(h) \/ HangEnds(h) \/ writeResponse(h)

-----------------------------------------------------------------------------
(***************************************************************************)
(* The test program.                                                       *)
(***************************************************************************)
QueueResponse(key, r) ==
  /\ scripted < MaxScript
  /\ responses' = [responses EXCEPT ![key] = Append(@, [r EXCEPT !.seq = scripted + 1])]
  /\ scripted' = scripted + 1
  /\ UNCHANGED <<requests, resourceVars, blocked, rejectBadToken, nextPageToken, closing,
                 pc, localVars, response, ctxDone, before>>

Hang(key) ==
  /\ blocked' = blocked \cup {key}
  /\ UNCHANGED <<requests, resourceVars, responses, rejectBadToken, nextPageToken,
                 scripted, closing, pc, localVars, response, ctxDone, before>>

Unhang(key) ==
  /\ blocked' = blocked \ {key}
  /\ UNCHANGED <<requests, resourceVars, responses, rejectBadToken, nextPageToken,
                 scripted, closing, pc, localVars, response, ctxDone, before>>

SetNextPage(token) ==
  /\ nextPageToken' = token
  /\ UNCHANGED <<requests, resourceVars, responses, blocked, rejectBadToken,
                 scripted, closing, pc, localVars, response, ctxDone, before>>

AcceptAnyToken ==
  /\ rejectBadToken' = FALSE
  /\ UNCHANGED <<requests, resourceVars, responses, blocked, nextPageToken,
                 scripted, closing, pc, localVars, response, ctxDone, before>>

CloseStep(from, to) ==
  /\ closing = from
  /\ closing' = to
  /\ UNCHANGED <<requests, resourceVars, scriptVars, pc, localVars, response,
                 ctxDone, before>>

(* Close: close(s.closed), then httptest's Close, which shuts the listener *)
(* and waits for every connection no handler has hijacked.                 *)
Close == CloseStep("no", "signalled")
ShutListener == CloseStep("signalled", "refusing")
CloseReturns ==
  /\ \A h \in Handlers : pc[h] \in {"idle", "hung"} \cup Ended
  /\ CloseStep("refusing", "returned")

-----------------------------------------------------------------------------
Init ==
  /\ requests = <<>>
  /\ responses = [key \in ScriptKeys |-> <<>>]
  /\ blocked = {} /\ rejectBadToken = TRUE /\ nextPageToken = FALSE
  /\ chargeCount = 0
  /\ transactionsByID = [i \in HIDs |-> NoTx]
  /\ transactionsByOrder = [order \in Orders \cup {NoOrder} |-> <<>>]
  /\ subscriptions = [s \in SubIDs |-> NoSub]
  /\ closing = "no"
  /\ pc = [h \in Handlers |-> "idle"]
  /\ request = [h \in Handlers |-> NoRequest]
  /\ response = [h \in Handlers |-> NoResponse]
  /\ queued = [h \in Handlers |-> FALSE]
  /\ hid = [h \in Handlers |-> 0]
  /\ subscriptionID = [h \in Handlers |-> 0]
  /\ ctxDone = {}
  /\ before = [h \in Handlers |-> {}]
  /\ changed = {}
  /\ scripted = 0

Test ==
  \/ \E key \in ScriptKeys :
       \/ \E r \in ScriptResponses : QueueResponse(key, r)
       \/ Hang(key) \/ Unhang(key)
  \/ \E token \in BOOLEAN : SetNextPage(token)
  \/ AcceptAnyToken \/ Close \/ ShutListener \/ CloseReturns

Next ==
  \/ \E h \in Handlers : Serve(h) \/ DetectDisconnect(h)
  \/ \E h \in Handlers, r \in ServerRequests : Receive(h, r)
  \/ Test

(* The Go scheduler runs every goroutine that can run; Close, once called, *)
(* runs to its end.                                                        *)
Fairness ==
  /\ \A h \in Handlers : WF_serverVars(Serve(h))
  /\ WF_serverVars(ShutListener) /\ WF_serverVars(CloseReturns)

Spec == Init /\ [][Next]_serverVars /\ Fairness

-----------------------------------------------------------------------------
PCs == {"idle", "authorize", "next", "default", "record", "page", "block",
        "hijack", "hung", "write"} \cup Ended

TypeOK ==
  /\ requests \in Seq(Handlers)
  /\ responses \in [ScriptKeys -> Seq(Responses)]
  /\ blocked \subseteq ScriptKeys
  /\ rejectBadToken \in BOOLEAN /\ nextPageToken \in BOOLEAN
  /\ chargeCount \in 0..MaxCharges
  /\ transactionsByID \in [HIDs -> Transactions \cup {NoTx}]
  /\ transactionsByOrder \in [Orders \cup {NoOrder} -> Seq(Transactions)]
  /\ subscriptions \in [SubIDs -> Subscriptions \cup {NoSub}]
  /\ closing \in {"no", "signalled", "refusing", "returned"}
  /\ pc \in [Handlers -> PCs]
  /\ request \in [Handlers -> Requests]
  /\ response \in [Handlers -> Responses]
  /\ queued \in [Handlers -> BOOLEAN]
  /\ hid \in [Handlers -> 0..MaxCharges]
  /\ subscriptionID \in [Handlers -> 0..MaxSubs]
  /\ ctxDone \subseteq Handlers
  /\ before \in [Handlers -> SUBSET Handlers]
  /\ changed \subseteq Handlers
  /\ scripted \in 0..MaxScript

(* recordCharge keeps two indexes of one set of transactions: whatever the *)
(* concurrency, each HID is given out once, is found under it in the main  *)
(* map, and is listed under its own order, once and in the order charged.  *)
Recorded == {i \in HIDs : transactionsByID[i] # NoTx}

EveryChargeIndexed ==
  \A i \in Recorded :
    /\ transactionsByID[i].id = i
    /\ \E k \in DOMAIN transactionsByOrder[transactionsByID[i].order] :
         transactionsByOrder[transactionsByID[i].order][k].id = i

EveryEntryRecorded ==
  \A order \in Orders \cup {NoOrder} :
    \A k \in DOMAIN transactionsByOrder[order] :
      LET entry == transactionsByOrder[order][k] IN
      /\ entry.id \in Recorded
      /\ transactionsByID[entry.id].order = order
      /\ \A j \in 1..(k - 1) : transactionsByOrder[order][j].id < entry.id

HIDsAreDistinct ==
  \A g, h \in Handlers : hid[g] # 0 /\ hid[g] = hid[h] => g = h

IndexesAgree ==
  Recorded = 1..chargeCount /\ EveryChargeIndexed /\ EveryEntryRecorded /\ HIDsAreDistinct

(* A queued response is served to one request, in the order queued for its *)
(* endpoint, and none is lost: the positions still queued and the positions*)
(* handlers hold are together all positions, each once.                    *)
InQueue(key) == {responses[key][k].seq : k \in DOMAIN responses[key]}
MatchingKeys(r) == {lookupKeys(r)[i] : i \in 1..4} \cap ScriptKeys
Scripted == {h \in Handlers : queued[h]}

ScriptServedOnceInOrder ==
  /\ (UNION {InQueue(key) : key \in ScriptKeys}) \cup {response[h].seq : h \in Scripted}
       = 1..scripted
  /\ \A g, h \in Scripted : response[g].seq = response[h].seq => g = h
  /\ \A h \in Scripted, key \in ScriptKeys :
       /\ response[h].seq \notin InQueue(key)
       /\ MatchingKeys(request[h]) = {key} =>
            \A seq \in InQueue(key) : response[h].seq < seq

(* What a request had done when it ended is seen by every request that     *)
(* began after that: a recorded charge is found by HID, by order and in    *)
(* the full list -- also when its answer was a scripted failure or a       *)
(* dropped connection -- and refunds and cancellations do not come undone. *)
Refunded(g, i) == g \in changed /\ Serves(g, "refund") /\ request[g].arg = i
Cancelled(g, s) == g \in changed /\ Serves(g, "cancelSub") /\ request[g].arg = s

(* h answered a query from the stored resources. *)
AnsweredQuery(h) ==
  pc[h] = "done" /\ ~ queued[h] /\ response[h].code # CodeUnauthorized

Covers(h, i) ==
  \/ Serves(h, "getTx") /\ request[h].arg = i
  \/ Serves(h, "listOrder") /\ request[h].arg = transactionsByID[i].order
  \/ Serves(h, "listTx")

ReadsSeeEarlierWrites ==
  \A h \in {q \in Handlers : AnsweredQuery(q)} : \A g \in before[h] :
    /\ \A i \in HIDs : hid[g] = i /\ Covers(h, i) =>
         \E tx \in response[h].data.txs : tx.id = i
    /\ \A i \in HIDs : Refunded(g, i) /\ Covers(h, i) =>
         \A tx \in response[h].data.txs : tx.id = i => tx.status = "refunded"
    /\ \A s \in SubIDs : Cancelled(g, s) /\ Serves(h, "getSub") /\ request[h].arg = s =>
         /\ response[h].data.sub.status = "cancelled"
         /\ ~ response[h].data.sub.nextCharge

(* A subscription and its first charge are stored in two critical sections.*)
(* Each subscription belongs to the one request that created it, and lacks *)
(* its charge only until that request takes its next step.                 *)
SubscriptionHasItsCharge ==
  \A s \in SubIDs : subscriptions[s] # NoSub =>
    \E h \in Handlers :
      /\ subscriptionID[h] = s
      /\ \A g \in Handlers \ {h} : subscriptionID[g] # s
      /\ \/ pc[h] = "record"
         \/ /\ hid[h] # 0
            /\ transactionsByID[hid[h]].subscription = s
            /\ transactionsByID[hid[h]].order = subscriptions[s].order

(* Close releases every hanging request and returns: it cannot deadlock on *)
(* a hang, and no handler outlives it for good.                            *)
CloseReleasesEveryHandler ==
  closed ~> closing = "returned" /\ \A h \in Handlers : pc[h] \in {"idle"} \cup Ended

(* Recording the charge on purpose is the only way to a charge its caller  *)
(* was never told about: a connection dropped without an answer means      *)
(* nothing was charged, unless the scripted response asked for it.         *)
OnlyRecordChargeHidesACharge ==
  \A h \in Handlers : pc[h] = "dropped" /\ hid[h] # 0 => response[h].recordCharge
=============================================================================
