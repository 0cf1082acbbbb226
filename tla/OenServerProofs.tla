-------------------------- MODULE OenServerProofs --------------------------
(***************************************************************************)
(* The fake's stored resources are consistent for any number of concurrent *)
(* requests, scripts and resources.  The inductive invariant adds to the   *)
(* types and the index property what a handler in the middle of serve      *)
(* relies on: that only a subscribe request waits to record its first      *)
(* charge, and that no handler holds a HID the counter has not given out.  *)
(* The second half is the fake over time: what ended before a request      *)
(* began is seen by it, a subscription gets its charge, and scripted       *)
(* responses are served once and in order.                                 *)
(***************************************************************************)
EXTENDS OenServer, TLAPS, FiniteSetTheorems

(* A step of the fake, whoever sends the requests. *)
ServerStep ==
  \/ \E h \in Handlers : Serve(h) \/ DetectDisconnect(h)
  \/ \E h \in Handlers, r \in Requests : Receive(h, r)
  \/ Test

RecordIsSubscribe == \A h \in Handlers : pc[h] = "record" => Serves(h, "subscribe")

TypeInv == TypeOK /\ RecordIsSubscribe

-----------------------------------------------------------------------------
(* Every answer a handler builds is a response. *)
LEMMA DataTypes ==
  /\ NoData \in Data /\ PageData \in Data
  /\ \A i \in 0..MaxCharges, s \in 0..MaxSubs : ChargeData(i, s) \in Data
  /\ \A tx \in Transactions : TransactionData(tx) \in Data
  /\ \A txs \in SUBSET Transactions : ListData(txs) \in Data
  /\ \A sb \in Subscriptions : SubscriptionData(sb) \in Data
  /\ \A token \in BOOLEAN : StoreListData(token) \in Data
  <1>1. NoData \in Data
    BY BoundsAssumption DEF NoData, Data
  <1> QED
    BY <1>1 DEF NoData, Data, PageData, ChargeData, TransactionData, ListData,
                SubscriptionData, StoreListData

LEMMA ResponseTypes ==
  /\ V0002 \in Responses /\ Unauthorized \in Responses
  /\ NotFound \in Responses /\ NoResponse \in Responses
  /\ \A data \in Data : Succeed(data) \in Responses
  <1>1. /\ NoText \in Codes /\ CodeSuccess \in Codes
        /\ CodeInvalidTransactionState \in Codes /\ CodeUnauthorized \in Codes
    BY DEF Codes
  <1>2. \A status \in Nat, code \in Codes, data \in Data :
          Response(status, code, data) \in Responses
    BY DEF Response, Responses
  <1> QED
    BY <1>1, <1>2, DataTypes DEF V0002, Unauthorized, NotFound, NoResponse, Succeed

LEMMA AnswerType ==
  ASSUME TypeOK, NEW h \in Handlers, NEW d \in Responses, Answer(h, d)
  PROVE  response' \in [Handlers -> Responses]
  BY DEF TypeOK, Answer

LEMMA GotoType ==
  ASSUME TypeOK, NEW h \in Handlers, NEW from, NEW to \in PCs, Goto(h, from, to)
  PROVE  pc' \in [Handlers -> PCs]
  BY DEF TypeOK, Goto

(* What the path and the body of a request name, by operation. *)
LEMMA RequestArgs ==
  ASSUME TypeOK, NEW h \in Handlers
  PROVE  /\ request[h].op \in ChargeOps \cup {"listOrder"} => request[h].arg \in Orders
         /\ request[h].op \in {"refund", "getTx"} => request[h].arg \in HIDs
         /\ request[h].op \in {"getSub", "cancelSub"} => request[h].arg \in SubIDs
         /\ request[h].op \in ChargeOps => bodyOrder(h) \in Orders \cup {NoOrder}
  BY DEF TypeOK, Requests, ChargeOps, PlainOps, bodyOrder

-----------------------------------------------------------------------------
(* serve, step by step. *)
LEMMA ReceiveType ==
  ASSUME TypeInv, NEW h \in Handlers, NEW r \in Requests, Receive(h, r)
  PROVE  TypeInv'
  <1> USE DEF TypeInv
  <1>1. pc' \in [Handlers -> PCs] /\ request' \in [Handlers -> Requests]
    BY DEF Receive, Goto, TypeOK, PCs
  <1>2. requests' \in Seq(Handlers) /\ before' \in [Handlers -> SUBSET Handlers]
    BY DEF Receive, TypeOK
  <1>3. TypeOK'
    BY <1>1, <1>2 DEF Receive, TypeOK, resourceVars, scriptVars
  <1>4. RecordIsSubscribe'
    BY <1>1 DEF Receive, TypeOK, RecordIsSubscribe, Serves, Goto
  <1> QED
    BY <1>3, <1>4

(* Steps that only move on. *)
LEMMA MoveType ==
  ASSUME TypeInv, NEW h \in Handlers,
         \/ Authorized(h) \/ NoneQueued(h) \/ CheckBlock(h) \/ Hijack(h) \/ HangEnds(h)
         \/ writeResponse(h)
  PROVE  TypeInv'
  <1> USE DEF TypeInv
  <1>1. PICK from, to \in PCs \ {"record"} : Goto(h, from, to)
    BY DEF Authorized, NoneQueued, CheckBlock, Hijack, HangEnds, writeResponse, PCs, Ended
  <1>2. UNCHANGED <<requests, resourceVars, scriptVars, closing, localVars, response,
                    ctxDone, before>>
    BY DEF Authorized, NoneQueued, CheckBlock, Hijack, HangEnds, writeResponse
  <1>3. pc' \in [Handlers -> PCs]
    BY <1>1 DEF TypeOK, Goto
  <1>4. TypeOK'
    BY <1>2, <1>3 DEF TypeOK, resourceVars, scriptVars, localVars
  <1>5. RecordIsSubscribe'
    BY <1>1, <1>2 DEF TypeOK, RecordIsSubscribe, Serves, Goto, localVars
  <1> QED
    BY <1>4, <1>5

LEMMA RefuseType ==
  ASSUME TypeInv, NEW h \in Handlers, RefuseUnauthorized(h)
  PROVE  TypeInv'
  <1> USE DEF TypeInv
  <1>1. pc' \in [Handlers -> PCs] /\ response' \in [Handlers -> Responses]
    BY ResponseTypes DEF RefuseUnauthorized, Goto, TypeOK, PCs
  <1>2. TypeOK'
    BY <1>1 DEF RefuseUnauthorized, TypeOK, resourceVars, scriptVars, localVars
  <1>3. RecordIsSubscribe'
    BY DEF RefuseUnauthorized, TypeOK, RecordIsSubscribe, Serves, Goto, localVars
  <1> QED
    BY <1>2, <1>3

LEMMA NextResponseType ==
  ASSUME TypeInv, NEW h \in Handlers, nextResponse(h)
  PROVE  TypeInv'
  <1> USE DEF TypeInv
  <1> PICK i \in 1..4 : nextResponse(h)!(i)
    BY DEF nextResponse
  <1> DEFINE key == lookupKeys(request[h])[i]
  <1>1. key \in ScriptKeys /\ responses[key] # <<>> /\ responses[key] \in Seq(Responses)
    BY DEF ScriptedAt, HasScript, TypeOK
  <1>2. Head(responses[key]) \in Responses /\ Tail(responses[key]) \in Seq(Responses)
    BY <1>1
  <1> HIDE DEF key
  <1>3. responses' \in [ScriptKeys -> Seq(Responses)]
    BY <1>1, <1>2 DEF TypeOK, key
  <1>4. response' \in [Handlers -> Responses] /\ queued' \in [Handlers -> BOOLEAN]
    BY <1>2 DEF TypeOK, key
  <1>5. pc' \in [Handlers -> PCs] /\ RecordIsSubscribe'
    BY DEF TypeOK, Goto, PCs, RecordIsSubscribe, Serves
  <1>6. TypeOK'
    BY <1>3, <1>4, <1>5 DEF TypeOK, resourceVars
  <1> QED
    BY <1>5, <1>6

-----------------------------------------------------------------------------
(* The stored resources, whichever handler answers from them. *)
LEMMA RecordChargeType ==
  ASSUME TypeInv, NEW h \in Handlers, recordCharge(h)
  PROVE  TypeInv'
  <1> USE DEF TypeInv
  <1> DEFINE i == chargeCount + 1
             action == IF Serves(h, "charge") THEN "onetime" ELSE "subscription"
             tx == Transaction(i, bodyOrder(h), action, subscriptionID[h], "charged")
  <1>1. bodyOrder(h) \in Orders \cup {NoOrder}
    BY RequestArgs DEF recordCharge, RecordIsSubscribe, Goto, Serves, ChargeOps
  <1>2. i \in HIDs /\ i \in 0..MaxCharges /\ subscriptionID[h] \in 0..MaxSubs
    BY BoundsAssumption DEF recordCharge, TypeOK, HIDs
  <1>3. tx \in Transactions
    BY <1>1, <1>2 DEF Transaction, Transactions
  <1>4. chargeCount' \in 0..MaxCharges /\ hid' \in [Handlers -> 0..MaxCharges]
    BY <1>2 DEF recordCharge, TypeOK, hidOf
  <1>5. transactionsByID' \in [HIDs -> Transactions \cup {NoTx}]
    BY <1>2, <1>3 DEF recordCharge, TypeOK, hidOf
  <1>6. transactionsByOrder' \in [Orders \cup {NoOrder} -> Seq(Transactions)]
    <2>1. Append(transactionsByOrder[bodyOrder(h)], tx) \in Seq(Transactions)
      BY <1>1, <1>3 DEF TypeOK
    <2> QED BY <2>1 DEF recordCharge, TypeOK, hidOf
  <1>7. response' \in [Handlers -> Responses]
    <2>1. Succeed(ChargeData(i, subscriptionID[h])) \in Responses
      BY <1>2, DataTypes, ResponseTypes
    <2> QED BY <2>1 DEF recordCharge, TypeOK, Answer, hidOf
  <1>8. pc' \in [Handlers -> PCs] /\ RecordIsSubscribe'
    BY DEF recordCharge, TypeOK, Goto, PCs, RecordIsSubscribe, Serves
  <1>9. changed' \subseteq Handlers
    BY DEF recordCharge, TypeOK
  <1>10. TypeOK'
    BY <1>4, <1>5, <1>6, <1>7, <1>8, <1>9 DEF recordCharge, TypeOK, scriptVars
  <1> QED
    BY <1>8, <1>10

LEMMA NewSubscriptionType ==
  ASSUME TypeInv, NEW h \in Handlers, newSubscription(h)
  PROVE  TypeInv'
  <1> USE DEF TypeInv
  <1> DEFINE id == Cardinality(Existing) + 1
             sb == [status |-> "ongoing", order |-> bodyOrder(h), nextCharge |-> TRUE]
  <1>1. id \in SubIDs /\ id \in 0..MaxSubs
    <2>1. IsFiniteSet(SubIDs)
      BY BoundsAssumption, FS_Interval DEF SubIDs
    <2>2. IsFiniteSet(Existing)
      BY <2>1, FS_Subset DEF Existing
    <2>3. Cardinality(Existing) \in Nat
      BY <2>2, FS_CardinalityType
    <2> QED BY <2>3, BoundsAssumption DEF newSubscription, SubIDs
  <1>2. sb \in Subscriptions
    <2>1. bodyOrder(h) \in Orders \cup {NoOrder}
      BY RequestArgs DEF newSubscription, Serves, ChargeOps
    <2> QED BY <2>1 DEF Subscriptions
  <1> HIDE DEF id, sb
  <1>3. subscriptions' \in [SubIDs -> Subscriptions \cup {NoSub}]
    BY <1>1, <1>2 DEF newSubscription, TypeOK, subscriptionIDOf, id, sb
  <1>4. subscriptionID' \in [Handlers -> 0..MaxSubs]
    BY <1>1 DEF newSubscription, TypeOK, subscriptionIDOf, id
  <1>5. pc' \in [Handlers -> PCs] /\ RecordIsSubscribe'
    BY DEF newSubscription, TypeOK, Goto, PCs, RecordIsSubscribe, Serves
  <1>6. changed' \subseteq Handlers
    BY DEF newSubscription, TypeOK
  <1>7. TypeOK'
    BY <1>3, <1>4, <1>5, <1>6 DEF newSubscription, TypeOK, scriptVars
  <1> QED
    BY <1>5, <1>7

(* A handler that only reads answers and moves on. *)
LEMMA ReadsType ==
  ASSUME TypeInv, NEW h \in Handlers, NEW from, NEW to \in PCs \ {"record"},
         NEW d \in Responses, Reads(h, from, to, d)
  PROVE  TypeInv'
  <1> USE DEF TypeInv
  <1>1. response' \in [Handlers -> Responses]
    BY AnswerType DEF Reads
  <1>2. pc' \in [Handlers -> PCs] /\ RecordIsSubscribe'
    BY DEF Reads, TypeOK, Goto, RecordIsSubscribe, Serves, localVars
  <1>3. TypeOK'
    BY <1>1, <1>2 DEF Reads, TypeOK, resourceVars, scriptVars, localVars
  <1> QED
    BY <1>2, <1>3

LEMMA RefundType ==
  ASSUME TypeInv, NEW h \in Handlers, refundResponse(h)
  PROVE  TypeInv'
  <1> USE DEF TypeInv
  <1> DEFINE i == request[h].arg
             refunded == [transactionsByID[i] EXCEPT !.status = "refunded"]
  <1>1. i \in HIDs
    BY RequestArgs DEF refundResponse, Serves
  <1>2. CASE Reads(h, "default", "block", V0002)
    BY <1>2, ReadsType, ResponseTypes DEF PCs
  <1>3. CASE /\ transactionsByID[i] # NoTx
             /\ Goto(h, "default", "block")
             /\ transactionsByID' = [transactionsByID EXCEPT ![i] = refunded]
             /\ Answer(h, Succeed(TransactionData(refunded)))
             /\ changed' = changed \cup {h}
             /\ UNCHANGED <<requests, chargeCount, transactionsByOrder, subscriptions,
                            scriptVars, closing, localVars, ctxDone, before>>
    <2>1. refunded \in Transactions
      <3>1. transactionsByID[i] \in Transactions
        BY <1>1, <1>3 DEF TypeOK
      <3> QED BY <3>1 DEF Transactions
    <2>2. transactionsByID' \in [HIDs -> Transactions \cup {NoTx}]
      BY <1>3, <2>1 DEF TypeOK
    <2>3. response' \in [Handlers -> Responses]
      BY <1>3, <2>1, AnswerType, DataTypes, ResponseTypes
    <2>4. pc' \in [Handlers -> PCs] /\ RecordIsSubscribe'
      BY <1>3 DEF TypeOK, Goto, PCs, RecordIsSubscribe, Serves, localVars
    <2>5. TypeOK'
      BY <1>3, <2>2, <2>3, <2>4 DEF TypeOK, scriptVars, localVars
    <2> QED BY <2>4, <2>5
  <1> QED
    BY <1>2, <1>3 DEF refundResponse

LEMMA SubscriptionType ==
  ASSUME TypeInv, NEW h \in Handlers, subscriptionResponse(h)
  PROVE  TypeInv'
  <1> USE DEF TypeInv
  <1> DEFINE s == request[h].arg
             cancelled == [subscriptions[s] EXCEPT !.status = "cancelled",
                                                   !.nextCharge = FALSE]
  <1>1. s \in SubIDs
    BY RequestArgs DEF subscriptionResponse, Serves
  <1>2. CASE Reads(h, "default", "block", V0002)
    BY <1>2, ReadsType, ResponseTypes DEF PCs
  <1>3. CASE /\ subscriptions[s] # NoSub
             /\ Reads(h, "default", "block", Succeed(SubscriptionData(subscriptions[s])))
    <2>1. subscriptions[s] \in Subscriptions
      BY <1>1, <1>3 DEF TypeOK
    <2>2. Succeed(SubscriptionData(subscriptions[s])) \in Responses
      BY <2>1, DataTypes, ResponseTypes
    <2> QED BY <1>3, <2>2, ReadsType DEF PCs
  <1>4. CASE /\ subscriptions[s] # NoSub
             /\ Goto(h, "default", "block")
             /\ subscriptions' = [subscriptions EXCEPT ![s] = cancelled]
             /\ Answer(h, Succeed(SubscriptionData(cancelled)))
             /\ changed' = changed \cup {h}
             /\ UNCHANGED <<requests, chargeCount, transactionsByID, transactionsByOrder,
                            scriptVars, closing, localVars, ctxDone, before>>
    <2>1. cancelled \in Subscriptions
      <3>1. subscriptions[s] \in Subscriptions
        BY <1>1, <1>4 DEF TypeOK
      <3> QED BY <3>1 DEF Subscriptions
    <2>2. subscriptions' \in [SubIDs -> Subscriptions \cup {NoSub}]
      BY <1>4, <2>1 DEF TypeOK
    <2>3. response' \in [Handlers -> Responses]
      BY <1>4, <2>1, AnswerType, DataTypes, ResponseTypes
    <2>4. pc' \in [Handlers -> PCs] /\ RecordIsSubscribe'
      BY <1>4 DEF TypeOK, Goto, PCs, RecordIsSubscribe, Serves, localVars
    <2>5. TypeOK'
      BY <1>4, <2>2, <2>3, <2>4 DEF TypeOK, scriptVars, localVars
    <2> QED BY <2>4, <2>5
  <1> QED
    BY <1>2, <1>3, <1>4 DEF subscriptionResponse

LEMMA QueryType ==
  ASSUME TypeInv, NEW h \in Handlers,
         \/ transactionResponse(h) \/ orderTransactions(h) \/ allTransactions(h)
         \/ listResponse(h) \/ storeSubscriptionsResponse(h) \/ hostedPageResponse(h)
         \/ unknownEndpoint(h)
  PROVE  TypeInv'
  <1> USE DEF TypeInv
  <1>1. CASE transactionResponse(h)
    <2> DEFINE tx == transactionsByID[request[h].arg]
    <2>1. tx \in Transactions \cup {NoTx}
      BY <1>1, RequestArgs DEF transactionResponse, Serves, TypeOK
    <2>2. (IF tx = NoTx THEN V0002 ELSE Succeed(TransactionData(tx))) \in Responses
      BY <2>1, DataTypes, ResponseTypes
    <2> QED BY <1>1, <2>2, ReadsType DEF transactionResponse, PCs
  <1>2. CASE orderTransactions(h)
    <2> DEFINE order == request[h].arg
    <2>1. order \in Orders
      BY <1>2, RequestArgs DEF orderTransactions, Serves
    <2>2. \A tx \in Transactions : Current(tx) \in Transactions
      BY DEF Current, TypeOK, Transactions
    <2>3. Listed(order) \in SUBSET Transactions
      <3>1. transactionsByOrder[order] \in Seq(Transactions)
        BY <2>1 DEF TypeOK
      <3>2. \A k \in DOMAIN transactionsByOrder[order] :
              transactionsByOrder[order][k] \in Transactions
        BY <3>1
      <3> QED BY <2>2, <3>2 DEF Listed
    <2>4. Succeed(ListData(Listed(order))) \in Responses
      BY <2>3, DataTypes, ResponseTypes
    <2> QED BY <1>2, <2>4, ReadsType DEF orderTransactions, PCs
  <1>3. CASE allTransactions(h)
    <2>1. {transactionsByID[i] : i \in HIDs} \ {NoTx} \in SUBSET Transactions
      BY DEF TypeOK
    <2>2. Succeed(ListData({transactionsByID[i] : i \in HIDs} \ {NoTx})) \in Responses
      BY <2>1, DataTypes, ResponseTypes
    <2> QED BY <1>3, <2>2, ReadsType DEF allTransactions, PCs
  <1>4. CASE listResponse(h)
    <2>1. [response[h] EXCEPT !.data.page = nextPageToken] \in Responses
      <3>1. response[h] \in Responses /\ response[h].data \in Data
            /\ nextPageToken \in BOOLEAN
        BY DEF TypeOK, Responses
      <3>2. [response[h].data EXCEPT !.page = nextPageToken] \in Data
        BY <3>1 DEF Data
      <3> QED BY <3>1, <3>2 DEF Responses
    <2> QED BY <1>4, <2>1, ReadsType DEF listResponse, PCs
  <1>5. CASE storeSubscriptionsResponse(h)
    <2>1. Succeed(StoreListData(nextPageToken)) \in Responses
      BY DataTypes, ResponseTypes DEF TypeOK
    <2> QED BY <1>5, <2>1, ReadsType DEF storeSubscriptionsResponse, PCs
  <1>6. CASE hostedPageResponse(h)
    BY <1>6, ReadsType, DataTypes, ResponseTypes DEF hostedPageResponse, PCs
  <1>7. CASE unknownEndpoint(h)
    BY <1>7, ReadsType, ResponseTypes DEF unknownEndpoint, PCs
  <1> QED
    BY <1>1, <1>2, <1>3, <1>4, <1>5, <1>6, <1>7

-----------------------------------------------------------------------------
(* The test program and lost connections. *)
LEMMA TestType ==
  ASSUME TypeInv, Test
  PROVE  TypeInv'
  <1> USE DEF TypeInv
  <1>1. ASSUME NEW key \in ScriptKeys, NEW r \in ScriptResponses, QueueResponse(key, r)
        PROVE  TypeInv'
    <2>1. scripted' \in 0..MaxScript
      BY <1>1, BoundsAssumption DEF QueueResponse, TypeOK
    <2>2. responses' \in [ScriptKeys -> Seq(Responses)]
      <3> DEFINE queuedAs == [r EXCEPT !.seq = scripted + 1]
      <3>1. queuedAs \in Responses
        <4>1. r \in Responses /\ scripted + 1 \in Nat
          BY ScriptAssumption, BoundsAssumption DEF TypeOK
        <4> QED BY <4>1 DEF Responses
      <3>2. Append(responses[key], queuedAs) \in Seq(Responses)
        BY <3>1 DEF TypeOK
      <3> QED BY <1>1, <3>2 DEF QueueResponse, TypeOK
    <2>3. TypeOK'
      BY <1>1, <2>1, <2>2 DEF QueueResponse, TypeOK, resourceVars, localVars
    <2>4. RecordIsSubscribe'
      BY <1>1 DEF QueueResponse, RecordIsSubscribe, Serves, localVars
    <2> QED BY <2>3, <2>4
  <1>2. ASSUME NEW key \in ScriptKeys, Hang(key) \/ Unhang(key)
        PROVE  TypeInv'
    <2>1. TypeOK'
      BY <1>2 DEF Hang, Unhang, TypeOK, resourceVars, localVars
    <2>2. RecordIsSubscribe'
      BY <1>2 DEF Hang, Unhang, RecordIsSubscribe, Serves, localVars
    <2> QED BY <2>1, <2>2
  <1>3. ASSUME NEW token \in BOOLEAN, SetNextPage(token)
        PROVE  TypeInv'
    <2>1. TypeOK'
      BY <1>3 DEF SetNextPage, TypeOK, resourceVars, localVars
    <2>2. RecordIsSubscribe'
      BY <1>3 DEF SetNextPage, RecordIsSubscribe, Serves, localVars
    <2> QED BY <2>1, <2>2
  <1>4. CASE AcceptAnyToken
    <2>1. TypeOK'
      BY <1>4 DEF AcceptAnyToken, TypeOK, resourceVars, localVars
    <2>2. RecordIsSubscribe'
      BY <1>4 DEF AcceptAnyToken, RecordIsSubscribe, Serves, localVars
    <2> QED BY <2>1, <2>2
  <1>5. CASE Close \/ ShutListener \/ CloseReturns
    <2>1. TypeOK'
      BY <1>5 DEF Close, ShutListener, CloseReturns, CloseStep, TypeOK, resourceVars,
                  scriptVars, localVars
    <2>2. RecordIsSubscribe'
      BY <1>5 DEF Close, ShutListener, CloseReturns, CloseStep, RecordIsSubscribe, Serves,
                  localVars
    <2> QED BY <2>1, <2>2
  <1> QED
    BY <1>1, <1>2, <1>3, <1>4, <1>5 DEF Test

LEMMA DisconnectType ==
  ASSUME TypeInv, NEW h \in Handlers, DetectDisconnect(h)
  PROVE  TypeInv'
  BY DEF TypeInv, DetectDisconnect, TypeOK, RecordIsSubscribe, Serves, resourceVars,
         scriptVars, localVars

LEMMA StepType ==
  ASSUME TypeInv, ServerStep \/ UNCHANGED serverVars
  PROVE  TypeInv'
  <1>1. ASSUME NEW h \in Handlers, Serve(h)
        PROVE  TypeInv'
    <2>1. CASE defaultResponse(h)
      BY <2>1, RecordChargeType, NewSubscriptionType, RefundType, SubscriptionType, QueryType
         DEF defaultResponse
    <2>2. CASE ~ defaultResponse(h)
      BY <1>1, <2>2, MoveType, RefuseType, NextResponseType DEF Serve
    <2> QED BY <2>1, <2>2
  <1>2. CASE UNCHANGED serverVars
    BY <1>2 DEF TypeInv, TypeOK, RecordIsSubscribe, Serves, serverVars, resourceVars,
                scriptVars, localVars
  <1> QED
    BY <1>1, <1>2, ReceiveType, TestType, DisconnectType DEF ServerStep

LEMMA NextIsServerStep == Next => ServerStep
  BY RequestAssumption DEF Next, ServerStep

LEMMA InitType == Init => TypeInv
  <1> SUFFICES ASSUME Init PROVE TypeInv
    OBVIOUS
  <1>1. NoRequest \in Requests
    BY DEF NoRequest, Requests, PlainOps
  <1>2. TypeOK
    <2>1. /\ 0 \in 0..MaxCharges /\ 0 \in 0..MaxSubs /\ 0 \in 0..MaxScript
          /\ "idle" \in PCs
      BY BoundsAssumption DEF PCs
    <2>2. responses \in [ScriptKeys -> Seq(Responses)]
      BY DEF Init
    <2>3. transactionsByOrder \in [Orders \cup {NoOrder} -> Seq(Transactions)]
      BY DEF Init
    <2>4. transactionsByID \in [HIDs -> Transactions \cup {NoTx}]
          /\ subscriptions \in [SubIDs -> Subscriptions \cup {NoSub}]
      BY DEF Init
    <2>5. request \in [Handlers -> Requests] /\ response \in [Handlers -> Responses]
      BY <1>1, ResponseTypes DEF Init
    <2>6. /\ pc \in [Handlers -> PCs] /\ queued \in [Handlers -> BOOLEAN]
          /\ hid \in [Handlers -> 0..MaxCharges]
          /\ subscriptionID \in [Handlers -> 0..MaxSubs]
          /\ before \in [Handlers -> SUBSET Handlers]
      BY <2>1 DEF Init
    <2>7. requests \in Seq(Handlers)
      BY DEF Init
    <2>8. /\ blocked \subseteq ScriptKeys
          /\ rejectBadToken \in BOOLEAN /\ nextPageToken \in BOOLEAN
          /\ closing \in {"no", "signalled", "refusing", "returned"}
      BY DEF Init
    <2>9. chargeCount \in 0..MaxCharges /\ scripted \in 0..MaxScript
      BY <2>1 DEF Init
    <2>10. ctxDone \subseteq Handlers /\ changed \subseteq Handlers
      BY DEF Init
    <2> QED
      BY <2>2, <2>3, <2>4, <2>5, <2>6, <2>7, <2>8, <2>9, <2>10 DEF TypeOK
  <1>3. RecordIsSubscribe
    BY DEF Init, RecordIsSubscribe
  <1> QED
    BY <1>2, <1>3 DEF TypeInv

(* The state of the fake stays well formed, whatever is sent to it, scripted*)
(* or blocked.                                                             *)
THEOREM TypeCorrect == Spec => []TypeOK
  <1>1. TypeInv /\ [Next]_serverVars => TypeInv'
    BY StepType, NextIsServerStep
  <1>2. TypeInv => TypeOK
    BY DEF TypeInv
  <1> QED
    BY InitType, <1>1, <1>2, PTL DEF Spec

-----------------------------------------------------------------------------
(***************************************************************************)
(* The two indexes of transactions.                                        *)
(***************************************************************************)
HIDsGivenOut == \A h \in Handlers : hid[h] <= chargeCount

IndexInv == TypeInv /\ IndexesAgree /\ HIDsGivenOut

indexVars == <<chargeCount, transactionsByID, transactionsByOrder, hid>>

(* Two actions touch the indexes. *)
LEMMA IndexSteps ==
  ASSUME ServerStep
  PROVE  UNCHANGED indexVars \/ \E h \in Handlers : recordCharge(h) \/ refundResponse(h)
  <1>1. ASSUME NEW h \in Handlers, Serve(h), ~ recordCharge(h), ~ refundResponse(h)
        PROVE  UNCHANGED indexVars
    <2>1. CASE defaultResponse(h)
      <3>1. CASE newSubscription(h)
        BY <3>1 DEF newSubscription, indexVars
      <3>2. CASE subscriptionResponse(h)
        BY <3>2 DEF subscriptionResponse, Reads, indexVars, resourceVars, localVars
      <3>3. CASE \/ transactionResponse(h) \/ orderTransactions(h) \/ allTransactions(h)
                 \/ listResponse(h) \/ storeSubscriptionsResponse(h)
                 \/ hostedPageResponse(h) \/ unknownEndpoint(h)
        BY <3>3 DEF transactionResponse, orderTransactions, allTransactions, listResponse,
                    storeSubscriptionsResponse, hostedPageResponse, unknownEndpoint, Reads,
                    indexVars, resourceVars, localVars
      <3> QED BY <1>1, <2>1, <3>1, <3>2, <3>3 DEF defaultResponse
    <2>2. CASE \/ Authorized(h) \/ RefuseUnauthorized(h) \/ nextResponse(h) \/ NoneQueued(h)
               \/ CheckBlock(h) \/ Hijack(h) \/ HangEnds(h) \/ writeResponse(h)
      BY <2>2 DEF Authorized, RefuseUnauthorized, nextResponse, NoneQueued, CheckBlock,
                  Hijack, HangEnds, writeResponse, indexVars, resourceVars, localVars
    <2> QED BY <1>1, <2>1, <2>2 DEF Serve
  <1>2. ASSUME NEW h \in Handlers, DetectDisconnect(h)
        PROVE  UNCHANGED indexVars
    BY <1>2 DEF DetectDisconnect, indexVars, resourceVars, localVars
  <1>3. ASSUME NEW h \in Handlers, NEW r \in Requests, Receive(h, r)
        PROVE  UNCHANGED indexVars
    BY <1>3 DEF Receive, indexVars, resourceVars
  <1>4. ASSUME Test
        PROVE  UNCHANGED indexVars
    BY <1>4 DEF Test, QueueResponse, Hang, Unhang, SetNextPage, AcceptAnyToken, Close,
                ShutListener, CloseReturns, CloseStep, indexVars, resourceVars, localVars
  <1> QED
    BY <1>1, <1>2, <1>3, <1>4 DEF ServerStep

LEMMA RecordChargeIndex ==
  ASSUME IndexInv, NEW h \in Handlers, recordCharge(h)
  PROVE  IndexesAgree' /\ HIDsGivenOut'
  <1> USE DEF IndexInv
  <1> DEFINE i == chargeCount + 1
             order == bodyOrder(h)
             action == IF Serves(h, "charge") THEN "onetime" ELSE "subscription"
             tx == Transaction(i, order, action, subscriptionID[h], "charged")
             entries == transactionsByOrder[order]
  <1>1. order \in Orders \cup {NoOrder}
    BY RequestArgs DEF TypeInv, recordCharge, RecordIsSubscribe, Goto, Serves, ChargeOps
  <1>2. i \in HIDs /\ chargeCount \in Nat /\ chargeCount' = i
    BY BoundsAssumption DEF TypeInv, recordCharge, TypeOK, HIDs
  <1>3. tx.id = i /\ tx.order = order /\ tx # NoTx
    BY <1>2 DEF Transaction, NoTx
  <1>4. /\ transactionsByID' = [transactionsByID EXCEPT ![i] = tx]
        /\ transactionsByOrder' = [transactionsByOrder EXCEPT ![order] = Append(entries, tx)]
        /\ hid' = [hid EXCEPT ![h] = i]
    BY DEF recordCharge, hidOf
  <1>5. entries \in Seq(Transactions)
    BY <1>1 DEF TypeInv, TypeOK
  <1> HIDE DEF i, order, tx, entries
  <1>6. Recorded = 1..chargeCount /\ i \notin Recorded
    BY <1>2 DEF IndexesAgree, i
  <1>7. \A j \in HIDs : transactionsByID'[j] = IF j = i THEN tx ELSE transactionsByID[j]
    BY <1>2, <1>4 DEF TypeInv, TypeOK
  <1>8. Recorded' = Recorded \cup {i}
    BY <1>2, <1>3, <1>7 DEF Recorded
  <1>9. Recorded' = 1..chargeCount'
    BY <1>2, <1>6, <1>8 DEF i
  <1>10. \A o \in Orders \cup {NoOrder} :
           transactionsByOrder'[o] = IF o = order THEN Append(entries, tx)
                                     ELSE transactionsByOrder[o]
    BY <1>1, <1>4 DEF TypeInv, TypeOK
  <1>11. /\ DOMAIN Append(entries, tx) = 1..(Len(entries) + 1)
         /\ DOMAIN entries = 1..Len(entries) /\ Len(entries) \in Nat
         /\ \A k \in DOMAIN entries : Append(entries, tx)[k] = entries[k]
         /\ Append(entries, tx)[Len(entries) + 1] = tx
    BY <1>5
  <1>12. EveryChargeIndexed'
    <2> SUFFICES ASSUME NEW j \in Recorded'
                 PROVE  /\ transactionsByID'[j].id = j
                        /\ \E k \in DOMAIN transactionsByOrder'[transactionsByID'[j].order] :
                             transactionsByOrder'[transactionsByID'[j].order][k].id = j
      BY DEF EveryChargeIndexed
    <2>1. CASE j = i
      <3>1. transactionsByID'[j] = tx /\ tx.id = j /\ tx.order = order
        BY <1>2, <1>3, <1>7, <2>1
      <3>2. transactionsByOrder'[order] = Append(entries, tx)
        BY <1>1, <1>10
      <3>3. /\ Len(entries) + 1 \in DOMAIN Append(entries, tx)
            /\ Append(entries, tx)[Len(entries) + 1] = tx
        BY <1>11
      <3> QED BY <3>1, <3>2, <3>3
    <2>2. CASE j # i
      <3>1. j \in Recorded /\ transactionsByID'[j] = transactionsByID[j]
        BY <1>7, <1>8, <2>2 DEF Recorded
      <3> DEFINE o == transactionsByID[j].order
      <3>2. o \in Orders \cup {NoOrder}
        BY <3>1 DEF Recorded, TypeInv, TypeOK, Transactions
      <3>3. PICK k \in DOMAIN transactionsByOrder[o] : transactionsByOrder[o][k].id = j
        BY <3>1 DEF IndexesAgree, EveryChargeIndexed
      <3>4. transactionsByID[j].id = j
        BY <3>1 DEF IndexesAgree, EveryChargeIndexed
      <3>5. CASE o = order
        <4>1. k \in DOMAIN Append(entries, tx) /\ Append(entries, tx)[k].id = j
          BY <1>11, <3>3, <3>5 DEF entries
        <4> QED BY <1>10, <3>1, <3>2, <3>4, <3>5, <4>1
      <3>6. CASE o # order
        BY <1>10, <3>1, <3>2, <3>3, <3>4, <3>6
      <3> QED BY <3>5, <3>6
    <2> QED BY <2>1, <2>2
  <1>13. EveryEntryRecorded'
    <2> SUFFICES ASSUME NEW o \in Orders \cup {NoOrder}, NEW k \in DOMAIN transactionsByOrder'[o]
                 PROVE  LET entry == transactionsByOrder'[o][k] IN
                        /\ entry.id \in Recorded'
                        /\ transactionsByID'[entry.id].order = o
                        /\ \A j \in 1..(k - 1) : transactionsByOrder'[o][j].id < entry.id
      BY DEF EveryEntryRecorded
    <2>1. ASSUME NEW l \in DOMAIN transactionsByOrder[o]
          PROVE  LET entry == transactionsByOrder[o][l] IN
                 /\ entry.id \in Recorded
                 /\ entry.id # i /\ entry.id \in HIDs /\ entry.id < i
                 /\ transactionsByID[entry.id].order = o
                 /\ \A j \in 1..(l - 1) : transactionsByOrder[o][j].id < entry.id
      BY <1>2, <1>6, <2>1 DEF IndexesAgree, EveryEntryRecorded, Recorded, i, HIDs
    <2>2. CASE o # order
      BY <1>7, <1>8, <1>10, <2>1, <2>2
    <2>3. CASE o = order /\ k \in DOMAIN entries
      <3>1. transactionsByOrder'[o][k] = entries[k]
            /\ \A j \in 1..(k - 1) : transactionsByOrder'[o][j] = entries[j]
        <4>1. transactionsByOrder'[o] = Append(entries, tx)
          BY <1>10, <2>3
        <4>2. k \in Nat /\ \A j \in 1..(k - 1) : j \in DOMAIN entries
          BY <1>11, <2>3
        <4> QED BY <1>11, <2>3, <4>1, <4>2
      <3> QED BY <1>7, <1>8, <2>1, <2>3, <3>1 DEF entries
    <2>4. CASE o = order /\ k = Len(entries) + 1
      <3>1. transactionsByOrder'[o][k] = tx
            /\ \A j \in 1..(k - 1) : /\ j \in DOMAIN entries
                                     /\ transactionsByOrder'[o][j] = entries[j]
        <4>1. transactionsByOrder'[o] = Append(entries, tx)
          BY <1>10, <2>4
        <4>2. \A j \in 1..(k - 1) : j \in DOMAIN entries
          BY <1>11, <2>4
        <4> QED BY <1>11, <2>4, <4>1, <4>2
      <3>2. \A j \in 1..(k - 1) : transactionsByOrder'[o][j].id < i
        BY <2>1, <2>4, <3>1 DEF entries
      <3>3. i \in Recorded' /\ transactionsByID'[i].order = o
        BY <1>2, <1>3, <1>7, <1>8, <2>4
      <3> QED BY <1>3, <3>1, <3>2, <3>3
    <2>5. o = order => k \in DOMAIN entries \/ k = Len(entries) + 1
      <3>1. o = order => k \in DOMAIN Append(entries, tx)
        BY <1>10
      <3> QED BY <1>11, <3>1
    <2> QED BY <2>2, <2>3, <2>4, <2>5
  <1>14. HIDsAreDistinct' /\ HIDsGivenOut'
    <2>1. \A g \in Handlers : hid[g] \in 0..MaxCharges /\ hid[g] <= chargeCount
      BY DEF TypeInv, TypeOK, HIDsGivenOut
    <2>2. \A g \in Handlers : hid'[g] = IF g = h THEN i ELSE hid[g]
      BY <1>4 DEF TypeInv, TypeOK
    <2>3. \A g \in Handlers : hid[g] # i
      BY <1>2, <2>1 DEF i
    <2>4. HIDsGivenOut'
      BY <1>2, <2>1, <2>2 DEF HIDsGivenOut, i
    <2>5. HIDsAreDistinct'
      BY <2>2, <2>3 DEF IndexesAgree, HIDsAreDistinct
    <2> QED BY <2>4, <2>5
  <1> QED
    BY <1>9, <1>12, <1>13, <1>14 DEF IndexesAgree

(* A refund changes a status, not what the indexes agree on. *)
LEMMA RefundIndex ==
  ASSUME IndexInv, NEW h \in Handlers, refundResponse(h)
  PROVE  IndexesAgree' /\ HIDsGivenOut'
  <1> USE DEF IndexInv
  <1> DEFINE i == request[h].arg
             refunded == [transactionsByID[i] EXCEPT !.status = "refunded"]
  <1>1. UNCHANGED <<chargeCount, transactionsByOrder, hid>>
    BY DEF refundResponse, Reads, resourceVars, localVars
  <1>2. /\ Recorded' = Recorded
        /\ \A j \in HIDs : /\ transactionsByID'[j].id = transactionsByID[j].id
                          /\ transactionsByID'[j].order = transactionsByID[j].order
    <2>1. CASE transactionsByID' = transactionsByID
      BY <2>1 DEF Recorded
    <2>2. CASE /\ transactionsByID[i] # NoTx
               /\ transactionsByID' = [transactionsByID EXCEPT ![i] = refunded]
      <3>1. i \in HIDs
        BY RequestArgs DEF TypeInv, refundResponse, Serves
      <3>2. transactionsByID[i] \in Transactions
        BY <2>2, <3>1 DEF TypeInv, TypeOK
      <3>3. /\ refunded.id = transactionsByID[i].id
            /\ refunded.order = transactionsByID[i].order
            /\ refunded.status = "refunded"
        BY <3>2 DEF Transactions
      <3>4. refunded # NoTx
        BY <3>3 DEF NoTx, Transaction
      <3>5. \A j \in HIDs :
              transactionsByID'[j] = IF j = i THEN refunded ELSE transactionsByID[j]
        BY <2>2, <3>1 DEF TypeInv, TypeOK
      <3> HIDE DEF refunded, i
      <3> QED BY <2>2, <3>3, <3>4, <3>5 DEF Recorded
    <2> QED BY <2>1, <2>2 DEF refundResponse, Reads, resourceVars
  <1>3. EveryChargeIndexed'
    <2> SUFFICES ASSUME NEW j \in Recorded
                 PROVE  /\ transactionsByID'[j].id = j
                        /\ \E k \in DOMAIN transactionsByOrder[transactionsByID'[j].order] :
                             transactionsByOrder[transactionsByID'[j].order][k].id = j
      BY <1>1, <1>2 DEF EveryChargeIndexed
    <2> QED BY <1>2 DEF IndexesAgree, EveryChargeIndexed, Recorded
  <1>4. EveryEntryRecorded'
    BY <1>1, <1>2 DEF IndexesAgree, EveryEntryRecorded, Recorded
  <1> QED
    BY <1>1, <1>2, <1>3, <1>4 DEF IndexesAgree, HIDsAreDistinct, HIDsGivenOut

LEMMA IndexUnchanged ==
  ASSUME IndexInv, UNCHANGED indexVars
  PROVE  IndexesAgree' /\ HIDsGivenOut'
  BY DEF IndexInv, indexVars, IndexesAgree, Recorded, EveryChargeIndexed, EveryEntryRecorded,
         HIDsAreDistinct, HIDsGivenOut

LEMMA StepIndex ==
  ASSUME IndexInv, ServerStep \/ UNCHANGED serverVars
  PROVE  IndexInv'
  <1>1. TypeInv'
    BY StepType DEF IndexInv
  <1>2. CASE UNCHANGED serverVars
    BY <1>1, <1>2, IndexUnchanged DEF IndexInv, indexVars, serverVars, resourceVars, localVars
  <1>3. CASE ServerStep
    BY <1>1, <1>3, IndexSteps, IndexUnchanged, RecordChargeIndex, RefundIndex DEF IndexInv
  <1> QED
    BY <1>2, <1>3

LEMMA InitIndex == Init => IndexInv
  <1> SUFFICES ASSUME Init PROVE IndexesAgree /\ HIDsGivenOut
    BY InitType DEF IndexInv
  <1>1. Recorded = {} /\ chargeCount = 0
    BY DEF Init, Recorded
  <1>2. EveryChargeIndexed /\ EveryEntryRecorded
    BY <1>1 DEF Init, EveryChargeIndexed, EveryEntryRecorded
  <1>3. HIDsAreDistinct /\ HIDsGivenOut
    BY DEF Init, HIDsAreDistinct, HIDsGivenOut
  <1> QED
    BY <1>1, <1>2, <1>3 DEF IndexesAgree

(* However requests interleave, each HID is given out once and is found in *)
(* both indexes.                                                           *)
THEOREM IndexesAlwaysAgree == Spec => []IndexesAgree
  <1>1. IndexInv /\ [Next]_serverVars => IndexInv'
    BY StepIndex, NextIsServerStep
  <1>2. IndexInv => IndexesAgree
    BY DEF IndexInv
  <1> QED
    BY InitIndex, <1>1, <1>2, PTL DEF Spec

-----------------------------------------------------------------------------
(***************************************************************************)
(* The fake over time.                                                     *)
(***************************************************************************)
(* Nothing was answered or recorded yet. *)
Early == {"idle", "authorize", "next", "default"}

Still(h) ==
  /\ UNCHANGED <<pc[h], request[h], response[h], queued[h], hid[h], subscriptionID[h],
                 before[h]>>
  /\ h \in changed' <=> h \in changed

(* A step by which a handler moves on, or begins. *)
Moves(h) == Serve(h) \/ \E r \in Requests : Receive(h, r)

-----------------------------------------------------------------------------
(***************************************************************************)
(* A step is one handler's at most.                                        *)
(***************************************************************************)
LEMMA OthersAreStill ==
  ASSUME TypeInv, NEW h \in Handlers, Moves(h), NEW g \in Handlers, g # h
  PROVE  Still(g)
  <1> USE DEF TypeInv, TypeOK
  <1>1. CASE \E r \in Requests : Receive(h, r)
    BY <1>1 DEF Receive, Goto, Still, resourceVars
  <1>2. CASE \/ Authorized(h) \/ RefuseUnauthorized(h) \/ NoneQueued(h)
             \/ CheckBlock(h) \/ Hijack(h) \/ HangEnds(h) \/ writeResponse(h)
    BY <1>2 DEF Authorized, RefuseUnauthorized, NoneQueued, CheckBlock, Hijack, HangEnds,
                writeResponse, Goto, Still, resourceVars, localVars
  <1>3. CASE nextResponse(h)
    BY <1>3 DEF nextResponse, Goto, Still, resourceVars
  <1>4. ASSUME NEW from, NEW to, NEW d, Reads(h, from, to, d)
        PROVE  Still(g)
    BY <1>4 DEF Reads, Goto, Answer, Still, resourceVars, localVars
  <1>5. CASE defaultResponse(h)
    <2>1. CASE recordCharge(h)
      <3>1. pc'[g] = pc[g]
        BY <2>1 DEF recordCharge, Goto
      <3>2. response'[g] = response[g] /\ hid'[g] = hid[g]
        BY <2>1 DEF recordCharge, Answer
      <3> QED BY <2>1, <3>1, <3>2 DEF recordCharge, Still
    <2>2. CASE newSubscription(h)
      BY <2>2 DEF newSubscription, Goto, Still
    <2>3. CASE refundResponse(h)
      BY <1>4, <2>3 DEF refundResponse, Goto, Answer, Still, localVars
    <2>4. CASE subscriptionResponse(h)
      BY <1>4, <2>4 DEF subscriptionResponse, Goto, Answer, Still, localVars
    <2>5. CASE \/ transactionResponse(h) \/ orderTransactions(h) \/ allTransactions(h)
               \/ listResponse(h) \/ storeSubscriptionsResponse(h) \/ hostedPageResponse(h)
               \/ unknownEndpoint(h)
      BY <1>4, <2>5 DEF transactionResponse, orderTransactions, allTransactions, listResponse,
                        storeSubscriptionsResponse, hostedPageResponse, unknownEndpoint
    <2> QED BY <1>5, <2>1, <2>2, <2>3, <2>4, <2>5 DEF defaultResponse
  <1> QED BY <1>1, <1>2, <1>3, <1>5 DEF Moves, Serve

(* Nobody moves: the test program's steps, and those of lost connections.  *)
AllAreStill ==
  /\ UNCHANGED <<pc, request, response, queued, hid, subscriptionID, before>>
  /\ UNCHANGED <<transactionsByID, transactionsByOrder, subscriptions, changed>>

LEMMA OneMoves ==
  ASSUME TypeInv, ServerStep \/ UNCHANGED serverVars
  PROVE  AllAreStill \/ \E h \in Handlers : Moves(h)
  <1>1. CASE UNCHANGED serverVars
    BY <1>1 DEF serverVars, resourceVars, localVars, AllAreStill
  <1>2. ASSUME NEW h \in Handlers, DetectDisconnect(h)
        PROVE  AllAreStill
    BY <1>2 DEF DetectDisconnect, resourceVars, localVars, AllAreStill
  <1>3. CASE Test
    BY <1>3 DEF Test, QueueResponse, Hang, Unhang, SetNextPage, AcceptAnyToken, Close,
                ShutListener, CloseReturns, CloseStep, resourceVars, localVars, AllAreStill
  <1> QED BY <1>1, <1>2, <1>3 DEF ServerStep, Moves

-----------------------------------------------------------------------------
(***************************************************************************)
(* What a move does to the resources, and to what its handler holds.       *)
(***************************************************************************)
SameResources == UNCHANGED <<transactionsByID, subscriptions, changed>>

(* Moves that neither hand out an identifier nor change a resource. *)
PlainMove(h) ==
  /\ SameResources
  /\ UNCHANGED <<request, before, hid, subscriptionID>>
  /\ pc[h] # "record" /\ pc'[h] # "record"
  /\ pc'[h] \in Early => pc[h] \in Early
  /\ pc[h] \notin Ended \cup {"idle"}

RefundMove(h) ==
  /\ Serves(h, "refund") /\ request[h].arg \in Recorded
  /\ \A i \in HIDs :
       transactionsByID'[i] = IF i = request[h].arg
                              THEN [transactionsByID[i] EXCEPT !.status = "refunded"]
                              ELSE transactionsByID[i]
  /\ changed' = changed \cup {h}
  /\ pc[h] = "default" /\ pc'[h] = "block"
  /\ UNCHANGED <<request, before, hid, subscriptionID, subscriptions>>

CancelMove(h) ==
  /\ Serves(h, "cancelSub") /\ request[h].arg \in Existing
  /\ \A s \in SubIDs :
       subscriptions'[s] = IF s = request[h].arg
                           THEN [subscriptions[s] EXCEPT !.status = "cancelled",
                                                         !.nextCharge = FALSE]
                           ELSE subscriptions[s]
  /\ changed' = changed \cup {h}
  /\ pc[h] = "default" /\ pc'[h] = "block"
  /\ UNCHANGED <<request, before, hid, subscriptionID, transactionsByID>>

LEMMA ReadsArePlain ==
  ASSUME TypeInv, NEW h \in Handlers, NEW from \in {"default", "page"},
         NEW to \in {"page", "block"}, NEW d, Reads(h, from, to, d)
  PROVE  PlainMove(h)
BY DEF TypeInv, TypeOK, Reads, Goto, PlainMove, SameResources, resourceVars, localVars, Early,
       Ended

LEMMA RefundMoves ==
  ASSUME TypeInv, NEW h \in Handlers, refundResponse(h)
  PROVE  PlainMove(h) \/ RefundMove(h)
  <1> DEFINE i == request[h].arg
             refunded == [transactionsByID[i] EXCEPT !.status = "refunded"]
  <1>1. i \in HIDs /\ Serves(h, "refund")
    BY RequestArgs DEF TypeInv, refundResponse, Serves
  <1>2. CASE Reads(h, "default", "block", V0002)
    BY <1>2, ReadsArePlain
  <1>3. CASE /\ transactionsByID[i] # NoTx
             /\ Goto(h, "default", "block")
             /\ transactionsByID' = [transactionsByID EXCEPT ![i] = refunded]
             /\ changed' = changed \cup {h}
             /\ UNCHANGED <<subscriptions, localVars, before>>
    <2>1. \A j \in HIDs : transactionsByID'[j] = IF j = i THEN refunded ELSE transactionsByID[j]
      <3> HIDE DEF refunded
      <3> QED BY <1>1, <1>3 DEF TypeInv, TypeOK
    <2>2. pc[h] = "default" /\ pc'[h] = "block"
      BY <1>3 DEF TypeInv, TypeOK, Goto
    <2>3. i \in Recorded
      BY <1>1, <1>3 DEF Recorded
    <2> QED BY <1>1, <1>3, <2>1, <2>2, <2>3 DEF RefundMove, localVars
  <1> QED BY <1>2, <1>3 DEF refundResponse

LEMMA SubscriptionMoves ==
  ASSUME TypeInv, NEW h \in Handlers, subscriptionResponse(h)
  PROVE  PlainMove(h) \/ CancelMove(h)
  <1> DEFINE s == request[h].arg
             cancelled == [subscriptions[s] EXCEPT !.status = "cancelled",
                                                   !.nextCharge = FALSE]
  <1>1. s \in SubIDs
    BY RequestArgs DEF TypeInv, subscriptionResponse, Serves
  <1>2. ASSUME NEW d, Reads(h, "default", "block", d)
        PROVE  PlainMove(h)
    BY <1>2, ReadsArePlain
  <1>3. CASE /\ Serves(h, "cancelSub")
             /\ subscriptions[s] # NoSub
             /\ Goto(h, "default", "block")
             /\ subscriptions' = [subscriptions EXCEPT ![s] = cancelled]
             /\ changed' = changed \cup {h}
             /\ UNCHANGED <<transactionsByID, localVars, before>>
    <2>1. \A t \in SubIDs : subscriptions'[t] = IF t = s THEN cancelled ELSE subscriptions[t]
      <3> HIDE DEF cancelled
      <3> QED BY <1>1, <1>3 DEF TypeInv, TypeOK
    <2>2. pc[h] = "default" /\ pc'[h] = "block"
      BY <1>3 DEF TypeInv, TypeOK, Goto
    <2>3. s \in Existing
      BY <1>1, <1>3 DEF Existing
    <2> QED BY <1>3, <2>1, <2>2, <2>3 DEF CancelMove, localVars
  <1> QED BY <1>2, <1>3 DEF subscriptionResponse

LEMMA MoveKinds ==
  ASSUME TypeInv, NEW h \in Handlers, Moves(h)
  PROVE  \/ \E r \in Requests : Receive(h, r)
         \/ PlainMove(h) \/ RefundMove(h) \/ CancelMove(h)
         \/ recordCharge(h) \/ newSubscription(h)
  <1>1. CASE \/ Authorized(h) \/ RefuseUnauthorized(h) \/ NoneQueued(h)
             \/ CheckBlock(h) \/ Hijack(h) \/ HangEnds(h) \/ writeResponse(h)
    BY <1>1 DEF TypeInv, TypeOK, Authorized, RefuseUnauthorized, NoneQueued, CheckBlock,
                Hijack, HangEnds, writeResponse, Goto, PlainMove, SameResources,
                resourceVars, localVars, Early, Ended
  <1>2. CASE nextResponse(h)
    BY <1>2 DEF TypeInv, TypeOK, nextResponse, Goto, PlainMove, SameResources,
                resourceVars, Early, Ended
  <1>3. CASE \/ transactionResponse(h) \/ orderTransactions(h) \/ allTransactions(h)
             \/ listResponse(h) \/ storeSubscriptionsResponse(h) \/ hostedPageResponse(h)
             \/ unknownEndpoint(h)
    BY <1>3, ReadsArePlain DEF transactionResponse, orderTransactions, allTransactions,
                listResponse, storeSubscriptionsResponse, hostedPageResponse, unknownEndpoint
  <1> QED
    BY <1>1, <1>2, <1>3, RefundMoves, SubscriptionMoves DEF Moves, Serve, defaultResponse

LEMMA EndedAreStill ==
  ASSUME TypeInv, ServerStep \/ UNCHANGED serverVars, NEW g \in Handlers, pc[g] \in Ended
  PROVE  Still(g)
  <1>1. CASE AllAreStill
    BY <1>1 DEF AllAreStill, Still
  <1>2. ASSUME NEW h \in Handlers, Moves(h)
        PROVE  h # g
    BY <1>2, MoveKinds DEF Receive, Goto, PlainMove, RefundMove, CancelMove, recordCharge,
                newSubscription, Ended
  <1> QED BY <1>1, <1>2, OneMoves, OthersAreStill
-----------------------------------------------------------------------------
(***************************************************************************)
(* Resources only grow: a recorded transaction keeps what it was charged   *)
(* for, a subscription its order, and what is refunded or cancelled stays  *)
(* so.  This needs the next position to be free, so the subscriptions to   *)
(* be numbered without a gap.                                              *)
(***************************************************************************)
SubscriptionsNumbered == \E n \in Nat : Existing = 1..n

Over(s) == subscriptions[s].status = "cancelled" /\ ~ subscriptions[s].nextCharge

TransactionsKept ==
  \A i \in Recorded :
    /\ i \in Recorded'
    /\ transactionsByID'[i].order = transactionsByID[i].order
    /\ transactionsByID'[i].subscription = transactionsByID[i].subscription
    /\ transactionsByID[i].status = "refunded" => transactionsByID'[i].status = "refunded"

SubscriptionsKept ==
  \A s \in Existing :
    /\ s \in Existing'
    /\ subscriptions'[s].order = subscriptions[s].order
    /\ Over(s) => Over(s)'

(* What a charge adds. *)
LEMMA RecordAdds ==
  ASSUME IndexInv, NEW h \in Handlers, recordCharge(h)
  PROVE  LET i == chargeCount + 1 IN
         /\ i \in HIDs /\ i \notin Recorded /\ i \in Recorded' /\ hid'[h] = i
         /\ \A j \in HIDs : j # i => transactionsByID'[j] = transactionsByID[j]
         /\ transactionsByID'[i].subscription = subscriptionID[h]
         /\ transactionsByID'[i].order = bodyOrder(h)
         /\ transactionsByID'[i].status = "charged"
  <1> DEFINE i == chargeCount + 1
             action == IF Serves(h, "charge") THEN "onetime" ELSE "subscription"
             tx == Transaction(i, bodyOrder(h), action, subscriptionID[h], "charged")
  <1>1. i \in HIDs /\ i \notin 1..chargeCount
    BY BoundsAssumption DEF IndexInv, TypeInv, recordCharge, TypeOK, HIDs
  <1>2. i \notin Recorded
    BY <1>1 DEF IndexInv, IndexesAgree
  <1>3. transactionsByID' = [transactionsByID EXCEPT ![i] = tx] /\ hid' = [hid EXCEPT ![h] = i]
    BY DEF recordCharge, hidOf
  <1>4. /\ tx.subscription = subscriptionID[h] /\ tx.order = bodyOrder(h)
        /\ tx.status = "charged" /\ tx.status # NoTx.status
    BY DEF Transaction, NoTx
  <1> HIDE DEF tx, i
  <1>5. /\ transactionsByID'[i] = tx /\ hid'[h] = i
        /\ \A j \in HIDs : j # i => transactionsByID'[j] = transactionsByID[j]
    BY <1>1, <1>3 DEF IndexInv, TypeInv, TypeOK
  <1>6. i \in Recorded'
    BY <1>1, <1>4, <1>5 DEF Recorded
  <1> QED BY <1>1, <1>2, <1>4, <1>5, <1>6 DEF i

(* What a new subscription adds. *)
LEMMA SubscriptionAdds ==
  ASSUME TypeInv, SubscriptionsNumbered, NEW h \in Handlers, newSubscription(h)
  PROVE  \E s \in SubIDs :
           /\ s # 0 /\ s \notin Existing /\ Existing' = Existing \cup {s}
           /\ subscriptionID'[h] = s
           /\ \A t \in SubIDs : t # s => subscriptions'[t] = subscriptions[t]
           /\ subscriptions'[s].order = bodyOrder(h)
           /\ SubscriptionsNumbered'
  <1>1. PICK n \in Nat : Existing = 1..n
    BY DEF SubscriptionsNumbered
  <1>2. Cardinality(Existing) = n
    BY <1>1, FS_Interval
  <1> DEFINE s == n + 1
             sb == [status |-> "ongoing", order |-> bodyOrder(h), nextCharge |-> TRUE]
  <1>3. s \in SubIDs /\ s # 0 /\ s \notin Existing
    BY <1>1, <1>2, BoundsAssumption DEF newSubscription, SubIDs
  <1>4. /\ subscriptions' = [subscriptions EXCEPT ![s] = sb]
        /\ subscriptionID' = [subscriptionID EXCEPT ![h] = s]
    BY <1>2 DEF newSubscription, subscriptionIDOf
  <1>5. sb.order = bodyOrder(h) /\ sb.status # NoSub.status
    BY DEF NoSub
  <1> HIDE DEF s, sb
  <1>6. /\ subscriptions'[s] = sb /\ subscriptionID'[h] = s
        /\ \A t \in SubIDs : t # s => subscriptions'[t] = subscriptions[t]
    BY <1>3, <1>4 DEF TypeInv, TypeOK
  <1>7. Existing' = Existing \cup {s}
    BY <1>3, <1>5, <1>6 DEF Existing
  <1>8. SubscriptionsNumbered'
    <2>1. Existing' = 1..(n + 1)
      BY <1>1, <1>7 DEF s
    <2> QED BY <2>1 DEF SubscriptionsNumbered
  <1> QED BY <1>3, <1>5, <1>6, <1>7, <1>8

LEMMA ResourcesGrow ==
  ASSUME IndexInv, SubscriptionsNumbered, ServerStep \/ UNCHANGED serverVars
  PROVE  TransactionsKept /\ SubscriptionsKept /\ SubscriptionsNumbered'
  <1> USE DEF IndexInv
  <1>1. ASSUME UNCHANGED transactionsByID
        PROVE  TransactionsKept
    BY <1>1 DEF TransactionsKept, Recorded
  <1>2. ASSUME UNCHANGED subscriptions
        PROVE  SubscriptionsKept /\ SubscriptionsNumbered'
    BY <1>2 DEF SubscriptionsKept, SubscriptionsNumbered, Existing, Over
  <1>3. CASE AllAreStill
    BY <1>1, <1>2, <1>3 DEF AllAreStill
  <1>4. ASSUME NEW h \in Handlers, Moves(h)
        PROVE  TransactionsKept /\ SubscriptionsKept /\ SubscriptionsNumbered'
    <2>1. CASE (\E r \in Requests : Receive(h, r)) \/ PlainMove(h)
      BY <1>1, <1>2, <2>1 DEF Receive, resourceVars, PlainMove, SameResources
    <2>2. CASE RefundMove(h)
      <3> DEFINE i == request[h].arg
                 refunded == [transactionsByID[i] EXCEPT !.status = "refunded"]
      <3>1. i \in Recorded /\ transactionsByID[i] \in Transactions
        BY <2>2 DEF RefundMove, Recorded, TypeInv, TypeOK
      <3>2. /\ refunded.order = transactionsByID[i].order
            /\ refunded.subscription = transactionsByID[i].subscription
            /\ refunded.status = "refunded" /\ refunded.status # NoTx.status
        BY <3>1 DEF Transactions, NoTx, Transaction
      <3>3. \A j \in HIDs : transactionsByID'[j] = IF j = i THEN refunded ELSE transactionsByID[j]
        BY <2>2 DEF RefundMove
      <3> HIDE DEF refunded, i
      <3>4. TransactionsKept
        BY <3>2, <3>3 DEF TransactionsKept, Recorded
      <3> QED BY <1>2, <2>2, <3>4 DEF RefundMove
    <2>3. CASE CancelMove(h)
      <3> DEFINE s == request[h].arg
                 cancelled == [subscriptions[s] EXCEPT !.status = "cancelled",
                                                       !.nextCharge = FALSE]
      <3>1. s \in Existing /\ s \in SubIDs /\ subscriptions[s] \in Subscriptions
        BY <2>3 DEF CancelMove, Existing, TypeInv, TypeOK
      <3>2. /\ cancelled.order = subscriptions[s].order
            /\ cancelled.status = "cancelled" /\ ~ cancelled.nextCharge
            /\ cancelled.status # NoSub.status
        BY <3>1 DEF Subscriptions, NoSub
      <3>3. \A t \in SubIDs : subscriptions'[t] = IF t = s THEN cancelled ELSE subscriptions[t]
        BY <2>3 DEF CancelMove
      <3> HIDE DEF cancelled, s
      <3>4. Existing' = Existing
        BY <3>1, <3>2, <3>3 DEF Existing
      <3>5. SubscriptionsKept
        BY <3>2, <3>3, <3>4 DEF SubscriptionsKept, Existing, Over
      <3>6. SubscriptionsNumbered'
        BY <3>4 DEF SubscriptionsNumbered
      <3> QED BY <1>1, <2>3, <3>5, <3>6 DEF CancelMove
    <2>4. CASE recordCharge(h)
      <3>1. TransactionsKept
        BY <2>4, RecordAdds DEF TransactionsKept, Recorded
      <3> QED BY <1>2, <2>4, <3>1 DEF recordCharge
    <2>5. CASE newSubscription(h)
      <3>1. PICK s \in SubIDs : /\ s \notin Existing /\ Existing' = Existing \cup {s}
                                /\ \A t \in SubIDs : t # s => subscriptions'[t] = subscriptions[t]
                                /\ SubscriptionsNumbered'
        BY <2>5, SubscriptionAdds
      <3>2. SubscriptionsKept
        BY <3>1 DEF SubscriptionsKept, Existing, Over
      <3>3. UNCHANGED transactionsByID
        BY <2>5 DEF newSubscription
      <3> QED BY <1>1, <3>1, <3>2, <3>3
    <2>6. TypeInv
      OBVIOUS
    <2>7. \/ \E r \in Requests : Receive(h, r)
          \/ PlainMove(h) \/ RefundMove(h) \/ CancelMove(h)
          \/ recordCharge(h) \/ newSubscription(h)
      BY <1>4, <2>6, MoveKinds
    <2> QED BY <2>1, <2>2, <2>3, <2>4, <2>5, <2>7
  <1> QED BY <1>3, <1>4, OneMoves
-----------------------------------------------------------------------------
(***************************************************************************)
(* A subscription and its charge.                                          *)
(***************************************************************************)
(* What a handler holds: nothing until it acts, a subscription without a   *)
(* charge between the two critical sections, and both after them.          *)
HolderInv(h) ==
  /\ pc[h] \in Early => hid[h] = 0 /\ subscriptionID[h] = 0 /\ h \notin changed
  /\ pc[h] = "record" => subscriptionID[h] # 0
  /\ subscriptionID[h] # 0 =>
       /\ subscriptionID[h] \in Existing
       /\ subscriptions[subscriptionID[h]].order = bodyOrder(h)
       /\ \/ pc[h] = "record"
          \/ /\ hid[h] # 0
             /\ transactionsByID[hid[h]].subscription = subscriptionID[h]
             /\ transactionsByID[hid[h]].order = bodyOrder(h)

HoldersAreDistinct ==
  \A g, h \in Handlers : subscriptionID[g] # 0 /\ subscriptionID[g] = subscriptionID[h] => g = h

EveryoneIsHeld == \A s \in Existing : \E h \in Handlers : subscriptionID[h] = s

SubscribersInv ==
  /\ IndexInv /\ SubscriptionsNumbered
  /\ HoldersAreDistinct /\ EveryoneIsHeld
  /\ \A h \in Handlers : HolderInv(h)

LEMMA HeldIsRecorded ==
  ASSUME IndexInv, NEW h \in Handlers, hid[h] # 0
  PROVE  hid[h] \in Recorded /\ hid[h] \in HIDs
BY BoundsAssumption DEF IndexInv, TypeInv, TypeOK, IndexesAgree, HIDsGivenOut, HIDs

(* A handler that holds the same and whose order is the same. *)
LEMMA HolderKept ==
  ASSUME SubscribersInv, TransactionsKept, SubscriptionsKept, NEW h \in Handlers,
         UNCHANGED <<request[h], hid[h], subscriptionID[h]>>,
         h \in changed' => h \in changed \/ pc'[h] \notin Early,
         pc'[h] \in Early => pc[h] \in Early,
         pc[h] = "record" <=> pc'[h] = "record"
  PROVE  HolderInv(h)'
  <1>1. bodyOrder(h)' = bodyOrder(h)
    BY DEF bodyOrder
  <1>2. HolderInv(h) /\ IndexInv
    BY DEF SubscribersInv
  <1>3. subscriptionID[h] # 0 =>
          /\ subscriptionID[h] \in Existing'
          /\ subscriptions'[subscriptionID[h]].order = subscriptions[subscriptionID[h]].order
    BY <1>2 DEF HolderInv, SubscriptionsKept
  <1>4. hid[h] # 0 =>
          /\ transactionsByID'[hid[h]].order = transactionsByID[hid[h]].order
          /\ transactionsByID'[hid[h]].subscription = transactionsByID[hid[h]].subscription
    BY <1>2, HeldIsRecorded DEF TransactionsKept
  <1> QED BY <1>1, <1>2, <1>3, <1>4 DEF HolderInv

LEMMA HolderStep ==
  ASSUME SubscribersInv, ServerStep \/ UNCHANGED serverVars, NEW h \in Handlers
  PROVE  HolderInv(h)'
  <1>1. TypeInv /\ IndexInv /\ SubscriptionsNumbered /\ HolderInv(h)
    BY DEF SubscribersInv, IndexInv
  <1>2. TransactionsKept /\ SubscriptionsKept
    BY <1>1, ResourcesGrow
  <1>3. CASE Still(h)
    BY <1>2, <1>3, HolderKept DEF Still
  <1>4. CASE PlainMove(h)
    BY <1>2, <1>4, HolderKept DEF PlainMove, SameResources
  <1>5. CASE RefundMove(h) \/ CancelMove(h)
    BY <1>2, <1>5, HolderKept DEF RefundMove, CancelMove, Early
  <1>6. ASSUME NEW r \in Requests, Receive(h, r)
        PROVE  HolderInv(h)'
    BY <1>1, <1>6 DEF Receive, Goto, TypeInv, TypeOK, HolderInv, Early, resourceVars
  <1>7. CASE newSubscription(h)
    <2>1. pc'[h] = "record" /\ UNCHANGED <<request, hid>>
      BY <1>1, <1>7 DEF newSubscription, Goto, TypeInv, TypeOK
    <2>2. bodyOrder(h)' = bodyOrder(h)
      BY <2>1 DEF bodyOrder
    <2>3. PICK s \in SubIDs : /\ s # 0 /\ Existing' = Existing \cup {s}
                              /\ subscriptionID'[h] = s
                              /\ subscriptions'[s].order = bodyOrder(h)
      BY <1>1, <1>7, SubscriptionAdds
    <2> QED BY <2>1, <2>2, <2>3 DEF HolderInv, Early
  <1>8. CASE recordCharge(h)
    <2>1. /\ pc'[h] = "block" /\ pc[h] \in {"default", "record"}
          /\ UNCHANGED <<request, subscriptionID, subscriptions>>
      BY <1>1, <1>8 DEF recordCharge, Goto, TypeInv, TypeOK
    <2>2. bodyOrder(h)' = bodyOrder(h) /\ Existing' = Existing
      BY <2>1 DEF bodyOrder, Existing
    <2>3. /\ hid'[h] # 0
          /\ transactionsByID'[hid'[h]].subscription = subscriptionID[h]
          /\ transactionsByID'[hid'[h]].order = bodyOrder(h)
      <3>1. chargeCount + 1 # 0
        BY <1>1 DEF TypeInv, TypeOK
      <3> QED BY <1>1, <1>8, <3>1, RecordAdds
    <2> QED BY <1>1, <2>1, <2>2, <2>3 DEF HolderInv, Early
  <1>9. CASE Moves(h)
    BY <1>1, <1>4, <1>5, <1>6, <1>7, <1>8, <1>9, MoveKinds
  <1> QED
    <2>1. Still(h) \/ Moves(h)
      <3>1. AllAreStill => Still(h)
        BY DEF AllAreStill, Still
      <3> QED BY <1>1, <3>1, OneMoves, OthersAreStill
    <2> QED BY <1>3, <1>9, <2>1

(* Nobody but a new subscription's handler comes to hold one. *)
LEMMA NewHolder ==
  ASSUME SubscribersInv, ServerStep \/ UNCHANGED serverVars
  PROVE  \/ /\ Existing' = Existing
            /\ \A h \in Handlers : subscriptionID'[h] = subscriptionID[h]
         \/ \E h \in Handlers, s \in SubIDs :
              /\ s \notin Existing /\ Existing' = Existing \cup {s}
              /\ subscriptionID[h] = 0 /\ subscriptionID'[h] = s
              /\ \A g \in Handlers : g # h => subscriptionID'[g] = subscriptionID[g]
  <1>1. TypeInv /\ IndexInv /\ SubscriptionsNumbered
    BY DEF SubscribersInv, IndexInv
  <1>2. CASE AllAreStill
    BY <1>2 DEF AllAreStill, Existing
  <1>3. ASSUME NEW h \in Handlers, newSubscription(h)
        PROVE  \E s \in SubIDs :
                 /\ s \notin Existing /\ Existing' = Existing \cup {s}
                 /\ subscriptionID[h] = 0 /\ subscriptionID'[h] = s
                 /\ \A g \in Handlers : g # h => subscriptionID'[g] = subscriptionID[g]
    <2>1. subscriptionID[h] = 0
      BY <1>3 DEF newSubscription, Goto, SubscribersInv, HolderInv, Early
    <2>2. \A g \in Handlers : g # h => subscriptionID'[g] = subscriptionID[g]
      BY <1>1, <1>3, OthersAreStill DEF Moves, Serve, defaultResponse, Still
    <2> QED BY <1>1, <1>3, <2>1, <2>2, SubscriptionAdds
  <1>4. ASSUME NEW h \in Handlers, CancelMove(h)
        PROVE  Existing' = Existing /\ UNCHANGED subscriptionID
    <2> DEFINE s == request[h].arg
               cancelled == [subscriptions[s] EXCEPT !.status = "cancelled",
                                                     !.nextCharge = FALSE]
    <2>1. s \in Existing /\ s \in SubIDs /\ subscriptions[s] \in Subscriptions
      BY <1>1, <1>4 DEF CancelMove, Existing, TypeInv, TypeOK
    <2>2. cancelled.status = "cancelled" /\ cancelled.status # NoSub.status
      BY <2>1 DEF Subscriptions, NoSub
    <2>3. \A t \in SubIDs : subscriptions'[t] = IF t = s THEN cancelled ELSE subscriptions[t]
      BY <1>4 DEF CancelMove
    <2> HIDE DEF cancelled, s
    <2>4. Existing' = Existing
      BY <2>1, <2>2, <2>3 DEF Existing
    <2> QED BY <1>4, <2>4 DEF CancelMove
  <1>5. ASSUME NEW h \in Handlers, Moves(h), ~ newSubscription(h)
        PROVE  Existing' = Existing /\ UNCHANGED subscriptionID
    <2>1. CASE (\E r \in Requests : Receive(h, r)) \/ PlainMove(h) \/ RefundMove(h)
      BY <2>1 DEF Receive, resourceVars, PlainMove, SameResources, RefundMove, Existing
    <2>2. CASE recordCharge(h)
      BY <2>2 DEF recordCharge, Existing
    <2> QED BY <1>1, <1>4, <1>5, <2>1, <2>2, MoveKinds
  <1> QED BY <1>1, <1>2, <1>3, <1>5, OneMoves

LEMMA SubscriptionStep ==
  ASSUME SubscribersInv, ServerStep \/ UNCHANGED serverVars
  PROVE  SubscribersInv'
  <1>1. IndexInv' /\ SubscriptionsNumbered' /\ \A h \in Handlers : HolderInv(h)'
    BY StepIndex, ResourcesGrow, HolderStep DEF SubscribersInv
  <1>2. \A h \in Handlers : subscriptionID[h] # 0 => subscriptionID[h] \in Existing
    BY DEF SubscribersInv, HolderInv
  <1>3. HoldersAreDistinct'
    BY <1>2, NewHolder DEF SubscribersInv, HoldersAreDistinct
  <1>4. EveryoneIsHeld'
    <2>1. 0 \notin SubIDs /\ Existing \subseteq SubIDs
      BY DEF SubIDs, Existing
    <2> QED BY <2>1, NewHolder DEF SubscribersInv, EveryoneIsHeld
  <1> QED BY <1>1, <1>3, <1>4 DEF SubscribersInv

LEMMA InitSubscription == Init => SubscribersInv
  <1> SUFFICES ASSUME Init PROVE SubscribersInv
    OBVIOUS
  <1>1. Existing = {} /\ SubscriptionsNumbered
    <2>1. Existing = {}
      BY DEF Init, Existing
    <2>2. 1..0 = {} /\ 0 \in Nat
      OBVIOUS
    <2> QED BY <2>1, <2>2 DEF SubscriptionsNumbered
  <1>2. HoldersAreDistinct /\ EveryoneIsHeld
    BY <1>1 DEF Init, HoldersAreDistinct, EveryoneIsHeld
  <1>3. \A h \in Handlers : HolderInv(h)
    BY DEF Init, HolderInv, Early
  <1> QED BY <1>1, <1>2, <1>3, InitIndex DEF SubscribersInv

(* A subscription belongs to the one request that created it and lacks its *)
(* first charge only until that request's next step, however many          *)
(* subscribe, cancel and charge at the same time.                          *)
THEOREM SubscriptionsGetTheirCharge == Spec => []SubscriptionHasItsCharge
  <1>1. SubscribersInv /\ [Next]_serverVars => SubscribersInv'
    BY SubscriptionStep, NextIsServerStep
  <1>2. SubscribersInv => SubscriptionHasItsCharge
    <2> SUFFICES ASSUME SubscribersInv, NEW s \in SubIDs, subscriptions[s] # NoSub
                 PROVE  \E h \in Handlers :
                          /\ subscriptionID[h] = s
                          /\ \A g \in Handlers \ {h} : subscriptionID[g] # s
                          /\ \/ pc[h] = "record"
                             \/ /\ hid[h] # 0
                                /\ transactionsByID[hid[h]].subscription = s
                                /\ transactionsByID[hid[h]].order = subscriptions[s].order
      BY DEF SubscriptionHasItsCharge
    <2>1. s \in Existing /\ s # 0
      BY DEF Existing, SubIDs
    <2>2. PICK h \in Handlers : subscriptionID[h] = s
      BY <2>1 DEF SubscribersInv, EveryoneIsHeld
    <2>3. \A g \in Handlers \ {h} : subscriptionID[g] # s
      BY <2>1, <2>2 DEF SubscribersInv, HoldersAreDistinct
    <2>4. HolderInv(h)
      BY DEF SubscribersInv
    <2> QED BY <2>1, <2>2, <2>3, <2>4 DEF HolderInv
  <1> QED BY InitSubscription, <1>1, <1>2, PTL DEF Spec
-----------------------------------------------------------------------------
(***************************************************************************)
(* Reads see the writes of requests that ended before them.                *)
(***************************************************************************)
RefundsStand ==
  \A g \in Handlers, i \in HIDs :
    Refunded(g, i) => i \in Recorded /\ transactionsByID[i].status = "refunded"

CancelsStand ==
  \A g \in Handlers, s \in SubIDs : Cancelled(g, s) => s \in Existing /\ Over(s)

BeforeHasEnded == \A h \in Handlers : \A g \in before[h] : pc[g] \in Ended

(* ReadsSeeEarlierWrites, for one reader and one earlier request. *)
Sees(h, g) ==
  /\ \A i \in HIDs : hid[g] = i /\ Covers(h, i) =>
       \E tx \in response[h].data.txs : tx.id = i
  /\ \A i \in HIDs : Refunded(g, i) /\ Covers(h, i) =>
       \A tx \in response[h].data.txs : tx.id = i => tx.status = "refunded"
  /\ \A s \in SubIDs : Cancelled(g, s) /\ Serves(h, "getSub") /\ request[h].arg = s =>
       response[h].data.sub.status = "cancelled" /\ ~ response[h].data.sub.nextCharge

HasAnswer == {"page", "block", "write", "done"}

AnswersSee ==
  \A h \in Handlers :
    pc[h] \in HasAnswer /\ ~ queued[h] /\ response[h].code # CodeUnauthorized =>
      \A g \in before[h] : Sees(h, g)

ReadInv ==
  SubscribersInv /\ RefundsStand /\ CancelsStand /\ BeforeHasEnded /\ AnswersSee

QueryOps == {"getTx", "listOrder", "listTx", "getSub"}

LEMMA SeesKept ==
  ASSUME ReadInv, TransactionsKept, NEW h \in Handlers, NEW g \in Handlers, Sees(h, g),
         Still(g), request'[h] = request[h],
         response'[h].data.txs = response[h].data.txs,
         response'[h].data.sub = response[h].data.sub
  PROVE  Sees(h, g)'
  <1>1. \A i \in HIDs : hid[g] = i \/ Refunded(g, i) =>
          i \in Recorded /\ transactionsByID'[i].order = transactionsByID[i].order
    <2>1. \A i \in HIDs : hid[g] = i => i \in Recorded
      BY HeldIsRecorded DEF ReadInv, SubscribersInv, HIDs
    <2>2. \A i \in HIDs : Refunded(g, i) => i \in Recorded
      BY DEF ReadInv, RefundsStand
    <2> QED BY <2>1, <2>2 DEF TransactionsKept
  <1>2. /\ hid'[g] = hid[g]
        /\ \A i : Refunded(g, i)' <=> Refunded(g, i)
        /\ \A s : Cancelled(g, s)' <=> Cancelled(g, s)
    BY DEF Still, Refunded, Cancelled, Serves
  <1>3. \A i \in HIDs : hid[g] = i \/ Refunded(g, i) => (Covers(h, i)' <=> Covers(h, i))
    BY <1>1 DEF Covers, Serves
  <1>4. Serves(h, "getSub")' <=> Serves(h, "getSub")
    BY DEF Serves
  <1> QED BY <1>2, <1>3, <1>4 DEF Sees

(* A query answered from the resources as they are. *)
LEMMA FreshAnswerSees ==
  ASSUME ReadInv, NEW h \in Handlers, ~ queued[h], NEW g \in Handlers, g # h, Moves(h),
         \/ transactionResponse(h) \/ orderTransactions(h) \/ allTransactions(h)
         \/ subscriptionResponse(h) /\ Serves(h, "getSub")
  PROVE  Sees(h, g)'
  <1> USE DEF ReadInv, SubscribersInv, IndexInv
  <1>1. TypeInv /\ TypeOK /\ IndexesAgree
    BY DEF TypeInv
  <1>2. UNCHANGED <<request, hid, changed, transactionsByID, transactionsByOrder, subscriptions>>
    BY DEF transactionResponse, orderTransactions, allTransactions, subscriptionResponse,
           Serves, Reads, resourceVars, localVars
  <1>3. \A i \in HIDs : hid[g] = i => i \in Recorded
    BY HeldIsRecorded DEF HIDs
  <1>4. \A i \in Recorded : transactionsByID[i].id = i
    BY <1>1 DEF IndexesAgree, EveryChargeIndexed
  <1>5. \A i \in HIDs : Refunded(g, i) => i \in Recorded /\ transactionsByID[i].status = "refunded"
    BY DEF RefundsStand
  <1>6. /\ \A i \in HIDs : Covers(h, i)' <=> Covers(h, i)
        /\ \A i \in HIDs : Refunded(g, i)' <=> Refunded(g, i)
        /\ \A s \in SubIDs : Cancelled(g, s)' <=> Cancelled(g, s)
        /\ \A op : Serves(h, op)' <=> Serves(h, op)
    BY <1>2 DEF Covers, Refunded, Cancelled, Serves
  <1>7. ASSUME NEW txs, response'[h].data.txs = txs, ~ Serves(h, "getSub"),
               \A i \in Recorded : Covers(h, i) => transactionsByID[i] \in txs,
               \A tx \in txs : tx.id \in Recorded => tx = transactionsByID[tx.id]
        PROVE  Sees(h, g)'
    <2>1. \A i \in HIDs : hid[g] = i /\ Covers(h, i) => \E tx \in txs : tx.id = i
      BY <1>3, <1>4, <1>7
    <2>2. \A i \in HIDs : Refunded(g, i) /\ Covers(h, i) =>
            \A tx \in txs : tx.id = i => tx.status = "refunded"
      BY <1>5, <1>7
    <2> QED BY <1>2, <1>6, <1>7, <2>1, <2>2 DEF Sees
  <1>8. CASE transactionResponse(h)
    <2> DEFINE i == request[h].arg
               tx == transactionsByID[i]
    <2>1. i \in HIDs /\ Serves(h, "getTx") /\ ~ Serves(h, "getSub")
      BY <1>1, <1>8, RequestArgs DEF transactionResponse, Serves
    <2>2. response'[h] = IF tx = NoTx THEN V0002 ELSE Succeed(TransactionData(tx))
      BY <1>1, <1>8 DEF transactionResponse, Reads, Answer, TypeOK
    <2>3. response'[h].data.txs = IF tx = NoTx THEN {} ELSE {tx}
      <3>1. TransactionData(tx).txs = {tx} /\ NoData.txs = {}
        BY DEF TransactionData, NoData
      <3>2. \A d : Succeed(d).data = d
        BY DEF Succeed, Response
      <3>3. V0002.data = NoData
        BY DEF V0002, Response
      <3> QED BY <2>2, <3>1, <3>2, <3>3
    <2>4. \A j : Covers(h, j) => j = i
      BY <2>1 DEF Covers, Serves
    <2>5. i \in Recorded <=> tx # NoTx
      BY <2>1 DEF Recorded
    <2> HIDE DEF i
    <2> QED BY <1>4, <1>7, <2>1, <2>3, <2>4, <2>5
  <1>9. CASE orderTransactions(h)
    <2> DEFINE order == request[h].arg
               entries == transactionsByOrder[order]
    <2>1. order \in Orders /\ Serves(h, "listOrder") /\ ~ Serves(h, "getSub")
      BY <1>1, <1>9, RequestArgs DEF orderTransactions, Serves
    <2>2. response'[h].data.txs = Listed(order)
      <3>1. response'[h] = Succeed(ListData(Listed(order)))
        BY <1>1, <1>9 DEF orderTransactions, Reads, Answer, TypeOK
      <3>2. ListData(Listed(order)).txs = Listed(order)
        BY DEF ListData, NoData
      <3>3. \A d : Succeed(d).data = d
        BY DEF Succeed, Response
      <3> QED BY <3>1, <3>2, <3>3
    <2>3. \A k \in DOMAIN entries :
            entries[k].id \in Recorded /\ Current(entries[k]) = transactionsByID[entries[k].id]
      BY <1>1, <2>1 DEF IndexesAgree, EveryEntryRecorded, Current, Recorded
    <2>4. \A j \in Recorded : Covers(h, j) => transactionsByID[j] \in Listed(order)
      <3> SUFFICES ASSUME NEW j \in Recorded, Covers(h, j)
                   PROVE  transactionsByID[j] \in Listed(order)
        OBVIOUS
      <3>1. transactionsByID[j].order = order
        BY <2>1 DEF Covers, Serves
      <3>2. PICK k \in DOMAIN entries : entries[k].id = j
        BY <1>1, <3>1 DEF IndexesAgree, EveryChargeIndexed
      <3> QED BY <2>3, <3>2 DEF Listed
    <2>5. \A tx \in Listed(order) : tx.id \in Recorded => tx = transactionsByID[tx.id]
      BY <1>4, <2>3 DEF Listed
    <2> QED BY <1>7, <2>1, <2>2, <2>4, <2>5
  <1>10. CASE allTransactions(h)
    <2> DEFINE all == {transactionsByID[i] : i \in HIDs} \ {NoTx}
    <2>1. response'[h].data.txs = all
      <3>1. response'[h] = Succeed(ListData(all))
        BY <1>1, <1>10 DEF allTransactions, Reads, Answer, TypeOK
      <3>2. ListData(all).txs = all
        BY DEF ListData, NoData
      <3>3. \A d : Succeed(d).data = d
        BY DEF Succeed, Response
      <3> QED BY <3>1, <3>2, <3>3
    <2>2. \A j \in Recorded : transactionsByID[j] \in all
      BY DEF Recorded
    <2>3. \A tx \in all : tx.id \in Recorded => tx = transactionsByID[tx.id]
      BY <1>4 DEF Recorded
    <2>4. ~ Serves(h, "getSub")
      BY <1>10 DEF allTransactions, Serves
    <2> HIDE DEF all
    <2> QED BY <1>7, <2>1, <2>2, <2>3, <2>4
  <1>11. CASE subscriptionResponse(h) /\ Serves(h, "getSub")
    <2> DEFINE s == request[h].arg
    <2>1. s \in SubIDs
      BY <1>1, <1>11, RequestArgs DEF Serves
    <2>2. \A i \in HIDs : ~ Covers(h, i)
      BY <1>11 DEF Covers, Serves
    <2>3. Cancelled(g, s) => s \in Existing /\ Over(s)
      BY <2>1 DEF CancelsStand
    <2>4. s \in Existing => response'[h].data.sub = subscriptions[s]
      <3>1. s \in Existing => response'[h] = Succeed(SubscriptionData(subscriptions[s]))
        BY <1>1, <1>11 DEF subscriptionResponse, Reads, Answer, TypeOK, Existing, Serves
      <3>2. \A sb : SubscriptionData(sb).sub = sb
        BY DEF SubscriptionData, NoData
      <3>3. \A d : Succeed(d).data = d
        BY DEF Succeed, Response
      <3> QED BY <3>1, <3>2, <3>3
    <2>5. ASSUME Cancelled(g, s)
          PROVE  response'[h].data.sub.status = "cancelled" /\ ~ response'[h].data.sub.nextCharge
      BY <2>3, <2>4, <2>5 DEF Over
    <2>6. \A t \in SubIDs : Cancelled(g, t)' /\ Serves(h, "getSub")' /\ request'[h].arg = t =>
            response'[h].data.sub.status = "cancelled" /\ ~ response'[h].data.sub.nextCharge
      BY <1>2, <1>6, <2>5
    <2> QED BY <1>6, <2>2, <2>6 DEF Sees
  <1> QED BY <1>8, <1>9, <1>10, <1>11
(* A handler that has an answer after its step had it before, or is a query *)
(* that reads the resources, or a request with nothing to see.             *)
LEMMA AnswerMoves ==
  ASSUME TypeInv, NEW h \in Handlers, Moves(h),
         pc'[h] \in HasAnswer, ~ queued'[h], response'[h].code # CodeUnauthorized
  PROVE  /\ request'[h] = request[h] /\ before'[h] = before[h] /\ ~ queued[h]
         /\ \/ /\ pc[h] \in HasAnswer /\ response[h].code # CodeUnauthorized
               /\ response'[h].data.txs = response[h].data.txs
               /\ response'[h].data.sub = response[h].data.sub
            \/ request[h].op \notin QueryOps
            \/ transactionResponse(h) \/ orderTransactions(h) \/ allTransactions(h)
            \/ subscriptionResponse(h) /\ Serves(h, "getSub")
  <1> USE DEF TypeInv, TypeOK
  <1>1. CASE \/ \E r \in Requests : Receive(h, r)
             \/ Authorized(h) \/ NoneQueued(h) \/ Hijack(h) \/ HangEnds(h)
    BY <1>1 DEF Receive, Authorized, NoneQueued, Hijack, HangEnds, Goto, HasAnswer, Ended
  <1>2. CASE RefuseUnauthorized(h)
    <2>1. response'[h] = Unauthorized
      BY <1>2 DEF RefuseUnauthorized
    <2> QED BY <2>1 DEF Unauthorized, Response
  <1>3. CASE nextResponse(h)
    BY <1>3 DEF nextResponse, Goto, HasAnswer
  <1>4. CASE CheckBlock(h) \/ writeResponse(h)
    BY <1>4 DEF CheckBlock, writeResponse, Goto, HasAnswer, localVars
  <1>5. CASE listResponse(h)
    <2>1. /\ UNCHANGED <<request, before, queued>> /\ pc[h] = "page"
          /\ response'[h] = [response[h] EXCEPT !.data.page = nextPageToken]
      BY <1>5 DEF listResponse, Reads, Answer, Goto, localVars
    <2>2. response[h] \in Responses /\ response[h].data \in Data
      BY DEF Responses
    <2>3. /\ response'[h].code = response[h].code
          /\ response'[h].data = [response[h].data EXCEPT !.page = nextPageToken]
      BY <2>1, <2>2 DEF Responses
    <2>4. /\ response'[h].data.txs = response[h].data.txs
          /\ response'[h].data.sub = response[h].data.sub
      BY <2>2, <2>3 DEF Data
    <2> QED BY <2>1, <2>3, <2>4 DEF HasAnswer
  <1>6. CASE recordCharge(h) \/ newSubscription(h)
    <2>1. request[h].op \notin QueryOps
      BY <1>6 DEF recordCharge, newSubscription, Goto, RecordIsSubscribe, Serves, QueryOps
    <2> QED BY <1>6, <2>1 DEF recordCharge, newSubscription
  <1>7. CASE \/ refundResponse(h) \/ storeSubscriptionsResponse(h) \/ hostedPageResponse(h)
             \/ unknownEndpoint(h)
    <2>1. request[h].op \notin QueryOps
      BY <1>7 DEF refundResponse, storeSubscriptionsResponse, hostedPageResponse,
                  unknownEndpoint, Serves, QueryOps
    <2>2. UNCHANGED <<request, before, queued>>
      BY <1>7 DEF refundResponse, storeSubscriptionsResponse, hostedPageResponse,
                  unknownEndpoint, Reads, localVars
    <2> QED BY <2>1, <2>2
  <1>8. CASE subscriptionResponse(h)
    <2>1. Serves(h, "getSub") \/ request[h].op \notin QueryOps
      BY <1>8 DEF subscriptionResponse, Serves, QueryOps
    <2>2. UNCHANGED <<request, before, queued>>
      BY <1>8 DEF subscriptionResponse, Reads, localVars
    <2> QED BY <1>8, <2>1, <2>2
  <1>9. CASE transactionResponse(h) \/ orderTransactions(h) \/ allTransactions(h)
    <2>1. UNCHANGED <<request, before, queued>>
      BY <1>9 DEF transactionResponse, orderTransactions, allTransactions, Reads, localVars
    <2> QED BY <1>9, <2>1
  <1> QED
    BY <1>1, <1>2, <1>3, <1>4, <1>5, <1>6, <1>7, <1>8, <1>9 DEF Moves, Serve, defaultResponse

LEMMA AnswersStep ==
  ASSUME ReadInv, ServerStep \/ UNCHANGED serverVars
  PROVE  AnswersSee'
  <1>1. TypeInv /\ TypeOK /\ IndexInv /\ SubscriptionsNumbered
    BY DEF ReadInv, SubscribersInv, IndexInv, TypeInv
  <1>2. TransactionsKept
    BY <1>1, ResourcesGrow
  <1> SUFFICES ASSUME NEW h \in Handlers, pc'[h] \in HasAnswer, ~ queued'[h],
                      response'[h].code # CodeUnauthorized, NEW g \in before'[h]
               PROVE  Sees(h, g)'
    BY DEF AnswersSee
  <1>3. before[h] \subseteq Handlers /\ \A q \in before[h] : pc[q] \in Ended /\ Still(q)
    BY <1>1, EndedAreStill DEF ReadInv, BeforeHasEnded, TypeOK
  <1>4. CASE Still(h)
    <2>1. g \in before[h] /\ Sees(h, g)
      BY <1>4 DEF Still, ReadInv, AnswersSee
    <2> QED BY <1>2, <1>3, <1>4, <2>1, SeesKept DEF Still
  <1>5. CASE Moves(h)
    <2>1. g \in before[h] /\ g \in Handlers /\ Still(g) /\ request'[h] = request[h] /\ ~ queued[h]
      BY <1>1, <1>3, <1>5, AnswerMoves
    <2>2. CASE /\ pc[h] \in HasAnswer /\ response[h].code # CodeUnauthorized
               /\ response'[h].data.txs = response[h].data.txs
               /\ response'[h].data.sub = response[h].data.sub
      <3>1. Sees(h, g)
        BY <2>1, <2>2 DEF ReadInv, AnswersSee
      <3> QED BY <1>2, <2>1, <2>2, <3>1, SeesKept
    <2>3. CASE request[h].op \notin QueryOps
      <3>1. request'[h].op \notin QueryOps
        BY <2>1, <2>3
      <3> QED BY <3>1 DEF Sees, Covers, Serves, QueryOps
    <2>4. CASE \/ transactionResponse(h) \/ orderTransactions(h) \/ allTransactions(h)
               \/ subscriptionResponse(h) /\ Serves(h, "getSub")
      <3>1. pc[h] \in {"default"}
        BY <2>4 DEF transactionResponse, orderTransactions, allTransactions,
                    subscriptionResponse, Reads, Goto, Serves
      <3>2. g # h
        BY <1>3, <2>1, <3>1 DEF Ended
      <3> QED BY <1>5, <2>1, <2>4, <3>2, FreshAnswerSees
    <2> QED BY <1>1, <1>5, <2>2, <2>3, <2>4, AnswerMoves
  <1>6. Still(h) \/ Moves(h)
    <2>1. AllAreStill => Still(h)
      BY DEF AllAreStill, Still
    <2> QED BY <1>1, <2>1, OneMoves, OthersAreStill
  <1> QED BY <1>4, <1>5, <1>6

LEMMA EndedStep ==
  ASSUME TypeInv, BeforeHasEnded, ServerStep \/ UNCHANGED serverVars
  PROVE  BeforeHasEnded'
  <1> SUFFICES ASSUME NEW h \in Handlers, NEW g \in before'[h]
               PROVE  pc'[g] \in Ended
    BY DEF BeforeHasEnded
  <1>1. \A q \in Handlers : pc[q] \in Ended => pc'[q] \in Ended
    BY EndedAreStill DEF Still
  <1>2. before[h] \subseteq Handlers
    BY DEF TypeInv, TypeOK
  <1>3. CASE before'[h] = before[h]
    BY <1>1, <1>2, <1>3 DEF BeforeHasEnded
  <1>4. ASSUME NEW r \in Requests, Receive(h, r)
        PROVE  pc'[g] \in Ended
    <2>1. g \in Handlers /\ pc[g] \in Ended
      BY <1>4 DEF Receive, TypeInv, TypeOK
    <2> QED BY <1>1, <2>1
  <1>5. CASE Moves(h)
    <2>1. CASE PlainMove(h) \/ RefundMove(h) \/ CancelMove(h)
      BY <1>3, <2>1 DEF PlainMove, RefundMove, CancelMove
    <2>2. CASE recordCharge(h) \/ newSubscription(h)
      <3>1. UNCHANGED before
        BY <2>2 DEF recordCharge, newSubscription
      <3> QED BY <1>3, <3>1
    <2> QED BY <1>4, <1>5, <2>1, <2>2, MoveKinds
  <1> QED
    <2>1. AllAreStill \/ Still(h) => before'[h] = before[h]
      BY DEF AllAreStill, Still
    <2> QED BY <1>3, <1>5, <2>1, OneMoves, OthersAreStill

(* What had ended when a handler began stays known to it. *)
LEMMA BeforeGrows ==
  ASSUME TypeInv, ServerStep \/ UNCHANGED serverVars, NEW h \in Handlers, NEW g \in Handlers,
         pc[g] \in Ended, pc[h] # "idle" => g \in before[h], pc'[h] # "idle"
  PROVE  g \in before'[h]
  <1>1. CASE before'[h] = before[h] /\ pc[h] # "idle"
    BY <1>1
  <1>2. ASSUME NEW r \in Requests, Receive(h, r)
        PROVE  g \in before'[h]
    BY <1>2 DEF Receive, TypeInv, TypeOK
  <1>3. CASE Moves(h)
    <2>1. CASE PlainMove(h) \/ RefundMove(h) \/ CancelMove(h)
      BY <1>1, <2>1 DEF PlainMove, RefundMove, CancelMove
    <2>2. CASE recordCharge(h) \/ newSubscription(h)
      BY <1>1, <2>2 DEF recordCharge, newSubscription, Goto
    <2> QED BY <1>2, <1>3, <2>1, <2>2, MoveKinds
  <1> QED
    <2>1. AllAreStill \/ Still(h) => before'[h] = before[h] /\ pc'[h] = pc[h]
      BY DEF AllAreStill, Still
    <2> QED BY <1>1, <1>3, <2>1, OneMoves, OthersAreStill

LEMMA WritesStand ==
  ASSUME ReadInv, ServerStep \/ UNCHANGED serverVars
  PROVE  RefundsStand' /\ CancelsStand'
  <1>1. TypeInv /\ TypeOK /\ IndexInv /\ SubscriptionsNumbered
    BY DEF ReadInv, SubscribersInv, IndexInv, TypeInv
  <1>2. TransactionsKept /\ SubscriptionsKept
    BY <1>1, ResourcesGrow
  <1> DEFINE Kept(g) == /\ \A i \in HIDs : Refunded(g, i)' => Refunded(g, i)
                        /\ \A s \in SubIDs : Cancelled(g, s)' => Cancelled(g, s)
             Stand(g) == /\ \A i \in HIDs : Refunded(g, i)' =>
                              i \in Recorded' /\ transactionsByID'[i].status = "refunded"
                         /\ \A s \in SubIDs : Cancelled(g, s)' => s \in Existing' /\ Over(s)'
  <1>3. ASSUME NEW g \in Handlers, Kept(g)
        PROVE  Stand(g)
    BY <1>2, <1>3 DEF ReadInv, RefundsStand, CancelsStand, TransactionsKept, SubscriptionsKept
  <1>4. ASSUME NEW g \in Handlers, Still(g)
        PROVE  Kept(g)
    BY <1>4 DEF Still, Refunded, Cancelled, Serves
  <1>5. ASSUME NEW g \in Handlers, Moves(g)
        PROVE  Stand(g)
    <2>1. ASSUME NEW r \in Requests, Receive(g, r)
          PROVE  Stand(g)
      <3>1. g \notin changed'
        BY <2>1 DEF Receive, Goto, resourceVars, ReadInv, SubscribersInv, HolderInv, Early
      <3> QED BY <3>1 DEF Refunded, Cancelled
    <2>2. CASE PlainMove(g)
      <3>1. Kept(g)
        BY <2>2 DEF PlainMove, SameResources, Refunded, Cancelled, Serves
      <3> HIDE DEF Kept, Stand
      <3> QED BY <1>3, <3>1
    <2>3. CASE RefundMove(g)
      <3>1. request[g].arg \in Recorded /\ request' = request /\ Serves(g, "refund")
        BY <2>3 DEF RefundMove
      <3>2. request[g].arg \in HIDs /\ transactionsByID[request[g].arg] \in Transactions
        BY <1>1, <3>1 DEF Recorded, TypeOK
      <3>3. transactionsByID'[request[g].arg].status = "refunded"
        BY <2>3, <3>2 DEF RefundMove, Transactions
      <3>4. request[g].arg \in Recorded'
        BY <1>2, <3>1 DEF TransactionsKept
      <3> QED BY <3>1, <3>3, <3>4 DEF Refunded, Cancelled, Serves
    <2>4. CASE CancelMove(g)
      <3>1. request[g].arg \in Existing /\ request' = request /\ Serves(g, "cancelSub")
        BY <2>4 DEF CancelMove
      <3>2. request[g].arg \in SubIDs /\ subscriptions[request[g].arg] \in Subscriptions
        BY <1>1, <3>1 DEF Existing, TypeOK
      <3>3. Over(request[g].arg)'
        <4>1. subscriptions'[request[g].arg] = [subscriptions[request[g].arg] EXCEPT
                                                  !.status = "cancelled", !.nextCharge = FALSE]
          BY <2>4, <3>2 DEF CancelMove
        <4> QED BY <3>1, <3>2, <4>1 DEF Over, Subscriptions
      <3>4. request[g].arg \in Existing'
        BY <1>2, <3>1 DEF SubscriptionsKept
      <3> QED BY <3>1, <3>3, <3>4 DEF Refunded, Cancelled, Serves
    <2>5. CASE recordCharge(g) \/ newSubscription(g)
      <3>1. request[g].op \in {"charge", "subscribe"} /\ request' = request
        BY <1>1, <2>5 DEF recordCharge, newSubscription, Goto, TypeInv, RecordIsSubscribe, Serves
      <3> QED BY <3>1 DEF Refunded, Cancelled, Serves
    <2> QED BY <1>1, <1>5, <2>1, <2>2, <2>3, <2>4, <2>5, MoveKinds
  <1>6. \A g \in Handlers : Stand(g)
    <2>1. \A g \in Handlers : AllAreStill => Still(g)
      BY DEF AllAreStill, Still
    <2> HIDE DEF Kept, Stand
    <2> QED BY <1>1, <1>3, <1>4, <1>5, <2>1, OneMoves, OthersAreStill
  <1> QED BY <1>6 DEF RefundsStand, CancelsStand

LEMMA ReadStep ==
  ASSUME ReadInv, ServerStep \/ UNCHANGED serverVars
  PROVE  ReadInv'
  <1>1. TypeInv
    BY DEF ReadInv, SubscribersInv, IndexInv
  <1> QED
    BY <1>1, SubscriptionStep, WritesStand, EndedStep, AnswersStep DEF ReadInv

LEMMA InitRead == Init => ReadInv
  <1> SUFFICES ASSUME Init PROVE ReadInv
    OBVIOUS
  <1>1. RefundsStand /\ CancelsStand
    BY DEF Init, RefundsStand, CancelsStand, Refunded, Cancelled
  <1>2. BeforeHasEnded /\ AnswersSee
    BY DEF Init, BeforeHasEnded, AnswersSee
  <1> QED BY <1>1, <1>2, InitSubscription DEF ReadInv

(* A request that begins after another has ended sees what that one did:   *)
(* its charge, its refund, its cancellation, also when its caller was told *)
(* something else or nothing.                                              *)
THEOREM ReadsAreConsistent == Spec => []ReadsSeeEarlierWrites
  <1>1. ReadInv /\ [Next]_serverVars => ReadInv'
    BY ReadStep, NextIsServerStep
  <1>2. ReadInv => ReadsSeeEarlierWrites
    BY DEF ReadInv, AnswersSee, HasAnswer, Sees, ReadsSeeEarlierWrites, AnsweredQuery
  <1> QED BY InitRead, <1>1, <1>2, PTL DEF Spec
-----------------------------------------------------------------------------
(***************************************************************************)
(* Scripted responses are served once and in order.                        *)
(***************************************************************************)
QueuesIncrease ==
  \A key \in ScriptKeys : \A j, k \in DOMAIN responses[key] :
    j < k => responses[key][j].seq < responses[key][k].seq

QueuesApart ==
  \A key, other \in ScriptKeys : key # other => InQueue(key) \cap InQueue(other) = {}

NotServedYet == \A h \in Handlers : pc[h] \in {"idle", "authorize", "next"} => ~ queued[h]

ScriptInv == TypeInv /\ QueuesIncrease /\ QueuesApart /\ NotServedYet /\ ScriptServedOnceInOrder

(* What was scripted stays as it is. *)
ScriptUntouched ==
  /\ UNCHANGED <<responses, scripted>>
  /\ \A h \in Handlers :
       /\ queued'[h] = queued[h]
       /\ queued[h] => response'[h] = response[h] /\ request'[h] = request[h]
       /\ pc'[h] \in {"idle", "authorize", "next"} => pc[h] \in {"idle", "authorize", "next"}

LEMMA ReadsLeaveScript ==
  ASSUME ScriptInv, NEW h \in Handlers, NEW from, NEW to \in {"page", "block"}, NEW d,
         Reads(h, from, to, d)
  PROVE  ScriptUntouched
BY DEF ScriptInv, TypeInv, TypeOK, Reads, Goto, Answer, ScriptUntouched, scriptVars, localVars

LEMMA ServeLeavesScript ==
  ASSUME ScriptInv, NEW h \in Handlers, Serve(h), ~ nextResponse(h)
  PROVE  ScriptUntouched
  <1> USE DEF ScriptInv, TypeInv, TypeOK
  <1>1. CASE Authorized(h) \/ NoneQueued(h) \/ CheckBlock(h) \/ Hijack(h) \/ HangEnds(h)
             \/ writeResponse(h)
    BY <1>1 DEF Authorized, NoneQueued, CheckBlock, Hijack, HangEnds, writeResponse, Goto,
                ScriptUntouched, scriptVars, localVars, Ended
  <1>2. CASE RefuseUnauthorized(h)
    BY <1>2 DEF RefuseUnauthorized, Goto, NotServedYet, ScriptUntouched, scriptVars, localVars
  <1>3. CASE recordCharge(h)
    <2>1. \A g \in Handlers : queued[g] => response'[g] = response[g]
      BY <1>3 DEF recordCharge, Answer
    <2>2. \A g \in Handlers : pc'[g] = IF g = h THEN "block" ELSE pc[g]
      BY <1>3 DEF recordCharge, Goto
    <2>3. UNCHANGED <<responses, scripted, queued, request>>
      BY <1>3 DEF recordCharge, scriptVars
    <2> QED BY <2>1, <2>2, <2>3 DEF ScriptUntouched
  <1>4. CASE newSubscription(h)
    <2>1. \A g \in Handlers : pc'[g] = IF g = h THEN "record" ELSE pc[g]
      BY <1>4 DEF newSubscription, Goto
    <2>2. UNCHANGED <<responses, scripted, queued, request, response>>
      BY <1>4 DEF newSubscription, scriptVars
    <2> QED BY <2>1, <2>2 DEF ScriptUntouched
  <1>5. ASSUME NEW d, Goto(h, "default", "block"), Answer(h, d),
               UNCHANGED <<scriptVars, localVars>>
        PROVE  ScriptUntouched
    BY <1>5 DEF Goto, Answer, ScriptUntouched, scriptVars, localVars
  <1>6. CASE refundResponse(h)
    BY <1>5, <1>6, ReadsLeaveScript DEF refundResponse
  <1>7. CASE subscriptionResponse(h)
    BY <1>5, <1>7, ReadsLeaveScript DEF subscriptionResponse
  <1>8. CASE \/ transactionResponse(h) \/ orderTransactions(h) \/ allTransactions(h)
             \/ listResponse(h) \/ storeSubscriptionsResponse(h) \/ hostedPageResponse(h)
             \/ unknownEndpoint(h)
    BY <1>8, ReadsLeaveScript DEF transactionResponse, orderTransactions, allTransactions,
                listResponse, storeSubscriptionsResponse, hostedPageResponse, unknownEndpoint
  <1> QED
    BY <1>1, <1>2, <1>3, <1>4, <1>6, <1>7, <1>8 DEF Serve, defaultResponse

LEMMA ScriptKinds ==
  ASSUME ScriptInv, ServerStep \/ UNCHANGED serverVars
  PROVE  \/ ScriptUntouched
         \/ \E h \in Handlers : nextResponse(h)
         \/ \E key \in ScriptKeys, r \in ScriptResponses : QueueResponse(key, r)
  <1>1. CASE UNCHANGED serverVars
    BY <1>1 DEF serverVars, scriptVars, localVars, ScriptUntouched
  <1>2. ASSUME NEW h \in Handlers, DetectDisconnect(h)
        PROVE  ScriptUntouched
    BY <1>2 DEF DetectDisconnect, scriptVars, localVars, ScriptUntouched
  <1>3. ASSUME NEW h \in Handlers, NEW r \in Requests, Receive(h, r)
        PROVE  ScriptUntouched
    BY <1>3 DEF Receive, Goto, ScriptInv, TypeInv, TypeOK, NotServedYet, ScriptUntouched,
                scriptVars
  <1>4. ASSUME Test, ~ \E key \in ScriptKeys, r \in ScriptResponses : QueueResponse(key, r)
        PROVE  ScriptUntouched
    BY <1>4 DEF Test, Hang, Unhang, SetNextPage, AcceptAnyToken, Close, ShutListener,
                CloseReturns, CloseStep, scriptVars, localVars, ScriptUntouched
  <1> QED BY <1>1, <1>2, <1>3, <1>4, ServeLeavesScript DEF ServerStep

LEMMA UntouchedScript ==
  ASSUME ScriptInv, ScriptUntouched, TypeInv'
  PROVE  ScriptInv'
  <1>1. QueuesIncrease' /\ NotServedYet'
    BY DEF ScriptInv, ScriptUntouched, QueuesIncrease, NotServedYet
  <1>2. /\ Scripted' = Scripted
        /\ \A h \in Scripted : response'[h] = response[h] /\ request'[h] = request[h]
        /\ \A key \in ScriptKeys : InQueue(key)' = InQueue(key)
        /\ scripted' = scripted
    BY DEF ScriptUntouched, Scripted, InQueue
  <1>3. {response'[h].seq : h \in Scripted'} = {response[h].seq : h \in Scripted}
    BY <1>2
  <1>4. UNION {InQueue(key)' : key \in ScriptKeys} = UNION {InQueue(key) : key \in ScriptKeys}
    BY <1>2
  <1>5. \A h \in Scripted : MatchingKeys(request'[h]) = MatchingKeys(request[h])
    BY <1>2
  <1>6. ScriptServedOnceInOrder'
    BY <1>2, <1>3, <1>4, <1>5 DEF ScriptInv, ScriptServedOnceInOrder
  <1>7. QueuesApart'
    BY <1>2 DEF ScriptInv, QueuesApart
  <1> QED BY <1>1, <1>6, <1>7 DEF ScriptInv

(* A response is taken from the front of a queue. *)
LEMMA TakesFirst ==
  ASSUME ScriptInv, NEW h \in Handlers, nextResponse(h)
  PROVE  \E key \in ScriptKeys :
           /\ key \in MatchingKeys(request[h])
           /\ responses[key] # <<>> /\ responses[key] \in Seq(Responses)
           /\ ~ queued[h] /\ request' = request /\ scripted' = scripted
           /\ \A g \in Handlers : queued'[g] = IF g = h THEN TRUE ELSE queued[g]
           /\ \A g \in Handlers :
                response'[g] = IF g = h THEN Head(responses[key]) ELSE response[g]
           /\ \A k \in ScriptKeys :
                responses'[k] = IF k = key THEN Tail(responses[key]) ELSE responses[k]
           /\ \A g \in Handlers : pc'[g] \in {"idle", "authorize", "next"} =>
                                    g # h /\ pc'[g] = pc[g]
  <1> PICK i \in 1..4 : nextResponse(h)!(i)
    BY DEF nextResponse
  <1> DEFINE key == lookupKeys(request[h])[i]
  <1>1. key \in ScriptKeys /\ responses[key] # <<>> /\ responses[key] \in Seq(Responses)
    BY DEF ScriptedAt, HasScript, ScriptInv, TypeInv, TypeOK
  <1>2. key \in MatchingKeys(request[h])
    BY <1>1 DEF MatchingKeys
  <1> HIDE DEF key
  <1>3. ~ queued[h] /\ request' = request /\ scripted' = scripted
    BY DEF Goto, ScriptInv, NotServedYet
  <1>4. /\ \A g \in Handlers : queued'[g] = IF g = h THEN TRUE ELSE queued[g]
        /\ \A g \in Handlers :
             response'[g] = IF g = h THEN Head(responses[key]) ELSE response[g]
        /\ \A k \in ScriptKeys :
             responses'[k] = IF k = key THEN Tail(responses[key]) ELSE responses[k]
    BY DEF key, ScriptInv, TypeInv, TypeOK
  <1>5. \A g \in Handlers : pc'[g] \in {"idle", "authorize", "next"} =>
                              g # h /\ pc'[g] = pc[g]
    BY DEF Goto, ScriptInv, TypeInv, TypeOK
  <1> QED BY <1>1, <1>2, <1>3, <1>4, <1>5

LEMMA TakenScript ==
  ASSUME ScriptInv, NEW h \in Handlers, nextResponse(h), TypeInv'
  PROVE  ScriptInv'
  <1>1. PICK key \in ScriptKeys :
           /\ key \in MatchingKeys(request[h])
           /\ responses[key] # <<>> /\ responses[key] \in Seq(Responses)
           /\ ~ queued[h] /\ request' = request /\ scripted' = scripted
           /\ \A g \in Handlers : queued'[g] = IF g = h THEN TRUE ELSE queued[g]
           /\ \A g \in Handlers :
                response'[g] = IF g = h THEN Head(responses[key]) ELSE response[g]
           /\ \A k \in ScriptKeys :
                responses'[k] = IF k = key THEN Tail(responses[key]) ELSE responses[k]
           /\ \A g \in Handlers : pc'[g] \in {"idle", "authorize", "next"} =>
                                    g # h /\ pc'[g] = pc[g]
    BY TakesFirst
  <1> DEFINE q == responses[key]
             s == Head(q).seq
  <1>2. /\ Len(q) \in Nat /\ Len(q) >= 1 /\ DOMAIN q = 1..Len(q)
        /\ Head(q) = q[1] /\ DOMAIN Tail(q) = 1..(Len(q) - 1)
        /\ \A k \in DOMAIN Tail(q) : Tail(q)[k] = q[k + 1]
    BY <1>1
  <1>3. \A k \in DOMAIN q : k # 1 => s < q[k].seq
    BY <1>1, <1>2 DEF ScriptInv, QueuesIncrease
  <1>4. s \in InQueue(key)
    BY <1>1, <1>2 DEF InQueue
  <1>5. InQueue(key)' = InQueue(key) \ {s}
    <2>1. InQueue(key) = {q[k].seq : k \in DOMAIN q}
      BY DEF InQueue
    <2>2. InQueue(key)' = {Tail(q)[k].seq : k \in DOMAIN Tail(q)}
      <3>1. responses'[key] = Tail(q)
        BY <1>1
      <3> QED BY <3>1 DEF InQueue
    <2>3. \A k \in DOMAIN Tail(q) : k + 1 \in DOMAIN q /\ k + 1 # 1
      BY <1>2
    <2>4. \A k \in DOMAIN q : k # 1 => k - 1 \in DOMAIN Tail(q) /\ Tail(q)[k - 1] = q[k]
      BY <1>2
    <2>5. \A k \in DOMAIN q : k # 1 => q[k].seq # s
      <3>1. \A k \in DOMAIN q : q[k] \in Responses
        BY <1>1
      <3>2. \A k \in DOMAIN q : q[k].seq \in Nat
        BY <3>1 DEF Responses
      <3> QED BY <1>2, <1>3, <3>2
    <2>6. \A k \in DOMAIN Tail(q) : Tail(q)[k].seq \in InQueue(key) /\ Tail(q)[k].seq # s
      BY <1>2, <2>1, <2>3, <2>5
    <2>7. ASSUME NEW x \in InQueue(key), x # s
          PROVE  x \in InQueue(key)'
      <3>1. PICK k \in DOMAIN q : x = q[k].seq
        BY <2>1
      <3>2. k # 1
        BY <1>2, <2>7, <3>1
      <3> QED BY <2>2, <2>4, <3>1, <3>2
    <2> QED BY <2>2, <2>6, <2>7
  <1>6. \A k \in ScriptKeys : k # key => InQueue(k)' = InQueue(k)
    BY <1>1 DEF InQueue
  <1>7. \A x \in InQueue(key)' : s < x
    <2> TAKE x \in InQueue(key)'
    <2>1. x \in InQueue(key) /\ x # s
      BY <1>5
    <2>2. PICK k \in DOMAIN q : x = q[k].seq
      BY <2>1 DEF InQueue
    <2>3. k # 1
      BY <1>2, <2>1, <2>2
    <2> QED BY <1>3, <2>2, <2>3
  <1>8. /\ Scripted' = Scripted \cup {h} /\ h \notin Scripted
        /\ \A g \in Scripted : response'[g] = response[g]
        /\ response'[h].seq = s
    BY <1>1 DEF Scripted
  <1> DEFINE Held == {response[g].seq : g \in Scripted}
             Queued == UNION {InQueue(k) : k \in ScriptKeys}
  <1>9. \A g \in Scripted : response[g].seq # s
    BY <1>1, <1>4 DEF ScriptInv, ScriptServedOnceInOrder
  <1>10. QueuesIncrease'
    <2>1. \A j, k \in DOMAIN Tail(q) : j < k => Tail(q)[j].seq < Tail(q)[k].seq
      <3>1. \A j, k \in DOMAIN q : j < k => q[j].seq < q[k].seq
        BY <1>1 DEF ScriptInv, QueuesIncrease
      <3>2. \A k \in DOMAIN Tail(q) : k \in Nat /\ k + 1 \in DOMAIN q
        BY <1>2
      <3> QED BY <1>2, <3>1, <3>2
    <2> QED BY <1>1, <2>1 DEF ScriptInv, QueuesIncrease
  <1>11. QueuesApart'
    BY <1>5, <1>6 DEF ScriptInv, QueuesApart
  <1>12. NotServedYet'
    BY <1>1 DEF ScriptInv, NotServedYet
  <1>13. (UNION {InQueue(k)' : k \in ScriptKeys}) \cup {response'[g].seq : g \in Scripted'}
           = 1..scripted'
    <2>1. {response'[g].seq : g \in Scripted'} = Held \cup {s}
      <3>1. \A g \in Scripted' : response'[g].seq \in Held \cup {s}
        BY <1>8
      <3>2. \A g \in Scripted : response[g].seq \in {response'[f].seq : f \in Scripted'}
        BY <1>8
      <3>3. s \in {response'[f].seq : f \in Scripted'}
        BY <1>8
      <3> HIDE DEF s
      <3> QED BY <3>1, <3>2, <3>3
    <2>2. (UNION {InQueue(k)' : k \in ScriptKeys}) \cup {s} = Queued
      BY <1>1, <1>4, <1>5, <1>6
    <2>3. Queued \cup Held = 1..scripted
      BY DEF ScriptInv, ScriptServedOnceInOrder
    <2> HIDE DEF Held, Queued
    <2> QED BY <1>1, <2>1, <2>2, <2>3
  <1>14. \A f, g \in Scripted' : response'[f].seq = response'[g].seq => f = g
    BY <1>8, <1>9 DEF ScriptInv, ScriptServedOnceInOrder
  <1>15. \A g \in Scripted', k \in ScriptKeys :
           /\ response'[g].seq \notin InQueue(k)'
           /\ MatchingKeys(request'[g]) = {k} =>
                \A x \in InQueue(k)' : response'[g].seq < x
    <2> SUFFICES ASSUME NEW g \in Scripted', NEW k \in ScriptKeys
                 PROVE  /\ response'[g].seq \notin InQueue(k)'
                        /\ MatchingKeys(request'[g]) = {k} =>
                             \A x \in InQueue(k)' : response'[g].seq < x
      OBVIOUS
    <2>1. CASE g = h
      <3>1. s \notin InQueue(k)'
        BY <1>1, <1>4, <1>5, <1>6 DEF ScriptInv, QueuesApart
      <3> QED BY <1>1, <1>7, <1>8, <2>1, <3>1
    <2>2. CASE g # h
      <3>1. g \in Scripted /\ response'[g] = response[g] /\ InQueue(k)' \subseteq InQueue(k)
        BY <1>5, <1>6, <1>8, <2>2
      <3> QED BY <1>1, <3>1 DEF ScriptInv, ScriptServedOnceInOrder
    <2> QED BY <2>1, <2>2
  <1> QED
    BY <1>10, <1>11, <1>12, <1>13, <1>14, <1>15 DEF ScriptInv, ScriptServedOnceInOrder
(* A response is queued behind every other. *)
LEMMA QueuedScript ==
  ASSUME ScriptInv, NEW key \in ScriptKeys, NEW r \in ScriptResponses, QueueResponse(key, r),
         TypeInv'
  PROVE  ScriptInv'
  <1> DEFINE q == responses[key]
             n == scripted + 1
             last == [r EXCEPT !.seq = n]
  <1>1. /\ scripted \in Nat /\ n \in Nat /\ q \in Seq(Responses)
        /\ responses \in [ScriptKeys -> Seq(Responses)]
    BY BoundsAssumption DEF ScriptInv, TypeInv, TypeOK
  <1>2. last.seq = n
    BY ScriptAssumption DEF Responses
  <1>3. /\ scripted' = n /\ UNCHANGED <<pc, request, queued, response>>
        /\ responses' = [responses EXCEPT ![key] = Append(q, last)]
    BY DEF QueueResponse, localVars
  <1> HIDE DEF n, last
  <1>4. \A k \in ScriptKeys : responses'[k] = IF k = key THEN Append(q, last) ELSE responses[k]
    BY <1>1, <1>3
  <1>5. /\ Len(q) \in Nat /\ DOMAIN q = 1..Len(q)
        /\ DOMAIN Append(q, last) = 1..(Len(q) + 1)
        /\ \A k \in DOMAIN q : Append(q, last)[k] = q[k]
        /\ Append(q, last)[Len(q) + 1] = last
    BY <1>1
  <1>6. \A k \in ScriptKeys : k # key => InQueue(k)' = InQueue(k)
    <2> SUFFICES ASSUME NEW k \in ScriptKeys, k # key
                 PROVE  InQueue(k)' = InQueue(k)
      OBVIOUS
    <2>1. responses'[k] = responses[k]
      BY <1>4
    <2> QED BY <2>1 DEF InQueue
  <1>7. InQueue(key)' = InQueue(key) \cup {n}
    <2>1. InQueue(key) = {q[k].seq : k \in DOMAIN q}
      BY DEF InQueue
    <2>2. InQueue(key)' = {Append(q, last)[k].seq : k \in DOMAIN Append(q, last)}
      <3>1. responses'[key] = Append(q, last)
        BY <1>4
      <3> QED BY <3>1 DEF InQueue
    <2>3. \A k \in DOMAIN Append(q, last) :
            k = Len(q) + 1 \/ k \in DOMAIN q
      BY <1>5
    <2>4. \A k \in DOMAIN Append(q, last) : Append(q, last)[k].seq \in InQueue(key) \cup {n}
      BY <1>2, <1>5, <2>1, <2>3
    <2>5. \A k \in DOMAIN q : q[k].seq \in InQueue(key)'
      BY <1>5, <2>2
    <2>6. n \in InQueue(key)'
      <3>1. Len(q) + 1 \in DOMAIN Append(q, last)
        BY <1>5
      <3> QED BY <1>2, <1>5, <2>2, <3>1
    <2> QED BY <2>1, <2>2, <2>4, <2>5, <2>6
  <1> DEFINE Held == {response[g].seq : g \in Scripted}
             Queued == UNION {InQueue(k) : k \in ScriptKeys}
  <1>8. Queued \cup Held = 1..scripted
    BY DEF ScriptInv, ScriptServedOnceInOrder
  <1>9. \A x \in Queued \cup Held : x \in Nat /\ x < n
    <2>1. \A x \in 1..scripted : x \in Nat /\ x < n
      BY <1>1 DEF n
    <2> HIDE DEF Queued, Held
    <2> QED BY <1>8, <2>1
  <1>10. \A k \in ScriptKeys : \A x \in InQueue(k) : x \in Nat /\ x < n
    BY <1>9
  <1>11. \A g \in Scripted : response[g].seq \in Nat /\ response[g].seq < n
    BY <1>9
  <1>12. /\ Scripted' = Scripted
         /\ {response'[g].seq : g \in Scripted'} = Held
    BY <1>3 DEF Scripted
  <1>13. QueuesIncrease'
    <2>1. \A k \in DOMAIN q : k \in Nat /\ k <= Len(q) /\ q[k].seq < n
      <3>1. \A k \in DOMAIN q : q[k].seq \in InQueue(key)
        BY DEF InQueue
      <3> QED BY <1>5, <1>10, <3>1
    <2>2. \A j, k \in DOMAIN q : j < k => q[j].seq < q[k].seq
      BY DEF ScriptInv, QueuesIncrease
    <2>3. \A k \in DOMAIN Append(q, last) : k = Len(q) + 1 \/ k \in DOMAIN q
      BY <1>5
    <2>4. ASSUME NEW j \in DOMAIN Append(q, last), NEW k \in DOMAIN Append(q, last), j < k
          PROVE  Append(q, last)[j].seq < Append(q, last)[k].seq
      <3>1. j \in DOMAIN q
        BY <1>5, <2>4
      <3>2. CASE k \in DOMAIN q
        BY <1>5, <2>2, <2>4, <3>1, <3>2
      <3>3. CASE k = Len(q) + 1
        BY <1>2, <1>5, <2>1, <3>1, <3>3
      <3> QED BY <2>3, <3>2, <3>3
    <2>5. ASSUME NEW k \in ScriptKeys, NEW i \in DOMAIN responses'[k],
                 NEW j \in DOMAIN responses'[k], i < j
          PROVE  responses'[k][i].seq < responses'[k][j].seq
      <3>1. CASE k = key
        <4>1. responses'[k] = Append(q, last)
          BY <1>4, <3>1
        <4> QED BY <2>4, <2>5, <4>1
      <3>2. CASE k # key
        <4>1. responses'[k] = responses[k]
          BY <1>4, <3>2
        <4> QED BY <2>5, <4>1 DEF ScriptInv, QueuesIncrease
      <3> QED BY <3>1, <3>2
    <2> QED BY <2>5 DEF QueuesIncrease
  <1>14. QueuesApart'
    <2>1. \A k \in ScriptKeys : n \notin InQueue(k)
      BY <1>1, <1>10
    <2> QED BY <1>6, <1>7, <2>1 DEF ScriptInv, QueuesApart
  <1>15. NotServedYet'
    BY <1>3 DEF ScriptInv, NotServedYet
  <1>16. (UNION {InQueue(k)' : k \in ScriptKeys}) \cup {response'[g].seq : g \in Scripted'}
           = 1..scripted'
    <2>1. UNION {InQueue(k)' : k \in ScriptKeys} = Queued \cup {n}
      BY <1>6, <1>7
    <2>2. 1..scripted' = 1..scripted \cup {n}
      BY <1>1, <1>3 DEF n
    <2> HIDE DEF Held, Queued
    <2> QED BY <1>8, <1>12, <2>1, <2>2
  <1>17. \A f, g \in Scripted' : response'[f].seq = response'[g].seq => f = g
    BY <1>3, <1>12 DEF ScriptInv, ScriptServedOnceInOrder
  <1>18. \A g \in Scripted', k \in ScriptKeys :
           /\ response'[g].seq \notin InQueue(k)'
           /\ MatchingKeys(request'[g]) = {k} =>
                \A x \in InQueue(k)' : response'[g].seq < x
    <2> SUFFICES ASSUME NEW g \in Scripted, NEW k \in ScriptKeys
                 PROVE  /\ response[g].seq \notin InQueue(k)'
                        /\ MatchingKeys(request[g]) = {k} =>
                             \A x \in InQueue(k)' : response[g].seq < x
      BY <1>3, <1>12
    <2>1. /\ response[g].seq \notin InQueue(k)
          /\ MatchingKeys(request[g]) = {k} => \A x \in InQueue(k) : response[g].seq < x
      BY DEF ScriptInv, ScriptServedOnceInOrder
    <2>2. InQueue(k)' \subseteq InQueue(k) \cup {n}
      BY <1>6, <1>7
    <2>3. response[g].seq < n /\ response[g].seq # n
      BY <1>1, <1>11
    <2> QED BY <2>1, <2>2, <2>3
  <1> QED
    BY <1>13, <1>14, <1>15, <1>16, <1>17, <1>18 DEF ScriptInv, ScriptServedOnceInOrder

LEMMA ScriptStep ==
  ASSUME ScriptInv, ServerStep \/ UNCHANGED serverVars
  PROVE  ScriptInv'
  <1>1. TypeInv'
    BY StepType DEF ScriptInv
  <1> QED BY <1>1, ScriptKinds, UntouchedScript, TakenScript, QueuedScript

LEMMA InitScript == Init => ScriptInv
  <1> SUFFICES ASSUME Init PROVE ScriptInv
    OBVIOUS
  <1>1. QueuesIncrease /\ NotServedYet
    BY DEF Init, QueuesIncrease, NotServedYet
  <1>2. \A key \in ScriptKeys : InQueue(key) = {}
    BY DEF Init, InQueue
  <1>3. QueuesApart
    BY <1>2 DEF QueuesApart
  <1>4. Scripted = {} /\ scripted = 0
    BY DEF Init, Scripted
  <1>5. (UNION {InQueue(key) : key \in ScriptKeys}) \cup {response[h].seq : h \in Scripted}
          = 1..scripted
    BY <1>2, <1>4
  <1>6. ScriptServedOnceInOrder
    BY <1>4, <1>5 DEF ScriptServedOnceInOrder
  <1> QED BY <1>1, <1>3, <1>6, InitType DEF ScriptInv

(* A response queued once is served once, in the order queued for its      *)
(* endpoint, whatever the number of requests that ask for it.              *)
THEOREM ScriptIsServedInOrder == Spec => []ScriptServedOnceInOrder
  <1>1. ScriptInv /\ [Next]_serverVars => ScriptInv'
    BY ScriptStep, NextIsServerStep
  <1>2. ScriptInv => ScriptServedOnceInOrder
    BY DEF ScriptInv
  <1> QED BY InitScript, <1>1, <1>2, PTL DEF Spec
=============================================================================
