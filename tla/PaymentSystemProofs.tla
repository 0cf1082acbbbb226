------------------------ MODULE PaymentSystemProofs ------------------------
(***************************************************************************)
(* What callers may rely on, for any number of calls, attempts, orders and *)
(* scripts.  HandlersInv says what one handler knows; CallInv ties each    *)
(* call to its handlers: which attempt carries which request, that a write *)
(* has one attempt only, and that what its caller was told agrees with     *)
(* what that attempt did.                                                  *)
(***************************************************************************)
EXTENDS PaymentSystem, OenServerProofs

-----------------------------------------------------------------------------
(***************************************************************************)
(* What one handler of the provider knows: whether it has changed          *)
(* anything, and that its answer does not deny it.                         *)
(***************************************************************************)
Answered == {"block", "hijack", "hung", "write"} \cup Ended

(* No write is told by r that it was refused. *)
Unsettled(r) == \A m \in {"POST", "PUT"} : ~ IsSettledRefusal(respond(m, Wire(r)))

KeepsWord(r) == r.recordCharge => Unsettled(r)

HandlerInv(h) ==
  /\ pc[h] \in {"idle", "authorize", "next"} => ~ queued[h] /\ response[h] = NoResponse
  /\ pc[h] \in {"idle", "authorize", "next", "default", "page"} => h \notin changed
  /\ KeepsWord(response[h])
  /\ queued[h] => response[h].data = NoData
  /\ pc[h] \in {"default", "record", "page"} /\ queued[h] => response[h].recordCharge
  /\ h \in changed => request[h].op \in LedgerOps
  /\ h \in changed /\ pc[h] \in Answered => Unsettled(response[h])
  /\ request[h].op \in LedgerOps /\ decodes(request[h].op, response[h].data) =>
       /\ h \in changed
       /\ request[h].op \in ChargeOps => hid[h] # 0 /\ hid[h] = response[h].data.hid
  /\ hid[h] # 0 => h \in changed /\ transactionsByID[hid[h]].order = bodyOrder(h)

QueuesInv ==
  \A key \in ScriptKeys : \A k \in DOMAIN responses[key] :
    responses[key][k].data = NoData /\ KeepsWord(responses[key][k])

HandlersInv == IndexInv /\ QueuesInv /\ \A h \in Handlers : HandlerInv(h)

-----------------------------------------------------------------------------
(* What the fake's own answers are to a client. *)
LEMMA SucceedIsNoError ==
  ASSUME NEW m, NEW data
  PROVE  respond(m, Wire(Succeed(data))) = NoError
  <1> DEFINE w == Wire(Succeed(data))
  <1>1. /\ w.status = 200 /\ w.body.read = TRUE /\ w.body.json = "object"
        /\ w.body.code.json = "string" /\ w.body.code.text = CodeSuccess
    BY DEF Wire, Succeed, Response, CodeSuccess, NoText, Text
  <1> HIDE DEF w
  <1>2. decodeErr(w.body) = FALSE /\ envCode(w.body) = CodeSuccess
    BY <1>1 DEF decodeErr, envCode, rawString
  <1>3. respond(m, w) = classify(m, 200, FALSE, CodeSuccess)
    BY <1>1, <1>2 DEF respond
  <1>4. @ = classifySuccess(200, FALSE, CodeSuccess)
    BY DEF classify
  <1>5. CodeSuccess # NoText /\ normalizeCode(CodeSuccess) = CodeSuccess
    BY DEF CodeSuccess, NoText, Text, normalizeCode, LowerLetters
  <1>6. classifySuccess(200, FALSE, CodeSuccess) = NoError
    BY <1>5 DEF classifySuccess
  <1> QED
    BY <1>3, <1>4, <1>6 DEF w

LEMMA SucceedKeepsWord ==
  ASSUME NEW data
  PROVE  Unsettled(Succeed(data)) /\ ~ Succeed(data).recordCharge
  BY SucceedIsNoError DEF Unsettled, IsSettledRefusal, Succeed, Response

LEMMA PlainKeepsWord ==
  ASSUME NEW r, r.recordCharge = FALSE
  PROVE  KeepsWord(r)
  BY DEF KeepsWord

(* A step of one handler leaves the others as they are. *)
LEMMA ServeIsLocal ==
  ASSUME TypeOK, NEW g \in Handlers, Serve(g), NEW h \in Handlers \ {g}
  PROVE  /\ pc'[h] = pc[h] /\ request'[h] = request[h] /\ response'[h] = response[h]
         /\ queued'[h] = queued[h] /\ hid'[h] = hid[h] /\ (h \in changed' <=> h \in changed)
  <1>1. CASE \/ Authorized(g) \/ RefuseUnauthorized(g) \/ NoneQueued(g)
             \/ CheckBlock(g) \/ Hijack(g) \/ HangEnds(g) \/ writeResponse(g)
    BY <1>1 DEF Authorized, RefuseUnauthorized, NoneQueued, CheckBlock, Hijack, HangEnds,
                writeResponse, Goto, TypeOK, localVars, resourceVars
  <1>2. CASE nextResponse(g)
    BY <1>2 DEF nextResponse, Goto, TypeOK, resourceVars
  <1>3. CASE recordCharge(g) \/ newSubscription(g)
    BY <1>3 DEF recordCharge, newSubscription, Answer, Goto, TypeOK
  <1>4. CASE refundResponse(g)
    BY <1>4 DEF refundResponse, Reads, Answer, Goto, TypeOK, localVars, resourceVars
  <1>5. CASE subscriptionResponse(g)
    BY <1>5 DEF subscriptionResponse, Reads, Answer, Goto, TypeOK, localVars, resourceVars
  <1>6. CASE \/ transactionResponse(g) \/ orderTransactions(g) \/ allTransactions(g)
             \/ listResponse(g) \/ storeSubscriptionsResponse(g)
             \/ hostedPageResponse(g) \/ unknownEndpoint(g)
    BY <1>6 DEF transactionResponse, orderTransactions, allTransactions, listResponse,
                storeSubscriptionsResponse, hostedPageResponse, unknownEndpoint, Reads,
                Answer, Goto, TypeOK, localVars, resourceVars
  <1> QED
    BY <1>1, <1>2, <1>3, <1>4, <1>5, <1>6 DEF Serve, defaultResponse

(* A recorded transaction keeps its order. *)
LEMMA OrderIsKept ==
  ASSUME IndexInv, ServerStep, NEW i \in Recorded
  PROVE  transactionsByID'[i].order = transactionsByID[i].order
  <1>0. i \in HIDs /\ i <= chargeCount /\ chargeCount \in Nat
    <2>1. i \in HIDs
      BY DEF Recorded
    <2>2. i \in 1..chargeCount /\ chargeCount \in Nat
      BY BoundsAssumption DEF IndexInv, IndexesAgree, TypeInv, TypeOK
    <2> QED BY <2>1, <2>2
  <1>1. CASE UNCHANGED indexVars
    BY <1>1 DEF indexVars
  <1>2. ASSUME NEW h \in Handlers, recordCharge(h)
        PROVE  transactionsByID'[i] = transactionsByID[i]
    BY <1>0, <1>2 DEF recordCharge, hidOf, IndexInv, TypeInv, TypeOK
  <1>3. ASSUME NEW h \in Handlers, refundResponse(h)
        PROVE  transactionsByID'[i].order = transactionsByID[i].order
    <2> DEFINE j == request[h].arg
    <2>1. CASE transactionsByID' = transactionsByID
      BY <2>1
    <2>2. CASE /\ transactionsByID[j] # NoTx
               /\ transactionsByID' =
                    [transactionsByID EXCEPT ![j] = [@ EXCEPT !.status = "refunded"]]
      <3>1. j \in HIDs
        BY <1>3, RequestArgs DEF refundResponse, Serves, IndexInv, TypeInv
      <3>2. transactionsByID[j] \in Transactions
        BY <2>2, <3>1 DEF IndexInv, TypeInv, TypeOK
      <3>3. [transactionsByID[j] EXCEPT !.status = "refunded"].order
              = transactionsByID[j].order
        BY <3>2 DEF Transactions
      <3> HIDE DEF j
      <3> QED BY <1>0, <2>2, <3>1, <3>3 DEF IndexInv, TypeInv, TypeOK
    <2> QED BY <1>3, <2>1, <2>2 DEF refundResponse, Reads, resourceVars
  <1> QED
    BY <1>1, <1>2, <1>3, IndexSteps

(* A handler that is left alone, while others move, keeps its invariant.   *)
LEMMA BystanderInv ==
  ASSUME IndexInv, ServerStep, NEW h \in Handlers, HandlerInv(h),
         pc'[h] = pc[h], request'[h] = request[h], response'[h] = response[h],
         queued'[h] = queued[h], hid'[h] = hid[h], h \in changed' <=> h \in changed
  PROVE  HandlerInv(h)'
  <1>1. ASSUME hid[h] # 0
        PROVE  transactionsByID'[hid[h]].order = bodyOrder(h)'
    <2>1. hid[h] \in Recorded
      BY <1>1, BoundsAssumption
         DEF IndexInv, IndexesAgree, HIDsGivenOut, TypeInv, TypeOK, HIDs
    <2>2. bodyOrder(h)' = bodyOrder(h)
      BY DEF bodyOrder
    <2> QED BY <1>1, <2>1, <2>2, OrderIsKept DEF HandlerInv
  <1> QED
    BY <1>1 DEF HandlerInv, KeepsWord, Unsettled

LEMMA OthersInv ==
  ASSUME IndexInv, NEW g \in Handlers, Serve(g), NEW h \in Handlers \ {g}, HandlerInv(h)
  PROVE  HandlerInv(h)'
  BY ServeIsLocal, BystanderInv DEF ServerStep, IndexInv, TypeInv

-----------------------------------------------------------------------------
(* The handler that takes a step. *)
LEMMA MoveInv ==
  ASSUME HandlersInv, NEW h \in Handlers,
         \/ Authorized(h) \/ CheckBlock(h) \/ Hijack(h) \/ HangEnds(h) \/ writeResponse(h)
         \/ NoneQueued(h)
  PROVE  HandlerInv(h)'
  <1> USE DEF HandlersInv
  <1>1. /\ UNCHANGED <<resourceVars, localVars, response>>
        /\ \/ pc[h] = "authorize" /\ pc'[h] = "next"
           \/ pc[h] = "next" /\ pc'[h] = "default"
           \/ pc[h] \in Answered /\ pc'[h] \in Answered
    BY DEF Authorized, NoneQueued, CheckBlock, Hijack, HangEnds, writeResponse, Goto,
           IndexInv, TypeInv, TypeOK, Answered, Ended
  <1>2. bodyOrder(h)' = bodyOrder(h)
    BY <1>1 DEF bodyOrder, localVars
  <1> QED
    BY <1>1, <1>2 DEF HandlerInv, KeepsWord, Unsettled, Answered, Ended, localVars,
                      resourceVars

LEMMA NothingToDecode == \A op \in LedgerOps : ~ decodes(op, NoData)
  BY DEF decodes, NoData, LedgerOps, ChargeOps

LEMMA RefuseInv ==
  ASSUME HandlersInv, NEW h \in Handlers, RefuseUnauthorized(h)
  PROVE  HandlerInv(h)'
  <1>1. /\ pc[h] = "authorize" /\ pc'[h] = "write" /\ response'[h] = Unauthorized
        /\ UNCHANGED <<resourceVars, localVars>>
    BY DEF RefuseUnauthorized, Goto, HandlersInv, IndexInv, TypeInv, TypeOK
  <1>2. /\ h \notin changed /\ hid[h] = 0 /\ ~ queued[h]
    BY <1>1 DEF HandlersInv, HandlerInv
  <1>3. KeepsWord(Unauthorized) /\ Unauthorized.data = NoData
    BY PlainKeepsWord DEF Unauthorized, Response
  <1> QED
    BY <1>1, <1>2, <1>3, NothingToDecode DEF HandlerInv, KeepsWord, localVars, resourceVars

LEMMA NextResponseInv ==
  ASSUME HandlersInv, NEW h \in Handlers, nextResponse(h)
  PROVE  HandlerInv(h)' /\ QueuesInv'
  <1> PICK i \in 1..4 : nextResponse(h)!(i)
    BY DEF nextResponse
  <1> DEFINE key == lookupKeys(request[h])[i]
             first == Head(responses[key])
  <1>1. key \in ScriptKeys /\ responses[key] # <<>> /\ responses[key] \in Seq(Responses)
    BY DEF ScriptedAt, HasScript, HandlersInv, IndexInv, TypeInv, TypeOK
  <1>2. /\ response'[h] = first /\ queued'[h] = TRUE
        /\ responses' = [responses EXCEPT ![key] = Tail(@)]
        /\ pc[h] = "next" /\ pc'[h] = IF first.recordCharge THEN "default" ELSE "block"
        /\ UNCHANGED <<resourceVars, request, hid>>
    BY DEF Goto, HandlersInv, IndexInv, TypeInv, TypeOK
  <1> HIDE DEF key
  <1>3. first = responses[key][1] /\ 1 \in DOMAIN responses[key]
    BY <1>1
  <1>4. first.data = NoData /\ KeepsWord(first)
    BY <1>1, <1>3 DEF HandlersInv, QueuesInv
  <1>5. h \notin changed /\ hid[h] = 0
    BY <1>2 DEF HandlersInv, HandlerInv
  <1>6. HandlerInv(h)'
    BY <1>2, <1>4, <1>5, NothingToDecode
       DEF HandlerInv, KeepsWord, Unsettled, Answered, Ended, resourceVars
  <1>7. QueuesInv'
    <2> SUFFICES ASSUME NEW e \in ScriptKeys, NEW k \in DOMAIN responses'[e]
                 PROVE  responses'[e][k].data = NoData /\ KeepsWord(responses'[e][k])
      BY DEF QueuesInv, KeepsWord, Unsettled
    <2>1. CASE e # key
      <3>1. responses'[e] = responses[e]
        BY <1>2, <2>1 DEF HandlersInv, IndexInv, TypeInv, TypeOK
      <3> QED BY <3>1 DEF HandlersInv, QueuesInv
    <2>2. CASE e = key
      <3>1. responses'[e] = Tail(responses[key])
        BY <1>1, <1>2, <2>2 DEF HandlersInv, IndexInv, TypeInv, TypeOK
      <3>2. k + 1 \in DOMAIN responses[key] /\ responses'[e][k] = responses[key][k + 1]
        <4>1. /\ Len(responses[key]) \in Nat /\ DOMAIN responses[key] = 1..Len(responses[key])
              /\ DOMAIN Tail(responses[key]) = 1..(Len(responses[key]) - 1)
              /\ \A j \in DOMAIN Tail(responses[key]) :
                   Tail(responses[key])[j] = responses[key][j + 1]
          BY <1>1
        <4>2. k \in DOMAIN Tail(responses[key])
          BY <3>1
        <4>3. k \in 1..(Len(responses[key]) - 1)
          BY <4>1, <4>2
        <4>4. k + 1 \in 1..Len(responses[key])
          BY <4>1, <4>3
        <4> QED BY <3>1, <4>1, <4>2, <4>4
      <3> QED BY <1>1, <3>2 DEF HandlersInv, QueuesInv
    <2> QED BY ONLY <2>1, <2>2
  <1> QED
    BY <1>6, <1>7

(* An answer that claims no write. *)
LEMMA ReadsInv ==
  ASSUME HandlersInv, NEW h \in Handlers, NEW from \in {"default", "page"},
         NEW to \in {"page"} \cup Answered, NEW d, KeepsWord(d), Reads(h, from, to, d),
         request[h].op \in LedgerOps => ~ decodes(request[h].op, d.data)
  PROVE  HandlerInv(h)'
  <1>1. /\ pc[h] = from /\ pc'[h] = to /\ UNCHANGED <<resourceVars, localVars>>
        /\ response'[h] = IF queued[h] THEN response[h] ELSE d
    BY DEF Reads, Goto, Answer, HandlersInv, IndexInv, TypeInv, TypeOK
  <1>2. h \notin changed /\ hid[h] = 0
    BY <1>1 DEF HandlersInv, HandlerInv
  <1>3. CASE queued[h]
    BY <1>1, <1>2, <1>3 DEF HandlersInv, HandlerInv, KeepsWord, Unsettled, Answered, Ended,
                            resourceVars, localVars
  <1>4. CASE ~ queued[h]
    BY <1>1, <1>2, <1>4 DEF HandlerInv, KeepsWord, Unsettled, Answered, Ended,
                            resourceVars, localVars
  <1> QED
    BY <1>3, <1>4

LEMMA QueryInv ==
  ASSUME HandlersInv, NEW h \in Handlers,
         \/ transactionResponse(h) \/ orderTransactions(h) \/ allTransactions(h)
         \/ listResponse(h) \/ storeSubscriptionsResponse(h) \/ hostedPageResponse(h)
         \/ unknownEndpoint(h)
  PROVE  HandlerInv(h)'
  <1>1. KeepsWord(V0002) /\ KeepsWord(NotFound)
    BY PlainKeepsWord DEF V0002, NotFound, Response
  <1>2. \A data : KeepsWord(Succeed(data))
    BY SucceedKeepsWord DEF KeepsWord
  <1>3. CASE transactionResponse(h)
    BY <1>1, <1>2, <1>3, ReadsInv
       DEF transactionResponse, Serves, LedgerOps, ChargeOps, Answered
  <1>4. CASE orderTransactions(h)
    BY <1>2, <1>4, ReadsInv DEF orderTransactions, Serves, LedgerOps, ChargeOps
  <1>5. CASE allTransactions(h)
    BY <1>2, <1>5, ReadsInv DEF allTransactions, Serves, LedgerOps, ChargeOps
  <1>6. CASE listResponse(h)
    <2> DEFINE d == [response[h] EXCEPT !.data.page = nextPageToken]
    <2>1. pc[h] = "page"
      BY <1>6 DEF listResponse, Reads, Goto
    <2>2. response[h] \in Responses /\ response[h].data \in Data
      BY DEF HandlersInv, IndexInv, TypeInv, TypeOK, Responses
    <2>3. /\ d.recordCharge = response[h].recordCharge /\ d.status = response[h].status
          /\ d.code = response[h].code /\ d.content = response[h].content
          /\ d.data.kind = response[h].data.kind /\ d.data.hid = response[h].data.hid
          /\ d.data.subscription = response[h].data.subscription
      BY <2>2 DEF Responses, Data
    <2> HIDE DEF d
    <2>4. KeepsWord(d)
      <3>1. Wire(d) = Wire(response[h])
        BY <2>3 DEF Wire
      <3> QED BY <2>3, <3>1 DEF HandlersInv, HandlerInv, KeepsWord, Unsettled
    <2>5. request[h].op \in LedgerOps => ~ decodes(request[h].op, d.data)
      <3>1. h \notin changed
        BY <2>1 DEF HandlersInv, HandlerInv
      <3>2. request[h].op \in LedgerOps => ~ decodes(request[h].op, response[h].data)
        BY <3>1 DEF HandlersInv, HandlerInv
      <3> QED BY <2>3, <3>2 DEF decodes, LedgerOps, ChargeOps
    <2> QED BY <1>6, <2>4, <2>5, ReadsInv DEF listResponse, Answered, d
  <1>7. CASE storeSubscriptionsResponse(h)
    BY <1>2, <1>7, ReadsInv
       DEF storeSubscriptionsResponse, Serves, LedgerOps, ChargeOps, Answered
  <1>8. CASE hostedPageResponse(h)
    BY <1>2, <1>8, ReadsInv DEF hostedPageResponse, Serves, LedgerOps, ChargeOps, Answered
  <1>9. CASE unknownEndpoint(h)
    BY <1>1, <1>9, ReadsInv DEF unknownEndpoint, Serves, LedgerOps, ChargeOps, Answered
  <1> QED
    BY <1>3, <1>4, <1>5, <1>6, <1>7, <1>8, <1>9

(* The writers: a handler that changed something says so, or nothing that  *)
(* contradicts it.                                                         *)
LEMMA RecordChargeInv ==
  ASSUME HandlersInv, NEW h \in Handlers, recordCharge(h)
  PROVE  HandlerInv(h)'
  <1> DEFINE i == chargeCount + 1
             d == Succeed(ChargeData(i, subscriptionID[h]))
             action == IF Serves(h, "charge") THEN "onetime" ELSE "subscription"
             tx == Transaction(i, bodyOrder(h), action, subscriptionID[h], "charged")
  <1>1. /\ pc[h] \in {"default", "record"} /\ pc'[h] = "block"
        /\ response'[h] = IF queued[h] THEN response[h] ELSE d
        /\ hid'[h] = i /\ changed' = changed \cup {h}
        /\ UNCHANGED <<request, queued>>
    BY DEF recordCharge, Goto, Answer, hidOf, HandlersInv, IndexInv, TypeInv, TypeOK
  <1>2. i \in HIDs /\ i # 0
    BY BoundsAssumption DEF recordCharge, HandlersInv, IndexInv, TypeInv, TypeOK, HIDs
  <1>3. transactionsByID'[i].order = bodyOrder(h)
    <2>1. transactionsByID'[i] = tx
      BY <1>2 DEF recordCharge, hidOf, HandlersInv, IndexInv, TypeInv, TypeOK
    <2> QED BY <2>1 DEF Transaction
  <1>4. request[h].op \in ChargeOps
    BY DEF recordCharge, Goto, Serves, ChargeOps, HandlersInv, IndexInv, TypeInv,
           RecordIsSubscribe
  <1>5. d.data.hid = i /\ d.recordCharge = FALSE
    BY DEF Succeed, Response, ChargeData, NoData
  <1>6. Unsettled(d)
    BY SucceedKeepsWord
  <1> HIDE DEF i, d
  <1>7. bodyOrder(h)' = bodyOrder(h)
    BY <1>1 DEF bodyOrder
  <1>8. CASE queued[h]
    <2>1. /\ response'[h] = response[h] /\ response[h].data = NoData
          /\ response[h].recordCharge /\ KeepsWord(response[h])
      BY <1>1, <1>8 DEF HandlersInv, HandlerInv
    <2> QED
      BY <1>1, <1>2, <1>3, <1>4, <1>7, <1>8, <2>1, NothingToDecode
         DEF HandlerInv, KeepsWord, Unsettled, LedgerOps
  <1>9. CASE ~ queued[h]
    BY <1>1, <1>2, <1>3, <1>4, <1>5, <1>6, <1>7, <1>9
       DEF HandlerInv, KeepsWord, Unsettled, LedgerOps
  <1> QED
    BY <1>8, <1>9

LEMMA NewSubscriptionInv ==
  ASSUME HandlersInv, NEW h \in Handlers, newSubscription(h)
  PROVE  HandlerInv(h)'
  <1>1. /\ pc[h] = "default" /\ pc'[h] = "record" /\ request[h].op = "subscribe"
        /\ changed' = changed \cup {h}
        /\ UNCHANGED <<request, response, queued, hid, transactionsByID>>
    BY DEF newSubscription, Goto, Serves, HandlersInv, IndexInv, TypeInv, TypeOK
  <1>2. h \notin changed /\ hid[h] = 0
    BY <1>1 DEF HandlersInv, HandlerInv
  <1> QED
    BY <1>1, <1>2
       DEF HandlersInv, HandlerInv, KeepsWord, Unsettled, LedgerOps, ChargeOps, Answered, Ended

(* A refund or a cancellation that found its resource. *)
LEMMA ChangeInv ==
  ASSUME HandlersInv, NEW h \in Handlers, NEW data,
         request[h].op \in {"refund", "cancelSub"},
         Goto(h, "default", "block"), Answer(h, Succeed(data)),
         changed' = changed \cup {h}, UNCHANGED <<localVars>>
  PROVE  HandlerInv(h)'
  <1>1. /\ pc[h] = "default" /\ pc'[h] = "block" /\ UNCHANGED <<request, queued, hid>>
        /\ response'[h] = IF queued[h] THEN response[h] ELSE Succeed(data)
    BY DEF Goto, Answer, localVars, HandlersInv, IndexInv, TypeInv, TypeOK
  <1>2. hid[h] = 0
    BY <1>1 DEF HandlersInv, HandlerInv
  <1>3. Unsettled(Succeed(data)) /\ KeepsWord(Succeed(data))
    BY SucceedKeepsWord DEF KeepsWord
  <1>4. CASE queued[h]
    <2>1. /\ response'[h] = response[h] /\ response[h].data = NoData
          /\ response[h].recordCharge /\ KeepsWord(response[h])
      BY <1>1, <1>4 DEF HandlersInv, HandlerInv
    <2> QED
      BY <1>1, <1>2, <1>4, <2>1
         DEF HandlerInv, KeepsWord, Unsettled, LedgerOps, ChargeOps
  <1>5. CASE ~ queued[h]
    BY <1>1, <1>2, <1>3, <1>5 DEF HandlerInv, KeepsWord, Unsettled, LedgerOps, ChargeOps
  <1> QED
    BY <1>4, <1>5

LEMMA RefundInv ==
  ASSUME HandlersInv, NEW h \in Handlers, refundResponse(h)
  PROVE  HandlerInv(h)'
  <1>1. CASE Reads(h, "default", "block", V0002)
    <2>1. KeepsWord(V0002) /\ V0002.data = NoData
      BY PlainKeepsWord DEF V0002, Response
    <2> QED BY <1>1, <2>1, ReadsInv, NothingToDecode DEF Answered
  <1>2. CASE ~ Reads(h, "default", "block", V0002)
    BY <1>2, ChangeInv DEF refundResponse, Serves
  <1> QED
    BY <1>1, <1>2

LEMMA SubscriptionInv ==
  ASSUME HandlersInv, NEW h \in Handlers, subscriptionResponse(h)
  PROVE  HandlerInv(h)'
  <1>1. CASE Reads(h, "default", "block", V0002)
    <2>1. KeepsWord(V0002) /\ V0002.data = NoData
      BY PlainKeepsWord DEF V0002, Response
    <2> QED BY <1>1, <2>1, ReadsInv, NothingToDecode DEF Answered
  <1>2. CASE request[h].op = "getSub" /\ ~ Reads(h, "default", "block", V0002)
    <2>1. \A data : KeepsWord(Succeed(data))
      BY SucceedKeepsWord DEF KeepsWord
    <2>2. PICK data : Reads(h, "default", "block", Succeed(data))
      BY <1>2 DEF subscriptionResponse, Serves
    <2> QED BY <1>2, <2>1, <2>2, ReadsInv DEF Answered, LedgerOps, ChargeOps
  <1>3. CASE request[h].op = "cancelSub" /\ ~ Reads(h, "default", "block", V0002)
    BY <1>3, ChangeInv DEF subscriptionResponse, Serves
  <1> QED
    BY <1>1, <1>2, <1>3 DEF subscriptionResponse, Serves

-----------------------------------------------------------------------------
LEMMA QueuesKept ==
  ASSUME HandlersInv, UNCHANGED responses
  PROVE  QueuesInv'
  BY DEF HandlersInv, QueuesInv, KeepsWord, Unsettled

LEMMA ServeInv ==
  ASSUME HandlersInv, NEW g \in Handlers, Serve(g)
  PROVE  QueuesInv' /\ \A h \in Handlers : HandlerInv(h)'
  <1>1. HandlerInv(g)' /\ QueuesInv'
    <2>1. CASE nextResponse(g)
      BY <2>1, NextResponseInv
    <2>2. CASE \/ Authorized(g) \/ NoneQueued(g) \/ CheckBlock(g) \/ Hijack(g)
               \/ HangEnds(g) \/ writeResponse(g) \/ RefuseUnauthorized(g)
      <3>1. UNCHANGED responses
        BY <2>2 DEF Authorized, NoneQueued, CheckBlock, Hijack, HangEnds, writeResponse,
                    RefuseUnauthorized, scriptVars
      <3> QED BY <2>2, <3>1, MoveInv, RefuseInv, QueuesKept
    <2>3. CASE defaultResponse(g)
      <3>1. UNCHANGED responses
        BY <2>3 DEF defaultResponse, recordCharge, newSubscription, refundResponse,
                    transactionResponse, orderTransactions, allTransactions, listResponse,
                    subscriptionResponse, storeSubscriptionsResponse, hostedPageResponse,
                    unknownEndpoint, Reads, scriptVars
      <3> QED
        BY <2>3, <3>1, QueuesKept, QueryInv, RecordChargeInv, NewSubscriptionInv, RefundInv,
           SubscriptionInv
           DEF defaultResponse
    <2> QED BY <2>1, <2>2, <2>3 DEF Serve
  <1>2. \A h \in Handlers \ {g} : HandlerInv(h)'
    BY OthersInv DEF HandlersInv
  <1> QED
    BY <1>1, <1>2

LEMMA ReceiveInv ==
  ASSUME HandlersInv, NEW g \in Handlers, NEW r \in Requests, Receive(g, r)
  PROVE  QueuesInv' /\ \A h \in Handlers : HandlerInv(h)'
  <1>1. ServerStep
    BY DEF ServerStep
  <1>2. /\ pc[g] = "idle" /\ pc' = [pc EXCEPT ![g] = "authorize"]
        /\ request' = [request EXCEPT ![g] = r]
        /\ UNCHANGED <<responses, response, queued, hid, changed, transactionsByID>>
    BY DEF Receive, Goto, resourceVars, scriptVars
  <1>3. HandlerInv(g)'
    <2>1. /\ pc'[g] = "authorize" /\ g \notin changed /\ hid[g] = 0 /\ ~ queued[g]
          /\ response[g] = NoResponse /\ KeepsWord(response[g])
      BY <1>2 DEF HandlersInv, HandlerInv, IndexInv, TypeInv, TypeOK
    <2>2. NoResponse.data = NoData
      BY DEF NoResponse, Response
    <2> QED
      BY <1>2, <2>1, <2>2, NothingToDecode
         DEF HandlerInv, KeepsWord, Unsettled, Answered, Ended
  <1>4. ASSUME NEW h \in Handlers \ {g}
        PROVE  HandlerInv(h)'
    <2>1. pc'[h] = pc[h] /\ request'[h] = request[h]
      BY <1>2 DEF HandlersInv, IndexInv, TypeInv, TypeOK
    <2> QED BY <1>1, <1>2, <2>1, BystanderInv DEF HandlersInv
  <1>5. QueuesInv'
    BY <1>2, QueuesKept
  <1> QED
    BY <1>3, <1>4, <1>5

LEMMA TestInv ==
  ASSUME HandlersInv, Test
  PROVE  QueuesInv' /\ \A h \in Handlers : HandlerInv(h)'
  <1>1. UNCHANGED <<pc, request, response, queued, hid, changed>>
    BY DEF Test, QueueResponse, Hang, Unhang, SetNextPage, AcceptAnyToken, Close,
           ShutListener, CloseReturns, CloseStep, resourceVars, localVars
  <1>2. \A h \in Handlers : HandlerInv(h)'
    BY <1>1, BystanderInv DEF HandlersInv, ServerStep
  <1>3. ASSUME NEW key \in ScriptKeys, NEW r \in ScriptResponses, QueueResponse(key, r)
        PROVE  QueuesInv'
    <2> DEFINE s == [r EXCEPT !.seq = scripted + 1]
    <2>1. /\ responses[key] \in Seq(Responses)
          /\ responses' = [responses EXCEPT ![key] = Append(responses[key], s)]
      BY <1>3 DEF QueueResponse, HandlersInv, IndexInv, TypeInv, TypeOK
    <2>2. s.data = NoData /\ KeepsWord(s)
      <3>1. r \in Responses /\ r.data = NoData /\ KeepsWord(r)
        BY ScriptAssumption, ScriptsAssumption DEF ScriptsKeepTheirWord, KeepsWord, Unsettled
      <3>2. /\ s.status = r.status /\ s.code = r.code /\ s.content = r.content
            /\ s.data = r.data /\ s.recordCharge = r.recordCharge
        BY <3>1 DEF Responses
      <3> HIDE DEF s
      <3>3. Wire(s) = Wire(r)
        BY <3>2 DEF Wire
      <3> QED BY <3>1, <3>2, <3>3 DEF KeepsWord, Unsettled
    <2> HIDE DEF s
    <2> SUFFICES ASSUME NEW e \in ScriptKeys, NEW k \in DOMAIN responses'[e]
                 PROVE  responses'[e][k].data = NoData /\ KeepsWord(responses'[e][k])
      BY DEF QueuesInv, KeepsWord, Unsettled
    <2>3. CASE e # key
      <3>1. responses'[e] = responses[e]
        BY <2>1, <2>3 DEF HandlersInv, IndexInv, TypeInv, TypeOK
      <3> QED BY <3>1 DEF HandlersInv, QueuesInv
    <2>4. CASE e = key
      <3>1. responses'[e] = Append(responses[key], s)
        BY <2>1, <2>4 DEF HandlersInv, IndexInv, TypeInv, TypeOK
      <3>2. \/ k \in DOMAIN responses[key] /\ responses'[e][k] = responses[key][k]
            \/ responses'[e][k] = s
        <4>1. /\ Len(responses[key]) \in Nat /\ DOMAIN responses[key] = 1..Len(responses[key])
              /\ DOMAIN Append(responses[key], s) = 1..(Len(responses[key]) + 1)
              /\ \A j \in 1..Len(responses[key]) :
                   Append(responses[key], s)[j] = responses[key][j]
              /\ Append(responses[key], s)[Len(responses[key]) + 1] = s
          BY <2>1
        <4>2. k \in 1..(Len(responses[key]) + 1)
          BY <3>1, <4>1
        <4>3. k \in 1..Len(responses[key]) \/ k = Len(responses[key]) + 1
          BY <4>1, <4>2
        <4> QED BY <3>1, <4>1, <4>3
      <3> QED BY <1>3, <2>2, <3>2 DEF HandlersInv, QueuesInv
    <2> QED BY <2>3, <2>4
  <1>4. UNCHANGED responses => QueuesInv'
    BY QueuesKept
  <1>5. \/ UNCHANGED responses
        \/ \E key \in ScriptKeys, r \in ScriptResponses : QueueResponse(key, r)
    BY DEF Test, Hang, Unhang, SetNextPage, AcceptAnyToken, Close, ShutListener,
           CloseReturns, CloseStep, scriptVars
  <1>6. QueuesInv'
    BY <1>3, <1>4, <1>5
  <1> QED
    BY <1>2, <1>6

LEMMA StepHandlers ==
  ASSUME HandlersInv, ServerStep \/ UNCHANGED serverVars
  PROVE  HandlersInv'
  <1>1. IndexInv'
    BY StepIndex DEF HandlersInv
  <1>2. ASSUME NEW g \in Handlers, DetectDisconnect(g)
        PROVE  QueuesInv' /\ \A h \in Handlers : HandlerInv(h)'
    <2>1. UNCHANGED <<pc, request, response, queued, hid, changed, responses>>
      BY <1>2 DEF DetectDisconnect, resourceVars, localVars, scriptVars
    <2> QED BY <1>2, <2>1, QueuesKept, BystanderInv DEF HandlersInv, ServerStep
  <1>3. CASE ServerStep
    BY <1>1, <1>2, <1>3, ServeInv, ReceiveInv, TestInv DEF ServerStep, HandlersInv
  <1>4. CASE UNCHANGED serverVars
    BY <1>1, <1>4 DEF HandlersInv, HandlerInv, QueuesInv, KeepsWord, Unsettled, bodyOrder,
                      serverVars, resourceVars, scriptVars, localVars
  <1> QED
    BY <1>3, <1>4

LEMMA InitHandlers == Init => HandlersInv
  <1> SUFFICES ASSUME Init PROVE HandlersInv
    OBVIOUS
  <1>1. QueuesInv
    BY DEF Init, QueuesInv
  <1>2. ASSUME NEW h \in Handlers
        PROVE  HandlerInv(h)
    <2>1. /\ pc[h] = "idle" /\ response[h] = NoResponse /\ h \notin changed /\ hid[h] = 0
          /\ queued[h] = FALSE
      BY DEF Init
    <2>2. KeepsWord(NoResponse) /\ NoResponse.data = NoData
      BY PlainKeepsWord DEF NoResponse, Response
    <2> QED BY <2>1, <2>2, NothingToDecode DEF HandlerInv
  <1> QED
    BY <1>1, <1>2, InitIndex DEF HandlersInv

-----------------------------------------------------------------------------
(***************************************************************************)
(* What a call knows of its handlers.                                      *)
(***************************************************************************)
First(c) == <<c, 1>>

Returned(c) == phase[c] = "returned"

(* A handler that runs carries the request of its call; a body cut off     *)
(* belongs to an attempt the client has given up.                          *)
AttemptInv(c) ==
  \A k \in 1..MaxAttempts : pc[<<c, k>>] # "idle" =>
    /\ phase[c] # "idle" /\ k <= attempt[c]
    /\ request[<<c, k>>].op = asked[c].op /\ request[<<c, k>>].arg = asked[c].arg
    /\ ~ request[<<c, k>>].complete => Left(c, k)

ProgressInv(c) ==
  /\ phase[c] = "idle" => attempt[c] = 0
  /\ phase[c] \in {"sent", "headers"} => attempt[c] >= 1
  /\ attempt[c] > 1 => isRead(c)
  /\ attempt[c] > 0 => asked[c] \in CallRequests
  /\ phase[c] = "headers" => pc[Handler(c)] = "done"

AnswerInv(c) ==
  /\ Returned(c) /\ IsWrite(c) /\ IsSettledRefusal(outcome[c]) =>
       pc[First(c)] = "done" /\ First(c) \notin changed
  /\ Returned(c) /\ IsWrite(c) /\ outcome[c] = NoError =>
       /\ pc[First(c)] = "done" /\ First(c) \in changed
       /\ asked[c].op \in ChargeOps =>
            /\ result[c].hid = hid[First(c)] /\ hid[First(c)] # 0
            /\ request[First(c)].complete
  /\ result[c].kind = "charge" =>
       Returned(c) /\ IsWrite(c) /\ outcome[c] = NoError /\ asked[c].op \in ChargeOps

CallInv(c) == AttemptInv(c) /\ ProgressInv(c) /\ AnswerInv(c)

SystemInv == HandlersInv /\ CallsTypeOK /\ \A c \in Calls : CallInv(c)

-----------------------------------------------------------------------------
LEMMA HandlerTypes ==
  /\ \A c \in Calls, k \in 1..MaxAttempts : <<c, k>> \in Handlers
  /\ \A h \in Handlers : \E c \in Calls, k \in 1..MaxAttempts : h = <<c, k>>
  /\ 1 \in 1..MaxAttempts /\ MaxAttempts \in Nat
  BY CallAssumption

LEMMA HandlerOfCall ==
  ASSUME CallsTypeOK, NEW c \in Calls, attempt[c] # 0
  PROVE  attempt[c] \in 1..MaxAttempts /\ Handler(c) \in Handlers
  <1>1. attempt[c] \in 0..MaxAttempts /\ MaxAttempts \in Nat
    BY HandlerTypes DEF CallsTypeOK
  <1>2. attempt[c] \in 1..MaxAttempts
    BY <1>1
  <1> QED
    BY <1>2, HandlerTypes DEF Handler

LEMMA WritesAreNotReplayed ==
  ASSUME NEW c, asked[c].op \in LedgerOps
  PROVE  ~ isRead(c) /\ method(asked[c]) \in {"POST", "PUT"}
  BY DEF LedgerOps, ChargeOps, isRead, method, ReadMethods

(* Only the one attempt of a write changes anything. *)
LEMMA ChangedIsFirst ==
  ASSUME SystemInv, NEW c \in Calls, NEW k \in 1..MaxAttempts, <<c, k>> \in changed
  PROVE  /\ k = 1 /\ attempt[c] = 1 /\ IsWrite(c) /\ phase[c] # "idle"
         /\ pc[First(c)] # "idle"
  <1>1. <<c, k>> \in Handlers
    BY HandlerTypes
  <1>2. pc[<<c, k>>] # "idle" /\ request[<<c, k>>].op \in LedgerOps
    BY <1>1 DEF SystemInv, HandlersInv, HandlerInv
  <1>3. phase[c] # "idle" /\ k <= attempt[c] /\ asked[c].op \in LedgerOps
    BY <1>2 DEF SystemInv, CallInv, AttemptInv
  <1>4. ~ (attempt[c] > 1)
    BY <1>3, WritesAreNotReplayed DEF SystemInv, CallInv, ProgressInv
  <1>5. k \in Nat /\ k >= 1 /\ attempt[c] \in Nat
    BY HandlerTypes DEF SystemInv, CallsTypeOK
  <1>6. k = 1 /\ attempt[c] = 1
    BY <1>3, <1>4, <1>5
  <1> QED
    BY <1>2, <1>3, <1>6 DEF IsWrite, Submitted, First

LEMMA EffectiveIsFirst ==
  ASSUME SystemInv, NEW c \in Calls
  PROVE  c \in Effective <=> First(c) \in changed
  BY ChangedIsFirst, HandlerTypes DEF Effective, First

(* The provider moves handlers forward only; what has ended is final. *)
LEMMA ProviderStep ==
  ASSUME HandlersInv, Provider, NEW h \in Handlers
  PROVE  /\ request'[h] = request[h] /\ (pc'[h] = "idle" <=> pc[h] = "idle")
         /\ pc[h] = "done" =>
              /\ pc'[h] = "done" /\ response'[h] = response[h] /\ hid'[h] = hid[h]
              /\ h \in changed' <=> h \in changed
         /\ h \in changed => h \in changed'
  <1> USE DEF HandlersInv, IndexInv, TypeInv, TypeOK
  <1>1. CASE Test \/ \E g \in Handlers : DetectDisconnect(g)
    BY <1>1 DEF DetectDisconnect, Test, QueueResponse, Hang, Unhang, SetNextPage,
                AcceptAnyToken, Close, ShutListener, CloseReturns, CloseStep, resourceVars,
                localVars
  <1>2. ASSUME NEW g \in Handlers \ {h}, Serve(g)
        PROVE  /\ pc'[h] = pc[h] /\ request'[h] = request[h] /\ response'[h] = response[h]
               /\ hid'[h] = hid[h] /\ (h \in changed' <=> h \in changed)
    BY <1>2, ServeIsLocal
  <1>3. ASSUME Serve(h)
        PROVE  /\ request' = request /\ changed \subseteq changed'
               /\ pc[h] \notin {"idle", "done"} /\ pc'[h] # "idle"
    <2>1. CASE \/ Authorized(h) \/ RefuseUnauthorized(h) \/ NoneQueued(h)
               \/ CheckBlock(h) \/ Hijack(h) \/ HangEnds(h) \/ writeResponse(h)
      BY <2>1 DEF Authorized, RefuseUnauthorized, NoneQueued, CheckBlock, Hijack,
                  HangEnds, writeResponse, Goto, localVars, resourceVars
    <2>2. CASE nextResponse(h)
      BY <2>2 DEF nextResponse, Goto, resourceVars
    <2>3. CASE recordCharge(h) \/ newSubscription(h)
      BY <2>3 DEF recordCharge, newSubscription, Goto
    <2>4. CASE refundResponse(h)
      BY <2>4 DEF refundResponse, Reads, Goto, localVars, resourceVars
    <2>5. CASE subscriptionResponse(h)
      BY <2>5 DEF subscriptionResponse, Reads, Goto, localVars, resourceVars
    <2>6. CASE \/ transactionResponse(h) \/ orderTransactions(h) \/ allTransactions(h)
               \/ listResponse(h) \/ storeSubscriptionsResponse(h)
               \/ hostedPageResponse(h) \/ unknownEndpoint(h)
      BY <2>6 DEF transactionResponse, orderTransactions, allTransactions, listResponse,
                  storeSubscriptionsResponse, hostedPageResponse, unknownEndpoint, Reads,
                  Goto, localVars, resourceVars
    <2> QED
      BY <1>3, <2>1, <2>2, <2>3, <2>4, <2>5, <2>6 DEF Serve, defaultResponse
  <1>4. CASE \E g \in Handlers : Serve(g)
    BY <1>2, <1>3, <1>4
  <1>5. Provider => \/ Test \/ \E g \in Handlers : DetectDisconnect(g)
                    \/ \E g \in Handlers : Serve(g)
    BY HandlerTypes DEF Provider
  <1> QED
    BY <1>1, <1>4, <1>5

-----------------------------------------------------------------------------
(* Every step of the system is a step of the provider, or leaves it alone. *)
LEMMA ArrivesARequest ==
  ASSUME SystemInv, NEW c \in Calls, NEW k \in 1..MaxAttempts, NEW complete \in BOOLEAN,
         Arrive(c, k, complete)
  PROVE  /\ asked[c] \in CallRequests
         /\ [asked[c] EXCEPT !.complete = complete] \in Requests
         /\ [asked[c] EXCEPT !.complete = complete].op = asked[c].op
         /\ [asked[c] EXCEPT !.complete = complete].arg = asked[c].arg
         /\ [asked[c] EXCEPT !.complete = complete].complete = complete
  <1>1. attempt[c] > 0
    <2>1. k \in Nat /\ k >= 1 /\ k <= attempt[c] /\ attempt[c] \in Nat
      BY HandlerTypes DEF Arrive, SystemInv, CallsTypeOK
    <2> QED BY <2>1
  <1>2. asked[c] \in CallRequests /\ asked[c] \in Requests
    BY <1>1, CallAssumption DEF SystemInv, CallInv, ProgressInv
  <1> QED
    BY <1>2 DEF Requests

LEMMA StepServer ==
  ASSUME SystemInv, SystemNext
  PROVE  ServerStep \/ UNCHANGED serverVars
  <1>1. CASE Provider
    BY <1>1, HandlerTypes DEF Provider, ServerStep
  <1>2. ASSUME NEW c \in Calls, Client(c)
        PROVE  UNCHANGED serverVars
    BY <1>2 DEF Client, RefuseLocally, Send, transportFailure, ReceiveHeaders, ReadBody,
                bodyFailure, Return
  <1>3. ASSUME NEW c \in Calls, Network(c)
        PROVE  ServerStep \/ UNCHANGED serverVars
    BY <1>3, HandlerTypes, ArrivesARequest DEF Network, Replay, Arrive, ServerStep
  <1> QED
    BY <1>1, <1>2, <1>3 DEF SystemNext

(* The provider's steps leave what a call knows of it as it is. *)
LEMMA ProviderKeepsCalls ==
  ASSUME SystemInv, Provider, NEW c \in Calls
  PROVE  CallInv(c)'
  <1>1. UNCHANGED callVars
    BY DEF Provider
  <1>2. /\ UNCHANGED <<phase, asked, attempt, outcome, result>>
        /\ isRead(c)' = isRead(c) /\ IsWrite(c)' = IsWrite(c)
        /\ \A k \in 1..MaxAttempts : Left(c, k)' = Left(c, k)
    BY <1>1 DEF callVars, isRead, IsWrite, Submitted, Left
  <1>3. AttemptInv(c)'
    BY <1>2, HandlerTypes, ProviderStep DEF SystemInv, CallInv, AttemptInv
  <1>4. ProgressInv(c)'
    <2>1. phase[c] = "headers" => Handler(c) \in Handlers /\ pc[Handler(c)] = "done"
      <3>1. phase[c] = "headers" => attempt[c] # 0
        BY DEF SystemInv, CallsTypeOK, CallInv, ProgressInv
      <3> QED BY <3>1, HandlerOfCall DEF SystemInv, CallInv, ProgressInv
    <2>2. phase[c] = "headers" => pc'[Handler(c)] = "done"
      BY <2>1, ProviderStep DEF SystemInv
    <2>3. Handler(c)' = Handler(c)
      BY <1>2 DEF Handler
    <2> QED BY <1>2, <2>2, <2>3 DEF SystemInv, CallInv, ProgressInv
  <1>5. AnswerInv(c)'
    <2>1. First(c) \in Handlers
      BY HandlerTypes DEF First
    <2>2. First(c)' = First(c) /\ Returned(c)' = Returned(c)
      BY <1>2 DEF First, Returned
    <2> QED BY <1>2, <2>1, <2>2, ProviderStep DEF SystemInv, CallInv, AnswerInv
  <1> QED
    BY <1>3, <1>4, <1>5 DEF CallInv

(* A step of one call leaves the others as they are. *)
LEMMA OtherCall ==
  ASSUME SystemInv, NEW c \in Calls,
         UNCHANGED <<pc, request, hid, changed>>,
         UNCHANGED <<phase[c], asked[c], attempt[c], outcome[c], result[c]>>
  PROVE  CallInv(c)'
  <1>1. /\ isRead(c)' = isRead(c) /\ IsWrite(c)' = IsWrite(c) /\ Handler(c)' = Handler(c)
        /\ First(c)' = First(c) /\ Returned(c)' = Returned(c)
        /\ \A k \in 1..MaxAttempts : Left(c, k)' = Left(c, k)
    BY DEF isRead, IsWrite, Submitted, Left, Handler, First, Returned
  <1>2. AttemptInv(c)'
    BY <1>1 DEF SystemInv, CallInv, AttemptInv
  <1>3. ProgressInv(c)'
    BY <1>1 DEF SystemInv, CallInv, ProgressInv
  <1>4. AnswerInv(c)'
    BY <1>1 DEF SystemInv, CallInv, AnswerInv
  <1> QED
    BY <1>2, <1>3, <1>4 DEF CallInv

(* A call returns: what is left to show is that its answer is right. *)
LEMMA ReturnKeepsCalls ==
  ASSUME SystemInv, NEW c \in Calls, NEW from \in {"idle", "sent", "headers"},
         NEW err \in Outcomes, NEW data \in Data, Return(c, from, err, data),
         IsWrite(c) /\ IsSettledRefusal(err) =>
           pc[First(c)] = "done" /\ First(c) \notin changed,
         IsWrite(c) /\ err = NoError =>
           /\ pc[First(c)] = "done" /\ First(c) \in changed
           /\ asked[c].op \in ChargeOps =>
                /\ data.hid = hid[First(c)] /\ hid[First(c)] # 0
                /\ request[First(c)].complete,
         data.kind = "charge" => IsWrite(c) /\ err = NoError /\ asked[c].op \in ChargeOps
  PROVE  CallsTypeOK' /\ \A d \in Calls : CallInv(d)'
  <1>1. /\ phase[c] = from /\ phase' = [phase EXCEPT ![c] = "returned"]
        /\ outcome' = [outcome EXCEPT ![c] = err] /\ result' = [result EXCEPT ![c] = data]
        /\ UNCHANGED <<asked, keyed, attempt, after>>
        /\ UNCHANGED <<pc, request, hid, changed>>
    BY DEF Return, Move, serverVars, resourceVars, localVars
  <1>2. CallsTypeOK'
    BY <1>1 DEF SystemInv, CallsTypeOK
  <1>3. phase'[c] = "returned" /\ outcome'[c] = err /\ result'[c] = data
    BY <1>1 DEF SystemInv, CallsTypeOK
  <1>4. \A d \in Calls \ {c} : CallInv(d)'
    BY <1>1, OtherCall DEF SystemInv, CallsTypeOK
  <1>5. IsWrite(c)' => IsWrite(c)
    <2>1. phase[c] = "idle" => ~ (attempt[c] > 0)
      BY DEF SystemInv, CallInv, ProgressInv
    <2> QED BY <1>1, <2>1 DEF IsWrite, Submitted
  <1>6. isRead(c)' = isRead(c) /\ First(c)' = First(c) /\ (IsWrite(c) => IsWrite(c)')
    BY <1>1, <1>3 DEF isRead, First, IsWrite, Submitted
  <1>7. AttemptInv(c)'
    BY <1>1, <1>3 DEF SystemInv, CallInv, AttemptInv, Left
  <1>8. ProgressInv(c)'
    BY <1>1, <1>3, <1>6 DEF SystemInv, CallInv, ProgressInv
  <1>9. AnswerInv(c)'
    BY <1>1, <1>3, <1>5, <1>6 DEF AnswerInv, Returned
  <1> QED
    BY <1>2, <1>4, <1>7, <1>8, <1>9 DEF CallInv

-----------------------------------------------------------------------------
(* The verdicts of the client. *)
LEMMA ErrorTypes ==
  /\ \A kind \in Kinds \cup {"none"}, status \in Nat, code \in Codes :
       Error(kind, status, code) \in Outcomes
  /\ \A m : \A code \in Codes : rateLimited(m, code) \in Outcomes
  /\ NoError \in Outcomes
  <1>1. NoText \in Codes
    BY DEF Codes
  <1> QED
    BY <1>1 DEF Error, NoError, rateLimited, Outcomes, Kinds

LEMMA WireTypes ==
  ASSUME NEW r \in Responses
  PROVE  Wire(r).status \in Nat /\ envCode(Wire(r).body) \in Codes /\ Wire(r).body.read
  <1>1. r.status \in Nat /\ r.code \in Codes /\ NoText \in Codes /\ CodeSuccess \in Codes
    BY DEF Responses, Codes
  <1> QED
    BY <1>1 DEF Wire, envCode, rawString, NoValue

LEMMA ClassifyType ==
  ASSUME NEW m, NEW status \in Nat, NEW failed \in BOOLEAN, NEW code \in Codes
  PROVE  classify(m, status, failed, code) \in Outcomes
  <1>1. NoText \in Codes
    BY DEF Codes
  <1>2. providerError(status, code) \in Outcomes
    <2>1. providerKind(normalizeCode(code)) \in Kinds
      BY DEF providerKind, Kinds
    <2> QED BY <2>1, ErrorTypes DEF providerError
  <1>3. Error("UnknownOutcome", status, NoText) \in Outcomes
        /\ Error("UnknownOutcome", status, code) \in Outcomes
    BY <1>1, ErrorTypes DEF Kinds
  <1>4. classifyClientError(status, failed, code) \in Outcomes
    BY <1>2, <1>3 DEF classifyClientError
  <1>5. classifySuccess(status, failed, code) \in Outcomes
    BY <1>2, <1>3, ErrorTypes DEF classifySuccess
  <1> QED
    BY <1>3, <1>4, <1>5, ErrorTypes DEF classify

LEMMA VerdictType ==
  ASSUME NEW r, NEW got \in Responses
  PROVE  verdict(r, got) \in Outcomes
  <1>1. respond(method(r), Wire(got)) \in Outcomes
    <2>1. decodeErr(Wire(got).body) \in BOOLEAN
      BY DEF decodeErr
    <2> QED BY <2>1, WireTypes, ClassifyType DEF respond
  <1>2. unknownResponseOutcome(Wire(got)) \in Outcomes
    BY WireTypes, ErrorTypes DEF unknownResponseOutcome, Kinds
  <1> QED
    BY <1>1, <1>2 DEF verdict

(* A response whose data cannot be used leaves the outcome unknown, so a   *)
(* settled refusal is the response's own word, and a success its data.     *)
LEMMA VerdictMeans ==
  ASSUME NEW r, NEW got
  PROVE  /\ IsSettledRefusal(verdict(r, got)) =>
              IsSettledRefusal(respond(method(r), Wire(got)))
         /\ verdict(r, got) = NoError => decodes(r.op, got.data)
  BY DEF verdict, unknownResponseOutcome, Error, NoError, IsSettledRefusal,
         IsUnknownOutcome, Is

(* Without headers, or without a whole body, no write is refused.          *)
LEMMA FailureIsUnknown ==
  /\ \A status, code : /\ ~ IsSettledRefusal(Error("UnknownOutcome", status, code))
                       /\ Error("UnknownOutcome", status, code) # NoError
  /\ \A status : \A m \in {"POST", "PUT"} : ~ IsSettledRefusal(unreadableBody(m, status))
  /\ \A m, status : unreadableBody(m, status) # NoError
  <1> USE DEF Error, NoError, IsSettledRefusal, IsUnknownOutcome, Is
  <1>1. \A m, status : unreadableBody(m, status) =
          IF status = 429 THEN rateLimited(m, NoText) ELSE Error("UnknownOutcome", status, NoText)
    <2>1. \A m : classify(m, 429, TRUE, NoText) = rateLimited(m, NoText)
      BY DEF classify
    <2> HIDE DEF Error
    <2> QED BY <2>1 DEF unreadableBody
  <1>2. \A m \in {"POST", "PUT"} : rateLimited(m, NoText).joinsUnknown
    BY DEF rateLimited, ReadMethods
  <1>3. \A m : rateLimited(m, NoText) # NoError
    BY DEF rateLimited
  <1> QED
    BY <1>1, <1>2, <1>3

LEMMA UnreadableType ==
  ASSUME NEW m, NEW status \in Nat
  PROVE  unreadableBody(m, status) \in Outcomes
  <1>1. NoText \in Codes
    BY DEF Codes
  <1> QED
    BY <1>1, ClassifyType, ErrorTypes DEF unreadableBody, Kinds

-----------------------------------------------------------------------------
(* The client's steps. *)
LEMMA GiveUpKeepsCalls ==
  ASSUME SystemInv, NEW c \in Calls, RefuseLocally(c) \/ transportFailure(c)
  PROVE  CallsTypeOK' /\ \A d \in Calls : CallInv(d)'
  <1>1. /\ Error("InvalidInput", 0, NoText) \in Outcomes
        /\ Error("UnknownOutcome", 0, NoText) \in Outcomes
    <2>1. NoText \in Codes
      BY DEF Codes
    <2> QED BY <2>1, ErrorTypes DEF Kinds
  <1>2. NoData \in Data /\ NoData.kind # "charge"
    BY DataTypes DEF NoData
  <1>3. CASE RefuseLocally(c)
    <2>1. ~ IsWrite(c)
      BY <1>3 DEF RefuseLocally, Return, Move, IsWrite, Submitted
    <2> QED BY <1>1, <1>2, <1>3, <2>1, ReturnKeepsCalls DEF RefuseLocally
  <1>4. CASE transportFailure(c)
    BY <1>1, <1>2, <1>4, FailureIsUnknown, ReturnKeepsCalls DEF transportFailure
  <1> QED
    BY <1>3, <1>4

(* A write whose headers have arrived was sent once. *)
LEMMA AnsweredWrite ==
  ASSUME SystemInv, NEW c \in Calls, phase[c] = "headers"
  PROVE  /\ Handler(c) \in Handlers /\ pc[Handler(c)] = "done"
         /\ response[Handler(c)] \in Responses /\ Submitted(c)
         /\ asked[c].op \in LedgerOps =>
              /\ Handler(c) = First(c) /\ IsWrite(c)
              /\ request[First(c)].op = asked[c].op /\ request[First(c)].complete
  <1>1. attempt[c] >= 1 /\ attempt[c] \in Nat /\ pc[Handler(c)] = "done"
    BY HandlerTypes DEF SystemInv, CallsTypeOK, CallInv, ProgressInv
  <1>2. Handler(c) \in Handlers /\ attempt[c] \in 1..MaxAttempts
    BY <1>1, HandlerOfCall DEF SystemInv
  <1>3. response[Handler(c)] \in Responses
    BY <1>2 DEF SystemInv, HandlersInv, IndexInv, TypeInv, TypeOK
  <1>4. Submitted(c)
    BY <1>1 DEF Submitted
  <1>5. ASSUME asked[c].op \in LedgerOps
        PROVE  /\ Handler(c) = First(c) /\ IsWrite(c)
               /\ request[First(c)].op = asked[c].op /\ request[First(c)].complete
    <2>1. attempt[c] = 1
      <3>1. ~ (attempt[c] > 1)
        BY <1>5, WritesAreNotReplayed DEF SystemInv, CallInv, ProgressInv
      <3> QED BY <1>1, <3>1
    <2>2. Handler(c) = First(c)
      BY <2>1 DEF Handler, First
    <2>3. ~ Left(c, 1)
      BY <2>1 DEF Left
    <2>4. request[First(c)].op = asked[c].op /\ request[First(c)].complete
      <3>1. pc[<<c, 1>>] # "idle"
        BY <1>1, <2>2 DEF First
      <3> QED BY <2>3, <3>1, HandlerTypes DEF SystemInv, CallInv, AttemptInv, First
    <2> QED BY <1>4, <1>5, <2>2, <2>4 DEF IsWrite
  <1> QED
    BY <1>1, <1>2, <1>3, <1>4, <1>5

LEMMA ReadBodyKeepsCalls ==
  ASSUME SystemInv, NEW c \in Calls, ReadBody(c)
  PROVE  CallsTypeOK' /\ \A d \in Calls : CallInv(d)'
  <1> DEFINE h == Handler(c)
             got == response[h]
             err == verdict(asked[c], got)
             data == IF err = NoError THEN got.data ELSE NoData
  <1>1. phase[c] = "headers" /\ Return(c, "headers", err, data)
    BY DEF ReadBody, Return, Move
  <1>2. got \in Responses /\ h \in Handlers /\ pc[h] = "done"
    BY <1>1, AnsweredWrite
  <1>3. err \in Outcomes /\ data \in Data
    BY <1>2, VerdictType, DataTypes DEF Responses
  <1>4. err = NoError => decodes(asked[c].op, got.data)
    BY VerdictMeans
  <1>5. IsSettledRefusal(err) => IsSettledRefusal(respond(method(asked[c]), Wire(got)))
    BY VerdictMeans
  <1>6. HandlerInv(h)
    BY <1>2 DEF SystemInv, HandlersInv
  <1> HIDE DEF h, got, err
  <1>7. ASSUME IsWrite(c), IsSettledRefusal(err)
        PROVE  pc[First(c)] = "done" /\ First(c) \notin changed
    <2>1. h = First(c) /\ method(asked[c]) \in {"POST", "PUT"}
      BY <1>1, <1>7, AnsweredWrite, WritesAreNotReplayed DEF IsWrite, h
    <2>2. ~ Unsettled(response[h])
      BY <1>5, <1>7, <2>1 DEF Unsettled, got
    <2> QED BY <1>2, <1>6, <2>1, <2>2 DEF HandlerInv, Answered, Ended
  <1>8. ASSUME IsWrite(c), err = NoError
        PROVE  /\ pc[First(c)] = "done" /\ First(c) \in changed
               /\ asked[c].op \in ChargeOps =>
                    /\ data.hid = hid[First(c)] /\ hid[First(c)] # 0
                    /\ request[First(c)].complete
    <2>1. /\ h = First(c) /\ request[h].op = asked[c].op /\ request[h].complete
          /\ asked[c].op \in LedgerOps
      BY <1>1, <1>8, AnsweredWrite DEF IsWrite, h
    <2> QED BY <1>2, <1>4, <1>6, <1>8, <2>1 DEF HandlerInv, got
  <1>9. data.kind = "charge" => IsWrite(c) /\ err = NoError /\ asked[c].op \in ChargeOps
    <2>1. data.kind = "charge" => err = NoError /\ got.data.kind = "charge"
      BY DEF NoData
    <2>2. data.kind = "charge" => asked[c].op \in ChargeOps
      BY <1>4, <2>1 DEF decodes, ChargeOps
    <2> QED BY <1>1, <2>1, <2>2, AnsweredWrite DEF LedgerOps
  <1> HIDE DEF data
  <1> QED
    BY <1>1, <1>3, <1>7, <1>8, <1>9, ReturnKeepsCalls

LEMMA BodyFailureKeepsCalls ==
  ASSUME SystemInv, NEW c \in Calls, bodyFailure(c)
  PROVE  CallsTypeOK' /\ \A d \in Calls : CallInv(d)'
  <1> DEFINE status == Wire(response[Handler(c)]).status
             err == unreadableBody(method(asked[c]), status)
  <1>1. phase[c] = "headers" /\ Return(c, "headers", err, NoData)
    BY DEF bodyFailure, Return, Move
  <1>2. err \in Outcomes /\ err # NoError
    <2>1. status \in Nat
      BY <1>1, AnsweredWrite, WireTypes
    <2> QED BY <2>1, UnreadableType, FailureIsUnknown
  <1>3. IsWrite(c) => ~ IsSettledRefusal(err)
    BY WritesAreNotReplayed, FailureIsUnknown DEF IsWrite
  <1>4. NoData \in Data /\ NoData.kind # "charge"
    BY DataTypes DEF NoData
  <1> HIDE DEF err
  <1> QED
    BY <1>1, <1>2, <1>3, <1>4, ReturnKeepsCalls

LEMMA SendKeepsCalls ==
  ASSUME SystemInv, NEW c \in Calls, NEW r \in CallRequests, NEW key \in BOOLEAN,
         Send(c, r, key)
  PROVE  CallsTypeOK' /\ \A d \in Calls : CallInv(d)'
  <1>1. /\ phase[c] = "idle" /\ phase' = [phase EXCEPT ![c] = "sent"]
        /\ asked' = [asked EXCEPT ![c] = r] /\ keyed' = [keyed EXCEPT ![c] = key]
        /\ attempt' = [attempt EXCEPT ![c] = 1]
        /\ after' = [after EXCEPT ![c] = {d \in Calls : phase[d] = "returned"}]
        /\ UNCHANGED <<outcome, result, pc, request, hid, changed>>
    BY DEF Send, Move, serverVars, resourceVars, localVars
  <1>2. CallsTypeOK'
    BY <1>1, HandlerTypes DEF SystemInv, CallsTypeOK
  <1>3. phase'[c] = "sent" /\ attempt'[c] = 1 /\ asked'[c] = r
    BY <1>1 DEF SystemInv, CallsTypeOK
  <1>4. \A d \in Calls \ {c} : CallInv(d)'
    BY <1>1, OtherCall DEF SystemInv, CallsTypeOK
  <1>5. AttemptInv(c)'
    BY <1>1 DEF SystemInv, CallInv, AttemptInv
  <1>6. ProgressInv(c)'
    BY <1>3 DEF ProgressInv
  <1>7. AnswerInv(c)'
    BY <1>1, <1>3 DEF SystemInv, CallInv, AnswerInv, Returned
  <1> QED
    BY <1>2, <1>4, <1>5, <1>6, <1>7 DEF CallInv

LEMMA HeadersKeepCalls ==
  ASSUME SystemInv, NEW c \in Calls, ReceiveHeaders(c)
  PROVE  CallsTypeOK' /\ \A d \in Calls : CallInv(d)'
  <1>1. /\ phase[c] = "sent" /\ phase' = [phase EXCEPT ![c] = "headers"]
        /\ pc[Handler(c)] = "done"
        /\ UNCHANGED <<asked, keyed, attempt, outcome, result, after, pc, request, hid,
                       changed>>
    BY DEF ReceiveHeaders, Move, serverVars, resourceVars, localVars
  <1>2. CallsTypeOK' /\ phase'[c] = "headers"
    BY <1>1 DEF SystemInv, CallsTypeOK
  <1>3. \A d \in Calls \ {c} : CallInv(d)'
    BY <1>1, OtherCall DEF SystemInv, CallsTypeOK
  <1>4. AttemptInv(c)'
    BY <1>1, <1>2 DEF SystemInv, CallInv, AttemptInv, Left
  <1>5. ProgressInv(c)'
    BY <1>1, <1>2 DEF SystemInv, CallInv, ProgressInv, Handler, isRead
  <1>6. AnswerInv(c)'
    BY <1>1, <1>2 DEF SystemInv, CallInv, AnswerInv, Returned
  <1> QED
    BY <1>2, <1>3, <1>4, <1>5, <1>6 DEF CallInv

(* Without GetBody only a read is written to a second connection.          *)
LEMMA ReplayKeepsCalls ==
  ASSUME SystemInv, NEW c \in Calls, Replay(c)
  PROVE  CallsTypeOK' /\ \A d \in Calls : CallInv(d)'
  <1>1. /\ phase[c] = "sent" /\ isRead(c) /\ attempt[c] < MaxAttempts
        /\ attempt' = [attempt EXCEPT ![c] = attempt[c] + 1]
        /\ UNCHANGED <<phase, asked, keyed, outcome, result, after, pc, request, hid,
                       changed>>
    BY DEF Replay, isReplayable, getBody, serverVars, resourceVars, localVars
  <1>2. /\ attempt[c] \in Nat /\ attempt[c] >= 1 /\ attempt[c] + 1 \in 0..MaxAttempts
        /\ attempt'[c] = attempt[c] + 1
    BY <1>1, HandlerTypes DEF SystemInv, CallsTypeOK, CallInv, ProgressInv
  <1>3. CallsTypeOK'
    BY <1>1, <1>2 DEF SystemInv, CallsTypeOK
  <1>4. \A d \in Calls \ {c} : CallInv(d)'
    BY <1>1, OtherCall DEF SystemInv, CallsTypeOK
  <1>5. AttemptInv(c)'
    <2>1. ASSUME NEW k \in 1..MaxAttempts, k <= attempt[c]
          PROVE  k <= attempt[c] + 1 /\ k < attempt[c] + 1
      BY <1>2, <2>1
    <2> QED BY <1>1, <1>2, <2>1 DEF SystemInv, CallInv, AttemptInv, Left
  <1>6. ProgressInv(c)'
    BY <1>1, <1>2 DEF SystemInv, CallInv, ProgressInv, isRead
  <1>7. AnswerInv(c)'
    BY <1>1 DEF SystemInv, CallInv, AnswerInv, Returned
  <1> QED
    BY <1>3, <1>4, <1>5, <1>6, <1>7 DEF CallInv

LEMMA ArriveKeepsCalls ==
  ASSUME SystemInv, NEW c \in Calls, NEW k \in 1..MaxAttempts, NEW complete \in BOOLEAN,
         Arrive(c, k, complete)
  PROVE  CallsTypeOK' /\ \A d \in Calls : CallInv(d)'
  <1> DEFINE g == <<c, k>>
             r == [asked[c] EXCEPT !.complete = complete]
  <1>1. /\ phase[c] # "idle" /\ k <= attempt[c] /\ (~ complete => Left(c, k))
        /\ pc[g] = "idle" /\ pc' = [pc EXCEPT ![g] = "authorize"]
        /\ request' = [request EXCEPT ![g] = r]
        /\ UNCHANGED <<callVars, hid, changed>>
    BY DEF Arrive, Receive, Goto, resourceVars
  <1>2. r.op = asked[c].op /\ r.arg = asked[c].arg /\ r.complete = complete
    BY ArrivesARequest
  <1>3. g \in Handlers /\ pc'[g] = "authorize" /\ request'[g] = r
    BY <1>1, HandlerTypes DEF SystemInv, HandlersInv, IndexInv, TypeInv, TypeOK
  <1>4. \A h \in Handlers \ {g} : pc'[h] = pc[h] /\ request'[h] = request[h]
    BY <1>1 DEF SystemInv, HandlersInv, IndexInv, TypeInv, TypeOK
  <1> HIDE DEF r
  <1>5. \A h \in Handlers : pc[h] = "done" => pc'[h] = "done" /\ request'[h] = request[h]
    BY <1>1, <1>4
  <1> SUFFICES ASSUME NEW d \in Calls PROVE CallInv(d)'
    BY <1>1 DEF callVars, SystemInv, CallsTypeOK
  <1>6. /\ UNCHANGED <<phase, asked, attempt, outcome, result>>
        /\ isRead(d)' = isRead(d) /\ IsWrite(d)' = IsWrite(d) /\ Handler(d)' = Handler(d)
        /\ \A j \in 1..MaxAttempts : Left(d, j)' = Left(d, j)
    BY <1>1 DEF callVars, isRead, IsWrite, Submitted, Left, Handler
  <1>7. AttemptInv(d)'
    <2> SUFFICES ASSUME NEW j \in 1..MaxAttempts, pc'[<<d, j>>] # "idle"
                 PROVE  /\ phase[d] # "idle" /\ j <= attempt[d]
                        /\ request'[<<d, j>>].op = asked[d].op
                        /\ request'[<<d, j>>].arg = asked[d].arg
                        /\ ~ request'[<<d, j>>].complete => Left(d, j)
      BY <1>6 DEF AttemptInv
    <2>1. CASE <<d, j>> = g
      BY <1>1, <1>2, <1>3, <2>1
    <2>2. CASE <<d, j>> # g
      BY <1>4, <2>2, HandlerTypes DEF SystemInv, CallInv, AttemptInv
    <2> QED BY <2>1, <2>2
  <1>8. ProgressInv(d)'
    <2>1. phase[d] = "headers" => Handler(d) \in Handlers /\ pc[Handler(d)] = "done"
      BY AnsweredWrite
    <2> QED BY <1>5, <1>6, <2>1 DEF SystemInv, CallInv, ProgressInv
  <1>9. AnswerInv(d)'
    <2>1. First(d) \in Handlers /\ First(d)' = First(d) /\ Returned(d)' = Returned(d)
      BY <1>6, HandlerTypes DEF First, Returned
    <2> QED BY <1>1, <1>5, <1>6, <2>1 DEF SystemInv, CallInv, AnswerInv
  <1> QED
    BY <1>7, <1>8, <1>9 DEF CallInv

-----------------------------------------------------------------------------
LEMMA StepSystem ==
  ASSUME SystemInv, [SystemNext]_systemVars
  PROVE  SystemInv'
  <1>1. HandlersInv'
    <2>1. ServerStep \/ UNCHANGED serverVars
      BY StepServer DEF systemVars
    <2> QED BY <2>1, StepHandlers DEF SystemInv
  <1>2. CASE Provider
    <2>1. CallsTypeOK'
      BY <1>2 DEF Provider, callVars, SystemInv, CallsTypeOK
    <2> QED BY <1>1, <1>2, <2>1, ProviderKeepsCalls DEF SystemInv
  <1>3. ASSUME NEW c \in Calls, Client(c)
        PROVE  SystemInv'
    BY <1>1, <1>3, GiveUpKeepsCalls, SendKeepsCalls, HeadersKeepCalls, ReadBodyKeepsCalls,
       BodyFailureKeepsCalls DEF Client, SystemInv
  <1>4. ASSUME NEW c \in Calls, Network(c)
        PROVE  SystemInv'
    BY <1>1, <1>4, ReplayKeepsCalls, ArriveKeepsCalls DEF Network, SystemInv
  <1>5. CASE UNCHANGED systemVars
    <2>1. /\ UNCHANGED <<pc, request, hid, changed>>
          /\ UNCHANGED <<phase, asked, keyed, attempt, outcome, result, after>>
      BY <1>5 DEF systemVars, serverVars, resourceVars, localVars, callVars
    <2>2. CallsTypeOK' /\ \A c \in Calls : CallInv(c)'
      BY <2>1, OtherCall DEF SystemInv, CallsTypeOK
    <2> QED BY <1>1, <2>2 DEF SystemInv
  <1> QED
    BY <1>2, <1>3, <1>4, <1>5 DEF SystemNext

LEMMA InitSystem == SystemInit => SystemInv
  <1> SUFFICES ASSUME SystemInit PROVE SystemInv
    OBVIOUS
  <1>1. HandlersInv
    BY InitHandlers DEF SystemInit
  <1>2. CallsTypeOK
    BY ErrorTypes, DataTypes, HandlerTypes DEF SystemInit, CallsTypeOK
  <1>3. ASSUME NEW c \in Calls
        PROVE  CallInv(c)
    <2>1. /\ phase[c] = "idle" /\ attempt[c] = 0 /\ result[c] = NoData
          /\ \A k \in 1..MaxAttempts : pc[<<c, k>>] = "idle"
      BY <1>3, HandlerTypes DEF SystemInit, Init
    <2>2. NoData.kind # "charge"
      BY DEF NoData
    <2> QED BY <2>1, <2>2 DEF CallInv, AttemptInv, ProgressInv, AnswerInv, Returned
  <1> QED
    BY <1>1, <1>2, <1>3 DEF SystemInv

LEMMA SystemInvariant == SystemSpec => []SystemInv
  <1>1. SystemInit => SystemInv
    BY InitSystem
  <1>2. SystemInv /\ [SystemNext]_systemVars => SystemInv'
    BY StepSystem
  <1> QED
    BY <1>1, <1>2, PTL DEF SystemSpec

(* Every variable of client, network and provider keeps its type.          *)
THEOREM SystemTypeCorrect == SystemSpec => []SystemTypeOK
  <1>1. SystemInv => SystemTypeOK
    BY DEF SystemInv, HandlersInv, IndexInv, TypeInv, SystemTypeOK
  <1> QED
    BY <1>1, SystemInvariant, PTL

(* A caller told that a write was refused may safely send another: the     *)
(* write of a call that returned a settled refusal (errors.go, classify)   *)
(* has not changed the provider's records and never will.                  *)
THEOREM RefusalsAreSettled == SystemSpec => []SettledRefusalHasNoEffect
  <1>1. SystemInv => SettledRefusalHasNoEffect
    <2> SUFFICES ASSUME SystemInv, NEW c \in Calls, phase[c] = "returned",
                        IsSettledRefusal(outcome[c]), c \in Effective
                 PROVE  FALSE
      BY DEF SettledRefusalHasNoEffect
    <2>1. First(c) \in changed
      BY EffectiveIsFirst
    <2>2. IsWrite(c)
      BY <2>1, ChangedIsFirst, HandlerTypes DEF First
    <2> QED BY <2>1, <2>2 DEF SystemInv, CallInv, AnswerInv, Returned
  <1> QED
    BY <1>1, SystemInvariant, PTL

(* One call of the client changes the provider's records through one       *)
(* request at most, whatever net/http does on a failing connection: do     *)
(* clears GetBody (client.go), so no write is ever replayed.               *)
THEOREM WritesTakeEffectOnce == SystemSpec => []WriteTakesEffectOnce
  <1>1. SystemInv => WriteTakesEffectOnce
    BY ChangedIsFirst DEF WriteTakesEffectOnce
  <1> QED
    BY <1>1, SystemInvariant, PTL

(* A caller told that a charge succeeded holds the HID of a transaction of *)
(* the order it asked for, and nobody else was given that HID.             *)
THEOREM ConfirmationsAreRecorded == SystemSpec => []ConfirmedWriteIsRecorded
  <1>1. SystemInv => ConfirmedWriteIsRecorded
    <2> SUFFICES ASSUME SystemInv, NEW c \in Calls, Returned(c), outcome[c] = NoError,
                        IsWrite(c)
                 PROVE  /\ c \in Effective
                        /\ asked[c].op \in ChargeOps =>
                             /\ result[c].hid \in Recorded
                             /\ transactionsByID[result[c].hid].order = asked[c].arg
                             /\ \A d \in Calls :
                                  result[d].hid = result[c].hid /\ result[d].kind = "charge"
                                    => d = c
      BY DEF ConfirmedWriteIsRecorded, Returned
    <2>1. c \in Effective /\ First(c) \in changed
      BY EffectiveIsFirst DEF SystemInv, CallInv, AnswerInv
    <2> SUFFICES ASSUME asked[c].op \in ChargeOps
                 PROVE  /\ result[c].hid \in Recorded
                        /\ transactionsByID[result[c].hid].order = asked[c].arg
                        /\ \A d \in Calls :
                             result[d].hid = result[c].hid /\ result[d].kind = "charge" => d = c
      BY <2>1
    <2> DEFINE h == First(c)
    <2>2. h \in Handlers /\ \A d \in Calls : First(d) \in Handlers
      BY HandlerTypes DEF First
    <2>3. result[c].hid = hid[h] /\ hid[h] # 0 /\ request[h].complete /\ pc[h] = "done"
      BY DEF SystemInv, CallInv, AnswerInv
    <2>4. hid[h] \in Recorded
      <3>1. Recorded = 1..chargeCount /\ hid[h] <= chargeCount
        BY <2>2 DEF SystemInv, HandlersInv, IndexInv, IndexesAgree, HIDsGivenOut
      <3>2. hid[h] \in Nat /\ hid[h] # 0 /\ chargeCount \in Nat
        BY <2>2, <2>3, BoundsAssumption
           DEF SystemInv, HandlersInv, IndexInv, TypeInv, TypeOK
      <3> QED BY <3>1, <3>2
    <2>5. transactionsByID[hid[h]].order = asked[c].arg
      <3>1. transactionsByID[hid[h]].order = bodyOrder(h)
        BY <2>2, <2>3 DEF SystemInv, HandlersInv, HandlerInv
      <3>2. request[h].arg = asked[c].arg
        BY <2>3, HandlerTypes DEF SystemInv, CallInv, AttemptInv, First
      <3> QED BY <2>3, <3>1, <3>2 DEF bodyOrder
    <2>6. ASSUME NEW d \in Calls, result[d].hid = result[c].hid, result[d].kind = "charge"
          PROVE  d = c
      <3>1. result[d].hid = hid[First(d)]
        BY <2>6 DEF SystemInv, CallInv, AnswerInv
      <3>2. First(d) = h
        BY <2>2, <2>3, <2>6, <3>1
           DEF SystemInv, HandlersInv, IndexInv, IndexesAgree, HIDsAreDistinct
      <3> QED BY <3>2 DEF First
    <2> QED BY <2>3, <2>4, <2>5, <2>6
  <1> QED
    BY <1>1, SystemInvariant, PTL

-----------------------------------------------------------------------------
(***************************************************************************)
(* Reconciliation.  A listing asked for after a charge was confirmed is    *)
(* received after the handler of that charge has ended, so what the        *)
(* provider promises its readers (ReadInv) applies to whichever attempt of *)
(* the listing is answered; and an answer that decodes as a list is not a  *)
(* scripted one nor a refused token.                                       *)
(***************************************************************************)
RefusedHasNoData ==
  \A h \in Handlers : response[h].code = CodeUnauthorized => response[h].data.kind = "none"

ConfirmedCharge(d) == outcome[d] = NoError /\ asked[d].op \in ChargeOps

ReconcileInv(c) ==
  /\ attempt[c] = 0 => asked[c] = NoRequest
  /\ \A d \in after[c] :
       /\ Returned(d)
       /\ ConfirmedCharge(d) =>
            /\ \A k \in 1..MaxAttempts :
                 pc[<<c, k>>] # "idle" => First(d) \in before[<<c, k>>]
            /\ Returned(c) /\ outcome[c] = NoError /\ asked[c].op = "listOrder"
                 /\ asked[d].arg = asked[c].arg =>
                 \E tx \in result[c].txs : tx.id = result[d].hid

ReconciledInv == SystemInv /\ ReadInv /\ RefusedHasNoData /\ \A c \in Calls : ReconcileInv(c)

LEMMA RefusedStep ==
  ASSUME SystemInv, RefusedHasNoData, ServerStep \/ UNCHANGED serverVars
  PROVE  RefusedHasNoData'
  <1>1. TypeInv /\ TypeOK /\ QueuesInv
    BY DEF SystemInv, HandlersInv, IndexInv, TypeInv
  <1> SUFFICES ASSUME NEW h \in Handlers, response'[h].code = CodeUnauthorized
               PROVE  response'[h].data.kind = "none"
    BY DEF RefusedHasNoData
  <1>2. CASE response'[h] = response[h]
    BY <1>2 DEF RefusedHasNoData
  <1>3. CodeUnauthorized # CodeSuccess /\ NoData.kind = "none"
    BY DEF CodeUnauthorized, CodeSuccess, Text, NoData
  <1>4. CASE RefuseUnauthorized(h)
    <2>1. response'[h] = Unauthorized
      BY <1>1, <1>4 DEF RefuseUnauthorized, TypeOK
    <2> QED BY <1>3, <2>1 DEF Unauthorized, Response
  <1>5. CASE nextResponse(h)
    <2>1. PICK i \in 1..4 : /\ ScriptedAt(request[h], i)
                            /\ response' = [response EXCEPT
                                 ![h] = Head(responses[lookupKeys(request[h])[i]])]
      BY <1>5 DEF nextResponse
    <2> DEFINE key == lookupKeys(request[h])[i]
    <2>2. key \in ScriptKeys /\ responses[key] # <<>> /\ responses[key] \in Seq(Responses)
      BY <1>1, <2>1 DEF ScriptedAt, HasScript, TypeOK
    <2>3. Head(responses[key]) = responses[key][1] /\ 1 \in DOMAIN responses[key]
      BY <2>2
    <2>4. responses[key][1].data = NoData
      BY <1>1, <2>2, <2>3 DEF QueuesInv
    <2>5. response'[h] = Head(responses[key])
      BY <1>1, <2>1 DEF TypeOK
    <2> HIDE DEF key
    <2> QED BY <1>3, <2>3, <2>4, <2>5
  <1>6. ASSUME NEW d, Answer(h, d), d.code = CodeUnauthorized => d.data.kind = "none"
        PROVE  response'[h].data.kind = "none"
    <2>1. response'[h] = response[h] \/ response'[h] = d
      BY <1>1, <1>6 DEF Answer, TypeOK
    <2> QED BY <1>2, <1>6, <2>1
  <1>7. /\ \A d : Succeed(d).code = CodeSuccess
        /\ V0002.data = NoData /\ NotFound.data = NoData
    BY DEF Succeed, V0002, NotFound, Response
  <1>8. ASSUME NEW d, Answer(h, Succeed(d))
        PROVE  response'[h].data.kind = "none"
    BY <1>3, <1>6, <1>7, <1>8
  <1>9. Answer(h, V0002) \/ Answer(h, NotFound) => response'[h].data.kind = "none"
    BY <1>3, <1>6, <1>7
  <1>10. CASE recordCharge(h) \/ refundResponse(h) \/ subscriptionResponse(h)
    BY <1>8, <1>9, <1>10 DEF recordCharge, refundResponse, subscriptionResponse, Reads
  <1>11. CASE \/ transactionResponse(h) \/ orderTransactions(h) \/ allTransactions(h)
              \/ storeSubscriptionsResponse(h) \/ hostedPageResponse(h) \/ unknownEndpoint(h)
    BY <1>8, <1>9, <1>11 DEF transactionResponse, orderTransactions, allTransactions,
                 storeSubscriptionsResponse, hostedPageResponse, unknownEndpoint, Reads
  <1>12. CASE listResponse(h)
    <2> DEFINE paged == [response[h] EXCEPT !.data.page = nextPageToken]
    <2>1. response[h] \in Responses /\ response[h].data \in Data
      BY <1>1 DEF TypeOK, Responses
    <2>2. paged.code = response[h].code /\ paged.data.kind = response[h].data.kind
      <3>1. /\ paged.code = response[h].code
            /\ paged.data = [response[h].data EXCEPT !.page = nextPageToken]
        BY <2>1 DEF Responses
      <3> QED BY <2>1, <3>1 DEF Data
    <2> HIDE DEF paged
    <2>3. Answer(h, paged)
      BY <1>12 DEF listResponse, Reads, paged
    <2> QED BY <1>6, <2>2, <2>3 DEF RefusedHasNoData
  <1>13. CASE \/ \E r \in Requests : Receive(h, r)
              \/ Authorized(h) \/ NoneQueued(h) \/ CheckBlock(h) \/ Hijack(h)
              \/ HangEnds(h) \/ writeResponse(h) \/ newSubscription(h)
    BY <1>2, <1>13 DEF Receive, Authorized, NoneQueued, CheckBlock, Hijack, HangEnds,
                       writeResponse, newSubscription
  <1>14. CASE Moves(h)
    BY <1>4, <1>5, <1>10, <1>11, <1>12, <1>13, <1>14 DEF Moves, Serve, defaultResponse
  <1>15. AllAreStill \/ Still(h) => response'[h] = response[h]
    BY DEF AllAreStill, Still
  <1> QED BY <1>1, <1>2, <1>14, <1>15, OneMoves, OthersAreStill

(* What a call was told is told for good. *)
LEMMA ReturnedIsFinal ==
  ASSUME SystemInv, [SystemNext]_systemVars, NEW d \in Calls, Returned(d)
  PROVE  UNCHANGED <<phase[d], asked[d], attempt[d], outcome[d], result[d], after[d]>>
  <1>1. CASE UNCHANGED callVars
    BY <1>1 DEF callVars
  <1>2. ASSUME NEW c \in Calls, Client(c) \/ Replay(c)
        PROVE  UNCHANGED <<phase[d], asked[d], attempt[d], outcome[d], result[d], after[d]>>
    <2>1. c # d
      BY <1>2 DEF Client, Replay, RefuseLocally, Send, transportFailure, ReceiveHeaders,
                  ReadBody, bodyFailure, Return, Move, Returned
    <2> QED BY <1>2, <2>1 DEF Client, Replay, RefuseLocally, Send, transportFailure,
                  ReceiveHeaders, ReadBody, bodyFailure, Return, Move, SystemInv, CallsTypeOK
  <1>3. CASE Provider \/ UNCHANGED systemVars
    BY <1>1, <1>3 DEF Provider, systemVars
  <1>4. ASSUME NEW c \in Calls, NEW k \in 1..MaxAttempts, NEW complete \in BOOLEAN,
               Arrive(c, k, complete)
        PROVE  UNCHANGED callVars
    BY <1>4 DEF Arrive
  <1> QED BY <1>1, <1>2, <1>3, <1>4 DEF SystemNext, Network

(* The handler and the transaction behind a confirmed charge. *)
LEMMA ConfirmedHandler ==
  ASSUME SystemInv, NEW d \in Calls, ReconcileInv(d), Returned(d), ConfirmedCharge(d)
  PROVE  /\ First(d) \in Handlers /\ pc[First(d)] = "done"
         /\ result[d].hid = hid[First(d)] /\ hid[First(d)] \in HIDs
         /\ transactionsByID[hid[First(d)]].order = asked[d].arg
  <1> DEFINE h == First(d)
  <1>1. h \in Handlers
    BY HandlerTypes DEF First
  <1>2. IsWrite(d)
    <2>1. attempt[d] # 0
      BY DEF ReconcileInv, ConfirmedCharge, NoRequest, ChargeOps
    <2>2. attempt[d] > 0
      BY <2>1, HandlerTypes DEF SystemInv, CallsTypeOK
    <2> QED BY <2>2 DEF IsWrite, Submitted, Returned, ConfirmedCharge, LedgerOps
  <1>3. result[d].hid = hid[h] /\ hid[h] # 0 /\ request[h].complete /\ pc[h] = "done"
    BY <1>2 DEF SystemInv, CallInv, AnswerInv, ConfirmedCharge
  <1>4. hid[h] \in HIDs
    BY <1>1, <1>3, BoundsAssumption DEF SystemInv, HandlersInv, IndexInv, TypeInv, TypeOK, HIDs
  <1>5. transactionsByID[hid[h]].order = asked[d].arg
    <2>1. transactionsByID[hid[h]].order = bodyOrder(h)
      BY <1>1, <1>3 DEF SystemInv, HandlersInv, HandlerInv
    <2>2. request[h].arg = asked[d].arg
      BY <1>3, HandlerTypes DEF SystemInv, CallInv, AttemptInv, First
    <2> QED BY <1>3, <2>1, <2>2 DEF bodyOrder
  <1> QED BY <1>1, <1>3, <1>4, <1>5

(* The listing a call returns was answered from the records. *)
LEMMA ListingIsRead ==
  ASSUME ReconciledInv, NEW c \in Calls, NEW d \in after[c], ReadBody(c),
         outcome'[c] = NoError, asked[c].op = "listOrder",
         ConfirmedCharge(d), asked[d].arg = asked[c].arg
  PROVE  \E tx \in result'[c].txs : tx.id = result[d].hid
  <1> DEFINE h == Handler(c)
             got == response[h]
             err == verdict(asked[c], got)
  <1>1. SystemInv /\ ReconcileInv(c) /\ d \in Calls /\ ReconcileInv(d) /\ Returned(d)
    BY DEF ReconciledInv, SystemInv, CallsTypeOK, ReconcileInv
  <1>2. phase[c] = "headers"
    BY DEF ReadBody, Return, Move
  <1>3. h \in Handlers /\ pc[h] = "done" /\ got \in Responses /\ Submitted(c)
    BY <1>1, <1>2, AnsweredWrite
  <1>4. err = NoError /\ result'[c] = got.data
    <2>1. outcome' = [outcome EXCEPT ![c] = err]
          /\ result' = [result EXCEPT ![c] = IF err = NoError THEN got.data ELSE NoData]
      BY DEF ReadBody, Return
    <2> HIDE DEF err, got
    <2> QED BY <1>1, <2>1 DEF SystemInv, CallsTypeOK
  <1>5. got.data.kind = "list"
    <2>1. decodes("listOrder", got.data)
      BY <1>4, VerdictMeans
    <2> QED BY <2>1 DEF decodes, ChargeOps
  <1>6. attempt[c] \in 1..MaxAttempts /\ h = <<c, attempt[c]>>
    <2>1. attempt[c] # 0
      BY <1>3, HandlerTypes DEF Submitted
    <2> QED BY <1>1, <2>1, HandlerOfCall DEF SystemInv, Handler
  <1>7. request[h].op = "listOrder" /\ request[h].arg = asked[c].arg
    BY <1>1, <1>3, <1>6 DEF SystemInv, CallInv, AttemptInv
  <1>8. First(d) \in before[h]
    BY <1>1, <1>3, <1>6 DEF ReconcileInv
  <1>9. ~ queued[h] /\ got.code # CodeUnauthorized
    <2>1. HandlerInv(h)
      BY <1>1, <1>3 DEF SystemInv, HandlersInv
    <2>2. NoData.kind = "none"
      BY DEF NoData
    <2> QED BY <1>3, <1>5, <2>1, <2>2 DEF HandlerInv, ReconciledInv, RefusedHasNoData
  <1>10. Sees(h, First(d))
    BY <1>3, <1>8, <1>9 DEF ReconciledInv, ReadInv, AnswersSee, HasAnswer
  <1>11. /\ result[d].hid = hid[First(d)] /\ hid[First(d)] \in HIDs
         /\ transactionsByID[hid[First(d)]].order = asked[d].arg
    BY <1>1, ConfirmedHandler
  <1>12. Covers(h, hid[First(d)])
    BY <1>7, <1>11 DEF Covers, Serves
  <1> HIDE DEF h, got
  <1>13. \E tx \in response[h].data.txs : tx.id = hid[First(d)]
    BY <1>10, <1>11, <1>12 DEF Sees
  <1> QED BY <1>4, <1>11, <1>13 DEF got

(* A call whose answer is not its body's returns an error. *)
LEMMA OthersReturnErrors ==
  ASSUME SystemInv, NEW c \in Calls, [SystemNext]_systemVars, ~ ReadBody(c),
         ~ Returned(c), Returned(c)'
  PROVE  outcome'[c] # NoError
  <1>1. UNCHANGED callVars => ~ Returned(c)'
    BY DEF callVars, Returned
  <1>2. ASSUME NEW b \in Calls, b # c, Client(b) \/ Replay(b)
        PROVE  ~ Returned(c)'
    BY <1>2 DEF Client, Replay, RefuseLocally, Send, transportFailure, ReceiveHeaders,
                ReadBody, bodyFailure, Return, Move, SystemInv, CallsTypeOK, Returned
  <1>3. Send(c, asked'[c], keyed'[c]) \/ ReceiveHeaders(c) \/ Replay(c) => ~ Returned(c)'
    BY DEF Send, ReceiveHeaders, Replay, Move, SystemInv, CallsTypeOK, Returned
  <1>4. ASSUME NEW r, NEW key, Send(c, r, key)
        PROVE  ~ Returned(c)'
    BY <1>4 DEF Send, Move, SystemInv, CallsTypeOK, Returned
  <1>5. ASSUME NEW from, NEW err, NEW data, Return(c, from, err, data), err # NoError
        PROVE  outcome'[c] # NoError
    BY <1>5 DEF Return, SystemInv, CallsTypeOK
  <1>6. RefuseLocally(c) => outcome'[c] # NoError
    <2>1. Error("InvalidInput", 0, NoText) # NoError
      BY DEF Error, NoError
    <2> QED BY <1>5, <2>1 DEF RefuseLocally
  <1>7. transportFailure(c) \/ bodyFailure(c) => outcome'[c] # NoError
    BY <1>5, FailureIsUnknown DEF transportFailure, bodyFailure
  <1>8. ASSUME NEW b \in Calls, NEW k \in 1..MaxAttempts, NEW complete \in BOOLEAN,
               Arrive(b, k, complete)
        PROVE  UNCHANGED callVars
    BY <1>8 DEF Arrive
  <1>9. Provider \/ UNCHANGED systemVars => UNCHANGED callVars
    BY DEF Provider, systemVars
  <1> QED
    BY <1>1, <1>2, <1>3, <1>4, <1>6, <1>7, <1>8, <1>9 DEF SystemNext, Client, Network

(* Who is asked after whom is fixed when a call is sent. *)
LEMMA SentAfter ==
  ASSUME SystemInv, [SystemNext]_systemVars, NEW c \in Calls
  PROVE  \/ after'[c] = after[c] /\ asked'[c] = asked[c] /\ (attempt[c] # 0 => attempt'[c] # 0)
         \/ /\ phase[c] = "idle" /\ phase'[c] = "sent" /\ attempt'[c] = 1
            /\ after'[c] = {d \in Calls : phase[d] = "returned"}
            /\ UNCHANGED serverVars
  <1>1. CASE UNCHANGED callVars
    BY <1>1 DEF callVars
  <1>2. ASSUME NEW b \in Calls, NEW from, NEW err, NEW data, Return(b, from, err, data)
        PROVE  after'[c] = after[c] /\ asked'[c] = asked[c] /\ attempt' = attempt
    BY <1>2 DEF Return
  <1>3. ASSUME NEW b \in Calls, ReceiveHeaders(b)
        PROVE  after'[c] = after[c] /\ asked'[c] = asked[c] /\ attempt' = attempt
    BY <1>3 DEF ReceiveHeaders
  <1>4. ASSUME NEW b \in Calls, Replay(b)
        PROVE  after'[c] = after[c] /\ asked'[c] = asked[c] /\ (attempt[c] # 0 => attempt'[c] # 0)
    BY <1>4 DEF Replay, SystemInv, CallsTypeOK
  <1>5. ASSUME NEW b \in Calls, NEW r, NEW key, Send(b, r, key), b # c
        PROVE  after'[c] = after[c] /\ asked'[c] = asked[c] /\ (attempt[c] # 0 => attempt'[c] # 0)
    BY <1>5 DEF Send, SystemInv, CallsTypeOK
  <1>6. ASSUME NEW r, NEW key, Send(c, r, key)
        PROVE  /\ phase[c] = "idle" /\ phase'[c] = "sent" /\ attempt'[c] = 1
               /\ after'[c] = {d \in Calls : phase[d] = "returned"}
               /\ UNCHANGED serverVars
    BY <1>6 DEF Send, Move, SystemInv, CallsTypeOK
  <1>7. ASSUME NEW b \in Calls, NEW k \in 1..MaxAttempts, NEW complete \in BOOLEAN,
               Arrive(b, k, complete)
        PROVE  UNCHANGED callVars
    BY <1>7 DEF Arrive
  <1>8. Provider \/ UNCHANGED systemVars => UNCHANGED callVars
    BY DEF Provider, systemVars
  <1> QED
    BY <1>1, <1>2, <1>3, <1>4, <1>5, <1>6, <1>7, <1>8
       DEF SystemNext, Client, Network, RefuseLocally, transportFailure, ReadBody, bodyFailure

LEMMA ReconcileStep ==
  ASSUME ReconciledInv, [SystemNext]_systemVars
  PROVE  ReconciledInv'
  <1>1. SystemInv /\ SystemInv'
    BY StepSystem DEF ReconciledInv
  <1>2. ServerStep \/ UNCHANGED serverVars
    BY <1>1, StepServer DEF systemVars
  <1>3. ReadInv' /\ RefusedHasNoData'
    BY <1>1, <1>2, ReadStep, RefusedStep DEF ReconciledInv
  <1>4. TypeInv
    BY <1>1 DEF SystemInv, HandlersInv, IndexInv
  <1>5. ASSUME NEW c \in Calls
        PROVE  ReconcileInv(c)'
    <2>1. CASE /\ phase[c] = "idle" /\ phase'[c] = "sent" /\ attempt'[c] = 1
               /\ after'[c] = {d \in Calls : phase[d] = "returned"}
               /\ UNCHANGED serverVars
      <3>1. \A d \in after'[c] : Returned(d)'
        BY <1>1, <2>1, ReturnedIsFinal DEF Returned
      <3>2. \A k \in 1..MaxAttempts : pc'[<<c, k>>] = "idle"
        BY <1>1, <2>1, HandlerTypes DEF SystemInv, CallInv, AttemptInv, serverVars
      <3>3. ~ Returned(c)' /\ attempt'[c] # 0
        BY <2>1 DEF Returned
      <3> QED BY <3>1, <3>2, <3>3 DEF ReconcileInv
    <2>2. CASE /\ after'[c] = after[c] /\ asked'[c] = asked[c]
               /\ attempt[c] # 0 => attempt'[c] # 0
      <3>1. attempt'[c] = 0 => asked'[c] = NoRequest
        BY <1>5, <2>2 DEF ReconciledInv, ReconcileInv
      <3>2. ASSUME NEW d \in after[c]
            PROVE  /\ Returned(d)'
                   /\ ConfirmedCharge(d)' =>
                        /\ \A k \in 1..MaxAttempts :
                             pc'[<<c, k>>] # "idle" => First(d) \in before'[<<c, k>>]
                        /\ Returned(c)' /\ outcome'[c] = NoError /\ asked'[c].op = "listOrder"
                             /\ asked'[d].arg = asked'[c].arg =>
                             \E tx \in result'[c].txs : tx.id = result'[d].hid
        <4>1. d \in Calls /\ Returned(d) /\ ReconcileInv(d) /\ ReconcileInv(c)
          BY <1>1, <1>5 DEF ReconciledInv, SystemInv, CallsTypeOK, ReconcileInv
        <4>2. UNCHANGED <<phase[d], asked[d], outcome[d], result[d]>>
          BY <1>1, <4>1, ReturnedIsFinal
        <4>3. Returned(d)' /\ (ConfirmedCharge(d)' => ConfirmedCharge(d))
          BY <4>1, <4>2 DEF Returned, ConfirmedCharge
        <4>4. ASSUME ConfirmedCharge(d), NEW k \in 1..MaxAttempts, pc'[<<c, k>>] # "idle"
              PROVE  First(d) \in before'[<<c, k>>]
          <5>1. First(d) \in Handlers /\ pc[First(d)] \in Ended
            BY <1>1, <4>1, <4>4, ConfirmedHandler DEF Ended
          <5>2. <<c, k>> \in Handlers
            BY HandlerTypes
          <5>3. pc[<<c, k>>] # "idle" => First(d) \in before[<<c, k>>]
            BY <4>1, <4>4 DEF ReconcileInv
          <5> QED BY <1>2, <1>4, <4>4, <5>1, <5>2, <5>3, BeforeGrows
        <4>5. ASSUME ConfirmedCharge(d), Returned(c)', outcome'[c] = NoError,
                     asked'[c].op = "listOrder", asked'[d].arg = asked'[c].arg
              PROVE  \E tx \in result'[c].txs : tx.id = result'[d].hid
          <5>1. CASE Returned(c)
            <6>1. UNCHANGED <<outcome[c], result[c]>>
              BY <1>1, <5>1, ReturnedIsFinal
            <6> QED BY <2>2, <4>1, <4>2, <4>5, <5>1, <6>1 DEF ReconcileInv
          <5>2. CASE ReadBody(c)
            BY <2>2, <4>2, <4>5, <5>2, ListingIsRead
          <5>3. Returned(c) \/ ReadBody(c)
            BY <1>1, <4>5, OthersReturnErrors
          <5> QED BY <5>1, <5>2, <5>3
        <4> QED BY <4>3, <4>4, <4>5
      <3> QED BY <2>2, <3>1, <3>2 DEF ReconcileInv
    <2> QED BY <1>1, <2>1, <2>2, SentAfter
  <1> QED BY <1>1, <1>3, <1>5 DEF ReconciledInv

LEMMA InitReconcile == SystemInit => ReconciledInv
  <1> SUFFICES ASSUME SystemInit PROVE ReconciledInv
    OBVIOUS
  <1>1. SystemInv /\ ReadInv
    BY InitSystem, InitRead DEF SystemInit
  <1>2. RefusedHasNoData
    BY DEF SystemInit, Init, RefusedHasNoData, NoResponse, Response, NoData
  <1>3. \A c \in Calls : ReconcileInv(c)
    BY DEF SystemInit, ReconcileInv
  <1> QED BY <1>1, <1>2, <1>3 DEF ReconciledInv

(* Reconciling by order works: a listing asked for after a charge of its   *)
(* order was confirmed has that charge in it, whichever attempt of the     *)
(* listing net/http gets answered and whatever else is going on.           *)
THEOREM ReconciliationFindsCharges == SystemSpec => []ReconciliationFindsConfirmedCharges
  <1>1. ReconciledInv /\ [SystemNext]_systemVars => ReconciledInv'
    BY ReconcileStep
  <1>2. ReconciledInv => ReconciliationFindsConfirmedCharges
    BY DEF ReconciledInv, ReconcileInv, ConfirmedCharge, Returned,
           ReconciliationFindsConfirmedCharges
  <1> QED BY InitReconcile, <1>1, <1>2, PTL DEF SystemSpec

-----------------------------------------------------------------------------
(***************************************************************************)
(* The system implements the ledger.                                       *)
(***************************************************************************)
(* What tells a step from a stutter for one write. *)
LEMMA ToldIsLocal ==
  ASSUME NEW c, UNCHANGED <<phase[c], asked[c], attempt[c], outcome[c]>>
  PROVE  Told(c)' = Told(c)
  BY DEF Told, IsWrite, Submitted

LEMMA ToldOthers ==
  ASSUME SystemInv, NEW c \in Calls, Client(c), NEW d \in Calls \ {c}
  PROVE  Told(d)' = Told(d)
  <1>1. UNCHANGED <<phase[d], asked[d], attempt[d], outcome[d]>>
    BY DEF Client, RefuseLocally, Send, transportFailure, ReceiveHeaders, ReadBody,
           bodyFailure, Return, Move, SystemInv, CallsTypeOK
  <1> QED
    BY <1>1, ToldIsLocal

LEMMA ClientLeavesEffects ==
  ASSUME NEW c \in Calls, Client(c)
  PROVE  Effective' = Effective
  BY DEF Client, RefuseLocally, Send, transportFailure, ReceiveHeaders, ReadBody,
         bodyFailure, Return, serverVars, resourceVars, Effective

told == [c \in Calls |-> Told(c)]

(* One caller is told something else, nothing takes effect. *)
LEMMA ToldStep ==
  ASSUME SystemInv, NEW c \in Calls, Client(c)
  PROVE  told' = [told EXCEPT ![c] = Told(c)'] /\ Effective' = Effective
  BY ToldOthers, ClientLeavesEffects DEF told

(* A call that returns err tells its caller so. *)
LEMMA ReturnTells ==
  ASSUME SystemInv, NEW c \in Calls, NEW from, NEW err, NEW data, Return(c, from, err, data)
  PROVE  Told(c)' = IF Submitted(c) /\ ~ IsWrite(c) /\ phase[c] # "idle" THEN "nothing"
                    ELSE IF err = NoError THEN "done"
                    ELSE IF IsUnknownOutcome(err) THEN "unknown"
                    ELSE "refused"
  <1>1. /\ phase[c] = from /\ phase'[c] = "returned" /\ outcome'[c] = err
        /\ UNCHANGED <<asked, attempt>>
    BY DEF Return, Move, SystemInv, CallsTypeOK
  <1>2. phase[c] = "idle" => ~ (attempt[c] > 0)
    BY DEF SystemInv, CallInv, ProgressInv
  <1>3. (Submitted(c)' <=> Submitted(c)) /\ (IsWrite(c)' <=> IsWrite(c))
    BY <1>1, <1>2 DEF Submitted, IsWrite
  <1> QED
    BY <1>1, <1>2, <1>3 DEF Told, Submitted

LEMMA SameAnswerStutters ==
  ASSUME SystemInv, NEW c \in Calls, Client(c), Told(c)' = Told(c)
  PROVE  UNCHANGED <<told, Effective>>
  BY ToldStep DEF told

LEMMA ReturnRefines ==
  ASSUME SystemInv, SystemInv', NEW c \in Calls, Client(c), NEW from \in {"sent", "headers"},
         NEW err, NEW data, Return(c, from, err, data)
  PROVE  Ledger!LedgerNext \/ UNCHANGED <<told, Effective>>
  <1>1. phase[c] = from /\ phase'[c] = "returned" /\ outcome'[c] = err
        /\ UNCHANGED <<asked, attempt, changed>>
    BY DEF Return, Move, SystemInv, CallsTypeOK, serverVars, resourceVars
  <1>2. Submitted(c)
    <2>1. attempt[c] >= 1 /\ attempt[c] \in Nat
      BY <1>1, HandlerTypes DEF SystemInv, CallsTypeOK, CallInv, ProgressInv
    <2> QED BY <1>1, <2>1 DEF Submitted
  <1>3. CASE ~ IsWrite(c)
    <2>1. Told(c) = "nothing" /\ Told(c)' = "nothing"
      BY <1>1, <1>2, <1>3, ReturnTells DEF Told
    <2> QED BY <2>1, SameAnswerStutters
  <1>4. CASE IsWrite(c)
    <2>1. Told(c) = "waiting"
      BY <1>1, <1>4 DEF Told
    <2>2. told[c] = "waiting" /\ told' = [told EXCEPT ![c] = Told(c)'] /\ Effective' = Effective
      BY <2>1, ToldStep DEF told
    <2>3. IsWrite(c)' /\ Returned(c)'
      BY <1>1, <1>4 DEF IsWrite, Submitted, Returned
    <2>4. AnswerInv(c)' /\ (c \in Effective <=> First(c) \in changed) /\ First(c)' = First(c)
      BY EffectiveIsFirst DEF SystemInv, CallInv, First
    <2>5. CASE err = NoError
      <3>1. c \in Effective
        BY <1>1, <2>3, <2>4, <2>5 DEF AnswerInv
      <3>2. Told(c)' = "done"
        BY <1>4, <2>5, ReturnTells
      <3> QED BY <2>2, <3>1, <3>2
              DEF told, Ledger!LedgerNext, Ledger!Confirm, Ledger!Tell
    <2>6. CASE err # NoError /\ IsUnknownOutcome(err)
      <3>1. Told(c)' = "unknown"
        BY <1>4, <2>6, ReturnTells
      <3> QED BY <2>2, <3>1 DEF told, Ledger!LedgerNext, Ledger!GiveUp, Ledger!Tell
    <2>7. CASE IsSettledRefusal(err)
      <3>1. c \notin Effective
        BY <1>1, <2>3, <2>4, <2>7 DEF AnswerInv
      <3>2. Told(c)' = "refused"
        BY <1>4, <2>7, ReturnTells DEF IsSettledRefusal
      <3> QED BY <2>2, <3>1, <3>2 DEF told, Ledger!LedgerNext, Ledger!Refuse, Ledger!Tell
    <2> QED BY <2>5, <2>6, <2>7 DEF IsSettledRefusal
  <1> QED
    BY <1>3, <1>4

LEMMA ClientRefines ==
  ASSUME SystemInv, SystemInv', NEW c \in Calls, Client(c)
  PROVE  Ledger!LedgerNext \/ UNCHANGED <<told, Effective>>
  <1>1. CASE RefuseLocally(c)
    <2> DEFINE err == Error("InvalidInput", 0, NoText)
    <2>1. phase[c] = "idle" /\ Return(c, "idle", err, NoData)
      BY <1>1 DEF RefuseLocally, Return, Move
    <2>2. err # NoError /\ ~ IsUnknownOutcome(err)
      BY DEF Error, NoError, IsUnknownOutcome, Is
    <2> HIDE DEF err
    <2>3. Told(c)' = "refused" /\ Told(c) = "nothing"
      BY <2>1, <2>2, ReturnTells DEF Told, Submitted
    <2>4. c \notin Effective
      BY <2>1, ChangedIsFirst DEF Effective
    <2>5. told[c] = "nothing" /\ told' = [told EXCEPT ![c] = "refused"]
          /\ Effective' = Effective
      BY <2>3, ToldStep DEF told
    <2> QED BY <2>4, <2>5 DEF told, Ledger!LedgerNext, Ledger!Refuse, Ledger!Tell
  <1>2. ASSUME NEW r \in CallRequests, NEW key \in BOOLEAN, Send(c, r, key)
        PROVE  Ledger!LedgerNext \/ UNCHANGED <<told, Effective>>
    <2>1. phase[c] = "idle" /\ phase'[c] = "sent"
      BY <1>2 DEF Send, Move, SystemInv, CallsTypeOK
    <2>2. Told(c) = "nothing" /\ Told(c)' \in {"nothing", "waiting"}
      BY <2>1 DEF Told
    <2>3. CASE Told(c)' = "nothing"
      BY <2>2, <2>3, SameAnswerStutters
    <2>4. CASE Told(c)' = "waiting"
      <3>1. told[c] = "nothing" /\ told' = [told EXCEPT ![c] = "waiting"]
            /\ Effective' = Effective
        BY <2>2, <2>4, ToldStep DEF told
      <3> QED BY <3>1 DEF told, Ledger!LedgerNext, Ledger!Submit, Ledger!Tell
    <2> QED BY <2>2, <2>3, <2>4
  <1>3. CASE ReceiveHeaders(c)
    <2>1. phase[c] = "sent" /\ phase'[c] = "headers" /\ UNCHANGED <<asked, attempt>>
      BY <1>3 DEF ReceiveHeaders, Move, SystemInv, CallsTypeOK
    <2>2. Told(c)' = Told(c)
      BY <2>1 DEF Told, IsWrite, Submitted
    <2> QED BY <2>2, SameAnswerStutters
  <1>4. CASE transportFailure(c) \/ ReadBody(c) \/ bodyFailure(c)
    <2>1. PICK from \in {"sent", "headers"} : \E err, data : Return(c, from, err, data)
      BY <1>4 DEF transportFailure, ReadBody, bodyFailure
    <2> QED BY <2>1, ReturnRefines
  <1> QED
    BY <1>1, <1>2, <1>3, <1>4 DEF Client

(* A provider's step: the first change a write's handler makes is its      *)
(* effect, and comes to a caller who has not been told the contrary.       *)
LEMMA NewEffect ==
  ASSUME SystemInv, SystemInv', Provider, NEW c \in Calls, c \in Effective', c \notin Effective
  PROVE  told[c] \in {"waiting", "unknown"}
  <1>1. UNCHANGED <<phase, asked, attempt, outcome>>
    BY DEF Provider, callVars
  <1>2. First(c) \in changed' /\ First(c) \notin changed
    <2>1. PICK k \in 1..MaxAttempts : <<c, k>> \in changed'
      BY DEF Effective
    <2>2. /\ <<c, k>> \in Handlers /\ request'[<<c, k>>].op \in LedgerOps
          /\ pc'[<<c, k>>] # "idle"
      BY <2>1, HandlerTypes DEF SystemInv, HandlersInv, HandlerInv
    <2>3. k <= attempt[c] /\ asked[c].op \in LedgerOps
      BY <1>1, <2>2 DEF SystemInv, CallInv, AttemptInv
    <2>4. ~ (attempt[c] > 1) /\ k \in Nat /\ k >= 1 /\ attempt[c] \in Nat
      BY <2>3, WritesAreNotReplayed, HandlerTypes
         DEF SystemInv, CallsTypeOK, CallInv, ProgressInv
    <2>5. k = 1
      BY <2>3, <2>4
    <2> QED BY <2>1, <2>5, EffectiveIsFirst DEF First
  <1>3. First(c) \in Handlers /\ First(c)' = First(c)
    BY HandlerTypes DEF First
  <1>4. pc[First(c)] # "done" /\ pc[First(c)] # "idle"
    <2>1. pc'[First(c)] # "idle"
      BY <1>2, <1>3 DEF SystemInv, HandlersInv, HandlerInv
    <2> QED BY <1>2, <1>3, <2>1, ProviderStep DEF SystemInv
  <1>5. IsWrite(c) /\ phase[c] # "idle"
    <2>1. request'[First(c)].op \in LedgerOps /\ request'[First(c)] = request[First(c)]
      BY <1>2, <1>3, ProviderStep DEF SystemInv, HandlersInv, HandlerInv
    <2>2. asked[c].op \in LedgerOps /\ phase[c] # "idle" /\ 1 <= attempt[c]
      BY <1>4, <2>1, HandlerTypes DEF SystemInv, CallInv, AttemptInv, First
    <2>3. attempt[c] \in Nat
      BY HandlerTypes DEF SystemInv, CallsTypeOK
    <2> QED BY <2>2, <2>3 DEF IsWrite, Submitted
  <1>6. phase[c] \in {"sent", "headers", "returned"}
    BY <1>5 DEF SystemInv, CallsTypeOK
  <1>7. phase[c] = "returned" => outcome[c] # NoError /\ IsUnknownOutcome(outcome[c])
    BY <1>4, <1>5 DEF SystemInv, CallInv, AnswerInv, Returned, IsSettledRefusal
  <1> QED
    BY <1>5, <1>6, <1>7 DEF told, Told

(* One step of the provider changes the records for one handler at most.   *)
LEMMA OneNewEffect ==
  ASSUME SystemInv, Provider
  PROVE  Effective' = Effective \/ \E c \in Calls : Effective' = Effective \cup {c}
  <1>1. CASE Test \/ \E h \in Handlers : DetectDisconnect(h)
    <2>1. UNCHANGED changed
      BY <1>1 DEF DetectDisconnect, Test, QueueResponse, Hang, Unhang, SetNextPage,
                  AcceptAnyToken, Close, ShutListener, CloseReturns, CloseStep, resourceVars
    <2> QED BY <2>1 DEF Effective
  <1>2. ASSUME NEW h \in Handlers, Serve(h)
        PROVE  Effective' = Effective \/ \E c \in Calls : Effective' = Effective \cup {c}
    <2>1. \A g \in Handlers : g # h => (g \in changed' <=> g \in changed)
      BY <1>2, ServeIsLocal DEF SystemInv, HandlersInv, IndexInv, TypeInv
    <2>2. h \in changed => h \in changed'
      BY <1>2, ProviderStep DEF SystemInv
    <2>3. PICK c \in Calls, k \in 1..MaxAttempts : h = <<c, k>>
      BY HandlerTypes
    <2>4. \A d \in Calls \ {c} : d \in Effective' <=> d \in Effective
      BY <2>1, <2>3, HandlerTypes DEF Effective
    <2>5. c \in Effective => c \in Effective'
      BY <2>1, <2>2, HandlerTypes DEF Effective
    <2>6. Effective \subseteq Calls /\ Effective' \subseteq Calls
      BY DEF Effective
    <2> QED BY <2>4, <2>5, <2>6
  <1> QED
    BY <1>1, <1>2, HandlerTypes DEF Provider

LEMMA ProviderRefines ==
  ASSUME SystemInv, SystemInv', Provider
  PROVE  Ledger!LedgerNext \/ UNCHANGED <<told, Effective>>
  <1>1. UNCHANGED told
    <2>1. UNCHANGED <<phase, asked, attempt, outcome>>
      BY DEF Provider, callVars
    <2> QED BY <2>1 DEF told, Told, IsWrite, Submitted
  <1>2. ASSUME NEW c \in Calls, Effective' = Effective \cup {c}, c \notin Effective
        PROVE  Ledger!TakeEffect(c)
    BY <1>1, <1>2, NewEffect DEF told, Ledger!TakeEffect
  <1> QED
    BY <1>1, <1>2, OneNewEffect DEF Ledger!LedgerNext

LEMMA NetworkRefines ==
  ASSUME SystemInv, NEW c \in Calls, Network(c)
  PROVE  UNCHANGED <<told, Effective>>
  <1>1. UNCHANGED changed
    BY DEF Network, Replay, Arrive, Receive, serverVars, resourceVars
  <1>2. Told(c)' = Told(c)
    <2>1. CASE Replay(c)
      <3>1. /\ UNCHANGED <<phase, asked, outcome>> /\ phase[c] = "sent"
            /\ attempt'[c] = attempt[c] + 1
        BY <2>1 DEF Replay, SystemInv, CallsTypeOK
      <3>2. attempt[c] \in Nat /\ attempt[c] >= 1
        BY <3>1, HandlerTypes DEF SystemInv, CallsTypeOK, CallInv, ProgressInv
      <3>3. Submitted(c) /\ Submitted(c)'
        BY <3>1, <3>2 DEF Submitted
      <3> QED BY <3>1, <3>3 DEF Told, IsWrite
    <2>2. CASE UNCHANGED callVars
      BY <2>2, ToldIsLocal DEF callVars
    <2> QED BY <2>1, <2>2 DEF Network, Arrive
  <1>3. \A d \in Calls \ {c} : Told(d)' = Told(d)
    <2>1. \A d \in Calls \ {c} : UNCHANGED <<phase[d], asked[d], attempt[d], outcome[d]>>
      BY DEF Network, Replay, Arrive, callVars, SystemInv, CallsTypeOK
    <2> QED BY <2>1, ToldIsLocal
  <1> QED
    BY <1>1, <1>2, <1>3 DEF told, Effective

(* The detailed system keeps the ledger's promises: every step of client,  *)
(* network and provider maps to one step of the ledger or to none.         *)
THEOREM SystemImplementsLedger == SystemSpec => LedgerKept
  <1>1. SystemInit => Ledger!LedgerInit
    <2> SUFFICES ASSUME SystemInit PROVE Ledger!LedgerInit
      OBVIOUS
    <2>1. \A c \in Calls : Told(c) = "nothing"
      BY DEF SystemInit, Told
    <2>2. Effective = {}
      BY DEF SystemInit, Init, Effective
    <2> QED BY <2>1, <2>2 DEF Ledger!LedgerInit
  <1>2. SystemInv /\ SystemInv' /\ [SystemNext]_systemVars => [Ledger!LedgerNext]_(Ledger!ledger)
    <2> SUFFICES ASSUME SystemInv, SystemInv', [SystemNext]_systemVars
                 PROVE  Ledger!LedgerNext \/ UNCHANGED <<told, Effective>>
      BY DEF Ledger!ledger, told
    <2>1. CASE UNCHANGED systemVars
      <3>1. UNCHANGED <<phase, asked, attempt, outcome, changed>>
        BY <2>1 DEF systemVars, serverVars, resourceVars, callVars
      <3> QED BY <3>1 DEF told, Told, IsWrite, Submitted, Effective
    <2> QED
      BY <2>1, ProviderRefines, ClientRefines, NetworkRefines DEF SystemNext
  <1> QED
    BY <1>1, <1>2, SystemInvariant, PTL DEF SystemSpec, LedgerKept, Ledger!LedgerSpec
=============================================================================
