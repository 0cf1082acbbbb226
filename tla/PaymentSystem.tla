--------------------------- MODULE PaymentSystem ---------------------------
(***************************************************************************)
(* Callers of the Payment API client, the client, net/http and the network *)
(* in between, and the provider.  A call is one method of Client: it       *)
(* refuses its arguments or sends one request, and answers from the        *)
(* response, its absence, or a response it cannot read.  The provider is   *)
(* the repository's own: OenServer, with one handler per attempt to put a  *)
(* call's request on the wire.                                             *)
(***************************************************************************)
EXTENDS OenServer

CONSTANTS
  Calls,          \* one concurrent caller each
  MaxAttempts,    \* bound on the times net/http writes one request
  CallRequests    \* the requests callers make

ASSUME CallAssumption ==
  /\ MaxAttempts \in Nat \ {0}
  /\ Handlers = Calls \X (1..MaxAttempts)
  /\ \A r \in CallRequests : r \in Requests /\ r.complete

VARIABLES
  phase,      \* of each call: idle, sent, headers, returned
  asked,      \* the request of each call
  keyed,      \* whether it carries an Idempotency-Key
  attempt,    \* times the request was handed to the network
  outcome,    \* the error returned, NoError for none
  result,     \* the data returned with NoError
  after       \* history: the calls that had returned when this one was sent

callVars == <<phase, asked, keyed, attempt, outcome, result, after>>
systemVars == <<serverVars, callVars>>

(* The operations that change something at the provider. *)
LedgerOps == ChargeOps \cup {"refund", "cancelSub"}

Handler(c) == <<c, attempt[c]>>

isRead(c) == method(asked[c]) \in ReadMethods

Submitted(c) == phase[c] # "idle" /\ attempt[c] > 0

Move(c, from, to) == phase[c] = from /\ phase' = [phase EXCEPT ![c] = to]

(* The call's answer to its caller. *)
Return(c, from, err, data) ==
  /\ Move(c, from, "returned")
  /\ outcome' = [outcome EXCEPT ![c] = err]
  /\ result' = [result EXCEPT ![c] = data]
  /\ UNCHANGED <<serverVars, asked, keyed, attempt, after>>

-----------------------------------------------------------------------------
(***************************************************************************)
(* The client.                                                             *)
(***************************************************************************)
(* A nil context, an invalid key, or arguments the method does not accept. *)
RefuseLocally(c) ==
  Return(c, "idle", Error("InvalidInput", 0, NoText), NoData)

Send(c, r, key) ==
  /\ Move(c, "idle", "sent")
  /\ key => method(r) # "GET"
  /\ asked' = [asked EXCEPT ![c] = r]
  /\ keyed' = [keyed EXCEPT ![c] = key]
  /\ attempt' = [attempt EXCEPT ![c] = 1]
  /\ after' = [after EXCEPT ![c] = {d \in Calls : phase[d] = "returned"}]
  /\ UNCHANGED <<serverVars, outcome, result>>

(* Slip: a connection that failed is taken for a refusal. *)
transportFailure_isRefusal(c) ==
  Return(c, "sent", Error("InvalidRequest", 0, NoText), NoData)

(* No response headers: the deadline passed, the caller's context ended,   *)
(* or the connection failed.  From outside these are one outcome.          *)
transportFailure(c) ==
  Return(c, "sent", Error("UnknownOutcome", 0, NoText), NoData)

(* What writeResponse puts on the wire: status 0 is 200, and an envelope   *)
(* without a code says S0000.                                              *)
Wire(r) ==
  [status |-> IF r.status = 0 THEN 200 ELSE r.status,
   body |-> [read |-> TRUE,
             json |-> IF r.content = "envelope" THEN "object" ELSE "notJSON",
             code |-> IF r.content # "envelope" THEN NoValue
                      ELSE [json |-> "string",
                            text |-> IF r.code = NoText THEN CodeSuccess ELSE r.code]]]

ReceiveHeaders(c) ==
  /\ Move(c, "sent", "headers")
  /\ pc[Handler(c)] = "done"
  /\ UNCHANGED <<serverVars, asked, keyed, attempt, outcome, result, after>>

(* The resource each method needs to find in data. *)
decodes(op, data) ==
  CASE op = "charge"                       -> data.kind = "charge" /\ data.hid # 0
    [] op = "subscribe"                    -> data.kind = "charge" /\ data.subscription # 0
    [] op \in {"refund", "getTx"}          -> data.kind = "transaction"
    [] op \in {"listOrder", "listTx"}      -> data.kind = "list"
    [] op \in {"getSub", "cancelSub"}      -> data.kind = "subscription"
    [] op = "listSubs"                     -> data.kind = "storeList"
    [] OTHER                               -> data.kind = "page"

(* The verdict on a response read to its end. *)
verdict(r, got) ==
  LET err == respond(method(r), Wire(got)) IN
  IF err = NoError /\ ~ decodes(r.op, got.data)
  THEN unknownResponseOutcome(Wire(got))
  ELSE err

ReadBody(c) ==
  LET got == response[Handler(c)]
      err == verdict(asked[c], got)
  IN Return(c, "headers", err, IF err = NoError THEN got.data ELSE NoData)

(* The deadline covers the body as well; so does the 1 MiB limit. *)
bodyFailure(c) ==
  Return(c, "headers",
         unreadableBody(method(asked[c]), Wire(response[Handler(c)]).status), NoData)

(* Slip: the timeout is the transport's response-header timeout. *)
Deadline_headersOnly(c) == transportFailure(c)

(* The call's own context ends it at the latest when Timeout has passed,   *)
(* before the headers or in the middle of the body.                        *)
Deadline(c) == transportFailure(c) \/ bodyFailure(c)

-----------------------------------------------------------------------------
(***************************************************************************)
(* net/http and the network.                                               *)
(***************************************************************************)
(* Slip: the request keeps the GetBody that NewRequest gave it. *)
getBody_kept == TRUE

(* do clears GetBody, so net/http cannot rewind a body it has sent. *)
getBody == FALSE

(* isReplayable: nothing to rewind, and a method or a key that says a      *)
(* second request is harmless.                                             *)
isReplayable(c) == isRead(c) \/ (keyed[c] /\ getBody)

(* A reused connection failed before the response headers: net/http hands  *)
(* the same request to another connection, unseen by the client.           *)
Replay(c) ==
  /\ phase[c] = "sent" /\ isReplayable(c)
  /\ attempt[c] < MaxAttempts
  /\ attempt' = [attempt EXCEPT ![c] = @ + 1]
  /\ UNCHANGED <<serverVars, phase, asked, keyed, outcome, result, after>>

(* The client has left the connection of this attempt. *)
Left(c, k) == phase[c] = "returned" \/ k < attempt[c]

(* A request on its way arrives whenever it does, also after its call gave *)
(* up; one cut off in the middle of its body arrives incomplete.           *)
Arrive(c, k, complete) ==
  /\ phase[c] # "idle" /\ k <= attempt[c]
  /\ ~ complete => Left(c, k) /\ ~ isRead(c)
  /\ Receive(<<c, k>>, [asked[c] EXCEPT !.complete = complete])
  /\ UNCHANGED callVars

Provider ==
  /\ \/ \E h \in Handlers : Serve(h)
     \/ \E c \in Calls, k \in 1..MaxAttempts : Left(c, k) /\ DetectDisconnect(<<c, k>>)
     \/ Test
  /\ UNCHANGED callVars

Client(c) ==
  \/ RefuseLocally(c)
  \/ \E r \in CallRequests, key \in BOOLEAN : Send(c, r, key)
  \/ transportFailure(c) \/ ReceiveHeaders(c) \/ ReadBody(c) \/ bodyFailure(c)

Network(c) ==
  Replay(c) \/ \E k \in 1..MaxAttempts, complete \in BOOLEAN : Arrive(c, k, complete)

-----------------------------------------------------------------------------
SystemInit ==
  /\ Init
  /\ phase = [c \in Calls |-> "idle"]
  /\ asked = [c \in Calls |-> NoRequest]
  /\ keyed = [c \in Calls |-> FALSE]
  /\ attempt = [c \in Calls |-> 0]
  /\ outcome = [c \in Calls |-> NoError]
  /\ result = [c \in Calls |-> NoData]
  /\ after = [c \in Calls |-> {}]

SystemNext == Provider \/ \E c \in Calls : Client(c) \/ Network(c)

(* The context's timer fires; nothing is assumed of network or provider.   *)
SystemSpec ==
  SystemInit /\ [][SystemNext]_systemVars /\ \A c \in Calls : WF_systemVars(Deadline(c))

-----------------------------------------------------------------------------
(* A provider keeps its word: it scripts no refusal of a charge it then    *)
(* records, and no success it does not back with a record.                 *)
ScriptsKeepTheirWord ==
  \A r \in ScriptResponses :
    /\ r.data = NoData
    /\ \A m \in {"POST", "PUT"} :
         r.recordCharge => ~ IsSettledRefusal(respond(m, Wire(r)))

ASSUME ScriptsAssumption == ScriptsKeepTheirWord

Outcomes ==
  [kind : Kinds \cup {"none"}, HTTPStatus : Nat,
   code : Codes, joinsUnknown : BOOLEAN]

CallsTypeOK ==
  /\ phase \in [Calls -> {"idle", "sent", "headers", "returned"}]
  /\ asked \in [Calls -> CallRequests \cup {NoRequest}]
  /\ keyed \in [Calls -> BOOLEAN]
  /\ attempt \in [Calls -> 0..MaxAttempts]
  /\ outcome \in [Calls -> Outcomes]
  /\ result \in [Calls -> Data]
  /\ after \in [Calls -> SUBSET Calls]

SystemTypeOK == TypeOK /\ CallsTypeOK

IsWrite(c) == Submitted(c) /\ asked[c].op \in LedgerOps

Effective == {c \in Calls : \E k \in 1..MaxAttempts : <<c, k>> \in changed}

(* A caller told that its write was refused may send another: whatever of  *)
(* the first is still on its way or in a handler, it changes nothing, now  *)
(* or later.                                                               *)
SettledRefusalHasNoEffect ==
  \A c \in Calls : phase[c] = "returned" /\ IsSettledRefusal(outcome[c]) => c \notin Effective

(* A caller told that its write was done can rely on it: the write changed *)
(* the provider's records, and the HID of a charge names a transaction of  *)
(* the order it asked for, confirmed to nobody else.                       *)
ConfirmedWriteIsRecorded ==
  \A c \in Calls : phase[c] = "returned" /\ outcome[c] = NoError /\ IsWrite(c) =>
    /\ c \in Effective
    /\ asked[c].op \in ChargeOps =>
         /\ result[c].hid \in Recorded
         /\ transactionsByID[result[c].hid].order = asked[c].arg
         /\ \A d \in Calls : result[d].hid = result[c].hid /\ result[d].kind = "charge" => d = c

(* One call changes the provider's records through one request at most,    *)
(* keyed or not, even when the connection fails under it.                  *)
WriteTakesEffectOnce ==
  \A c \in Calls : \A j, k \in 1..MaxAttempts :
    <<c, j>> \in changed /\ <<c, k>> \in changed => j = k

(* Reconciling by order: a listing asked for after a charge was confirmed  *)
(* has that charge in it, whichever of its attempts is answered.           *)
ReconciliationFindsConfirmedCharges ==
  \A c \in Calls : \A d \in after[c] :
    /\ phase[c] = "returned" /\ outcome[c] = NoError /\ asked[c].op = "listOrder"
    /\ outcome[d] = NoError /\ asked[d].op \in ChargeOps /\ asked[d].arg = asked[c].arg
    => \E tx \in result[c].txs : tx.id = result[d].hid

(* Every call returns, whatever the provider does: a hung handler, a lost  *)
(* answer or a body that never ends hold it up to its deadline only.       *)
EveryCallReturns == \A c \in Calls : phase[c] = "sent" ~> phase[c] = "returned"

(* do performs exactly one HTTP request and never sends a second one. *)
OneRequestPerCall ==
  \A c \in Calls : \A j, k \in 1..MaxAttempts :
    pc[<<c, j>>] # "idle" /\ pc[<<c, k>>] # "idle" => j = k

(* The system keeps the ledger's promises. *)
Told(c) ==
  CASE phase[c] = "idle" -> "nothing"
    [] phase[c] \in {"sent", "headers"} -> IF IsWrite(c) THEN "waiting" ELSE "nothing"
    [] OTHER -> IF Submitted(c) /\ ~ IsWrite(c) THEN "nothing"
                ELSE IF outcome[c] = NoError THEN "done"
                ELSE IF IsUnknownOutcome(outcome[c]) THEN "unknown"
                ELSE "refused"

Ledger == INSTANCE ChargeLedger WITH
            Writes <- Calls, told <- [c \in Calls |-> Told(c)], effective <- Effective

LedgerKept == Ledger!LedgerSpec
=============================================================================
