---------------------------- MODULE KeyedCharges ----------------------------
(***************************************************************************)
(* Charges over the Payment API under an optional Idempotency-Key.  A      *)
(* caller stores a key with the order before its first request, reads what *)
(* the client makes of the answer, and follows the advice of codes.go and  *)
(* doc.go: resend under the same key within its life, query when the       *)
(* outcome is unknown, take a new key only when the old one is settled.    *)
(* It may crash, and may then build another request for the order than the *)
(* one it sent.  The provider keeps the first request's result under its   *)
(* key and forgets it after a day; a gateway answers in its place; the     *)
(* network loses and delays.                                               *)
(*                                                                         *)
(* A tick of the clock is hours: a request is received or lost within one. *)
(***************************************************************************)
EXTENDS PaymentErrors, Integers

CONSTANTS
  Orders,       \* what is to be paid, each once
  Payloads,     \* the requests a caller may build for an order
  Valid,        \* those the provider finds nothing wrong with
  KeyLife,      \* how long a key is known, in ticks
  MaxKeys,      \* bound on keys taken for one order
  MaxCalls,     \* bound on calls made for one order
  MaxTime,      \* bound on the clock
  MaxFaults,    \* bound on losses, crashes and answers of others
  Declines,     \* codes a charge may fail with, saved under its key
  Refusals,     \* answers of the provider before it looks at the key
  Garbled       \* answers of a gateway, at any time

ASSUME KeyedChargesAssumption ==
  /\ Valid \subseteq Payloads
  /\ KeyLife \in Nat \ {0} /\ MaxKeys \in Nat \ {0}
  /\ MaxCalls \in Nat /\ MaxTime \in Nat /\ MaxFaults \in Nat

(* A decline says no success.  What the provider answers before it looks   *)
(* at a key is neither a success nor a decline of the charge under it.     *)
(* What is not Oen's has no code.                                          *)
ASSUME AnswersAssumption ==
  /\ \A code \in Declines : normalizeCode(code) # CodeSuccess
  /\ \A r \in Refusals \cup Garbled : r.status \in Nat
  /\ \A r \in Refusals :
       LET code == normalizeCode(envCode(r.body))
       IN code \notin {CodeSuccess, CodeRiskRejected} /\ code.letter # "T"
  /\ \A g \in Garbled : g.body.read => envCode(g.body) = NoText

Keys  == Orders \X (1..MaxKeys)
Calls == Orders \X (1..MaxCalls)

(* An answer with a code, as the provider writes one. *)
Says(status, code) ==
  [status |-> status,
   body |-> [read |-> TRUE, json |-> "object", code |-> [json |-> "string", text |-> code]]]

Unread(status) ==
  [status |-> status, body |-> [read |-> FALSE, json |-> "absent", code |-> NoValue]]

NoAnswer == Unread(0)

NoRequest == [key |-> 0, payload |-> "none"]

NotSent == -1

VARIABLES
  (* the caller and the client *)
  phase,      \* "ready", "calling", "told", "asking", "done", "refused" or "gaveUp"
  key,        \* the number of the key in use
  payload,    \* the request it has built
  firstSent,  \* when the key was first used, NotSent before
  calls,      \* calls made
  result,     \* the error of the last one
  doubted,    \* keys with a request that was not settled
  (* the network *)
  stage,      \* of each call's request: "unsent", "wire", "held", "answered" or "gone"
  request,    \* the key and the payload it carries
  answer,     \* what came back to a caller still there
  clock, faults,
  (* the provider *)
  known,      \* of each key: state, payload, since when, and the code it ended with
  charged     \* how often money has moved under it

callerVars   == <<phase, key, payload, firstSent, calls, result, doubted>>
wireVars     == <<stage, request, answer>>
providerVars == <<known, charged>>
chargeVars   == <<callerVars, wireVars, clock, faults, providerVars>>

Goto(o, from, to) == phase[o] \in from /\ phase' = [phase EXCEPT ![o] = to]

To(c, from, to) == stage[c] \in from /\ stage' = [stage EXCEPT ![c] = to]

current(o) == <<o, calls[o]>>

inUse(o) == <<o, key[o]>>

keyOf(c) == <<c[1], request[c].key>>

(* Somebody waits for the answer. *)
Awaited(c) == phase[c[1]] = "calling" /\ c = current(c[1])

(* The request is answered, to whoever still waits. *)
Answered(c, given) ==
  /\ To(c, {"wire", "held"}, IF Awaited(c) THEN "answered" ELSE "gone")
  /\ answer' = IF Awaited(c) THEN [answer EXCEPT ![c] = given] ELSE answer
  /\ request' = [request EXCEPT ![c] = NoRequest]
  /\ UNCHANGED <<callerVars, clock>>

-----------------------------------------------------------------------------
(***************************************************************************)
(* ChargeToken: do, with the key in its header.                            *)
(***************************************************************************)
Send(o, built) ==
  LET c == <<o, calls[o] + 1>> IN
  /\ calls[o] < MaxCalls
  /\ calls' = [calls EXCEPT ![o] = @ + 1]
  /\ payload' = [payload EXCEPT ![o] = built]
  /\ firstSent' = [firstSent EXCEPT ![o] = IF @ = NotSent THEN clock ELSE @]
  /\ result' = [result EXCEPT ![o] = NoError]
  /\ stage' = [stage EXCEPT ![c] = "wire"]
  /\ request' = [request EXCEPT ![c] = [key |-> key[o], payload |-> built]]
  /\ UNCHANGED <<key, doubted, answer, clock, faults, providerVars>>

(* Nobody is left to read what was answered. *)
Leave(o) ==
  LET c == current(o) IN
  /\ stage' = [stage EXCEPT ![c] = IF @ = "answered" THEN "gone" ELSE @]
  /\ answer' = [answer EXCEPT ![c] = NoAnswer]
  /\ UNCHANGED request

(* The call returns err. *)
Returns(o, err) ==
  /\ Goto(o, {"calling"}, "told")
  /\ result' = [result EXCEPT ![o] = err]
  /\ doubted' = IF IsUnknownOutcome(err) THEN doubted \cup {inUse(o)} ELSE doubted
  /\ Leave(o)
  /\ UNCHANGED <<key, payload, firstSent, calls, clock, faults, providerVars>>

Return(o) ==
  /\ phase[o] = "calling" /\ stage[current(o)] = "answered"
  /\ Returns(o, respond("POST", answer[current(o)]))

(* callCtx ends, or the connection fails. *)
Deadline(o) == Returns(o, Error("UnknownOutcome", 0, NoText))

-----------------------------------------------------------------------------
(***************************************************************************)
(* The caller.                                                             *)
(***************************************************************************)
CallerOnly == UNCHANGED <<wireVars, clock, faults, providerVars>>

(* Within 24 hours of the first request. *)
InWindow(o) == firstSent[o] = NotSent \/ clock < firstSent[o] + KeyLife

(* A decline is the key's result.  Any other refusal is of this request    *)
(* only: an earlier one under the key, of which nothing was heard, may     *)
(* have been accepted.                                                     *)
SettlesKey(o) ==
  /\ IsSettledRefusal(result[o])
  /\ result[o].kind = "Declined" \/ inUse(o) \notin doubted

Call(o) ==
  /\ InWindow(o)
  /\ Goto(o, {"ready"}, "calling")
  /\ \E built \in Payloads : Send(o, built)

Finish(o) ==
  /\ result[o] = NoError
  /\ Goto(o, {"told"}, "done")
  /\ UNCHANGED <<key, payload, firstSent, calls, result, doubted>> /\ CallerOnly

(* I0002: wait, then resend the identical request with the same key. *)
ResendLater(o) ==
  /\ result[o].code = CodeIdempotencyInProgress
  /\ InWindow(o)
  /\ Goto(o, {"told"}, "calling")
  /\ Send(o, payload[o])

(* A new operation, or a corrected one, under a new key. *)
TakeNewKey(o) ==
  /\ SettlesKey(o) /\ key[o] < MaxKeys
  /\ Goto(o, {"told"}, "ready")
  /\ key' = [key EXCEPT ![o] = @ + 1]
  /\ firstSent' = [firstSent EXCEPT ![o] = NotSent]
  /\ result' = [result EXCEPT ![o] = NoError]
  /\ UNCHANGED <<payload, calls, doubted>> /\ CallerOnly

AcceptRefusal(o) ==
  /\ SettlesKey(o)
  /\ Goto(o, {"told"}, "refused")
  /\ result' = [result EXCEPT ![o] = NoError]
  /\ UNCHANGED <<key, payload, firstSent, calls, doubted>> /\ CallerOnly

(* Query before anything else. *)
Ask(o) ==
  /\ \/ phase[o] = "told" /\ result[o] # NoError /\ ~ SettlesKey(o)
     \/ phase[o] = "ready" /\ inUse(o) \in doubted
  /\ Goto(o, {"told", "ready"}, "asking")
  /\ result' = [result EXCEPT ![o] = NoError]
  /\ UNCHANGED <<key, payload, firstSent, calls, doubted>> /\ CallerOnly

(* ListOrderTransactions: the order's charge, one that is charging, or     *)
(* nothing.  Nothing proves nothing while the key lives, and the key makes *)
(* another request harmless as long as it does.                            *)
HasCharge(o) == \E k \in Keys : k[1] = o /\ charged[k] > 0

IsCharging(o) ==
  \E k \in Keys : k[1] = o /\ known[k].state \in {"processing", "undetermined"}

Learn(o) ==
  \/ /\ HasCharge(o)
     /\ Goto(o, {"asking"}, "done")
     /\ UNCHANGED <<key, payload, firstSent, calls, result, doubted>> /\ CallerOnly
  \/ /\ ~ HasCharge(o) /\ ~ IsCharging(o)
     /\ InWindow(o)
     /\ Goto(o, {"asking"}, "calling")
     /\ \E built \in Payloads : Send(o, built)
  \/ /\ ~ HasCharge(o) /\ ~ IsCharging(o)
     /\ ~ InWindow(o)
     /\ Goto(o, {"asking"}, "gaveUp")
     /\ UNCHANGED <<key, payload, firstSent, calls, result, doubted>> /\ CallerOnly

Fault == faults < MaxFaults /\ faults' = faults + 1

(* What is left is the stored key, under which anything may have been sent. *)
Crash(o) ==
  /\ Fault
  /\ calls[o] > 0
  /\ Goto(o, {"calling", "told", "asking"}, "ready")
  /\ doubted' = doubted \cup {inUse(o)}
  /\ result' = [result EXCEPT ![o] = NoError]
  /\ Leave(o)
  /\ UNCHANGED <<key, payload, firstSent, calls, clock, providerVars>>

Decide(o) ==
  \/ Call(o) \/ Finish(o) \/ ResendLater(o) \/ TakeNewKey(o)
  \/ AcceptRefusal(o) \/ Ask(o) \/ Learn(o)

-----------------------------------------------------------------------------
(***************************************************************************)
(* The network.                                                            *)
(***************************************************************************)
Lose(c) ==
  /\ Fault /\ To(c, {"wire"}, "gone")
  /\ request' = [request EXCEPT ![c] = NoRequest]
  /\ UNCHANGED <<callerVars, answer, clock, providerVars>>

(* A gateway answers, before the provider has the request or after it. *)
Garble(c) ==
  /\ Fault /\ \E given \in Garbled : Answered(c, given)
  /\ UNCHANGED providerVars

Tick ==
  /\ clock < MaxTime /\ \A c \in Calls : stage[c] # "wire"
  /\ clock' = clock + 1
  /\ UNCHANGED <<callerVars, wireVars, faults, providerVars>>

-----------------------------------------------------------------------------
(***************************************************************************)
(* The provider.                                                           *)
(***************************************************************************)
Unused == [state |-> "unused", payload |-> "none", since |-> 0, code |-> NoText]

InvalidRequestCode == Text("V", "0001")

SavedAnswer(code) == Says(IF code = CodeSuccess THEN 200 ELSE 400, code)

Reply(c, given) == Answered(c, given) /\ UNCHANGED faults

(* Before the key is looked at: the token, the account, the fields. *)
Refuse(c) ==
  /\ stage[c] = "wire"
  /\ \/ \E refusal \in Refusals : Reply(c, refusal)
     \/ request[c].payload \notin Valid /\ Reply(c, Says(400, InvalidRequestCode))
  /\ UNCHANGED providerVars

(* The first request under a key is worked on; others get its result. *)
Accept(c) ==
  /\ To(c, {"wire"}, "held") /\ known[keyOf(c)].state = "unused"
  /\ known' = [known EXCEPT ![keyOf(c)] =
                 [state |-> "processing", payload |-> request[c].payload,
                  since |-> clock, code |-> NoText]]
  /\ UNCHANGED <<callerVars, request, answer, clock, faults, charged>>

AnswerKnown(c) ==
  LET entry == known[keyOf(c)] IN
  /\ stage[c] = "wire" /\ entry.state # "unused"
  /\ IF entry.payload # request[c].payload
     THEN Reply(c, Says(422, CodeIdempotencyConflict))
     ELSE CASE entry.state = "processing" -> Reply(c, Says(409, CodeIdempotencyInProgress))
            [] entry.state = "undetermined" ->
                 Reply(c, Says(409, CodeIdempotencyUnknownOutcome))
            [] OTHER -> Reply(c, SavedAnswer(entry.code))
  /\ UNCHANGED providerVars

(* Money moves here. *)
Settle(k) ==
  /\ known[k].state \in {"processing", "undetermined"}
  /\ \E code \in IF known[k].payload \in Valid
                 THEN Declines \cup {CodeSuccess}
                 ELSE {InvalidRequestCode} :
       /\ known' = [known EXCEPT ![k].state = "done", ![k].code = code]
       /\ charged' = [charged EXCEPT ![k] = IF code = CodeSuccess THEN @ + 1 ELSE @]
  /\ UNCHANGED <<callerVars, wireVars, clock, faults>>

(* It stops without a result, which the bank may still supply. *)
Interrupt(k) ==
  /\ Fault /\ known[k].state = "processing"
  /\ known' = [known EXCEPT ![k].state = "undetermined"]
  /\ UNCHANGED <<callerVars, wireVars, clock, charged>>

AnswerHeld(c) ==
  LET entry == known[keyOf(c)] IN
  /\ stage[c] = "held"
  /\ \/ entry.state = "done" /\ Reply(c, SavedAnswer(entry.code))
     \/ entry.state = "undetermined" /\ Reply(c, Says(409, CodePaymentUnknownOutcome))
  /\ UNCHANGED providerVars

(* After 24 hours the key is treated as new. *)
Forget(k) ==
  /\ known[k].state = "done" /\ clock >= known[k].since + KeyLife
  /\ \A c \in Calls : stage[c] = "held" => keyOf(c) # k
  /\ known' = [known EXCEPT ![k] = Unused]
  /\ UNCHANGED <<callerVars, wireVars, clock, faults, charged>>

-----------------------------------------------------------------------------
Init ==
  /\ phase = [o \in Orders |-> "ready"]
  /\ key = [o \in Orders |-> 1]
  /\ payload = [o \in Orders |-> "none"]
  /\ firstSent = [o \in Orders |-> NotSent]
  /\ calls = [o \in Orders |-> 0]
  /\ result = [o \in Orders |-> NoError]
  /\ doubted = {}
  /\ stage = [c \in Calls |-> "unsent"]
  /\ request = [c \in Calls |-> NoRequest]
  /\ answer = [c \in Calls |-> NoAnswer]
  /\ clock = 0 /\ faults = 0
  /\ known = [k \in Keys |-> Unused]
  /\ charged = [k \in Keys |-> 0]

Network == Tick \/ \E c \in Calls : Lose(c) \/ Garble(c)

Provider ==
  \/ \E c \in Calls : Refuse(c) \/ Accept(c) \/ AnswerKnown(c) \/ AnswerHeld(c)
  \/ \E k \in Keys : Settle(k) \/ Interrupt(k) \/ Forget(k)

Next ==
  \/ \E o \in Orders : Decide(o) \/ Return(o) \/ Deadline(o) \/ Crash(o)
  \/ Network \/ Provider

(* The deadline of a call ends it; a caller that runs decides. *)
Fairness ==
  \A o \in Orders : WF_chargeVars(Decide(o)) /\ WF_chargeVars(Return(o) \/ Deadline(o))

Spec == Init /\ [][Next]_chargeVars /\ Fairness

-----------------------------------------------------------------------------
SavedCodes == Declines \cup {CodeSuccess, InvalidRequestCode}

Answers ==
  Refusals \cup Garbled \cup {SavedAnswer(code) : code \in SavedCodes}
  \cup {NoAnswer, Says(400, InvalidRequestCode), Says(422, CodeIdempotencyConflict)}
  \cup {Says(409, code) : code \in {CodeIdempotencyInProgress, CodeIdempotencyUnknownOutcome,
                                    CodePaymentUnknownOutcome}}

TypeOK ==
  /\ phase \in [Orders -> {"ready", "calling", "told", "asking", "done", "refused", "gaveUp"}]
  /\ key \in [Orders -> 1..MaxKeys] /\ calls \in [Orders -> 0..MaxCalls]
  /\ \A o \in Orders : result[o].kind \in Kinds \cup {"none"}
  /\ firstSent \in [Orders -> {NotSent} \cup 0..MaxTime]
  /\ payload \in [Orders -> Payloads \cup {"none"}]
  /\ doubted \subseteq Keys
  /\ stage \in [Calls -> {"unsent", "wire", "held", "answered", "gone"}]
  /\ request \in [Calls -> [key : 0..MaxKeys, payload : Payloads \cup {"none"}]]
  /\ answer \in [Calls -> Answers]
  /\ clock \in 0..MaxTime /\ faults \in 0..MaxFaults
  /\ known \in [Keys -> [state : {"unused", "processing", "undetermined", "done"},
                         payload : Payloads \cup {"none"}, since : 0..MaxTime,
                         code : SavedCodes \cup {NoText}]]
  /\ charged \in [Keys -> Nat]

(* An order is paid once at most, whatever it took: resends, a request     *)
(* built anew after a crash, a corrected request or another card under a   *)
(* new key, keys that expire.                                              *)
ChargedOnce ==
  \A o \in Orders : \A j, k \in 1..MaxKeys :
    /\ charged[<<o, j>>] \in {0, 1}
    /\ charged[<<o, j>>] > 0 /\ charged[<<o, k>>] > 0 => j = k

(* A caller that follows the advice does not leave a paid order unpaid in  *)
(* its books, whatever got lost or was said in between: it neither takes   *)
(* a refusal of one request for the end of the order, nor gives up on it.  *)
PaymentIsNoticed ==
  \A o \in Orders : HasCharge(o) ~> phase[o] = "done"

(* Over all its calls and keys, an order is one write of the ledger.       *)
Told(o) ==
  CASE phase[o] = "ready" /\ calls[o] = 0 -> "nothing"
    [] phase[o] \in {"done", "refused"}   -> phase[o]
    [] phase[o] = "gaveUp"                -> "unknown"
    [] OTHER                              -> "waiting"

Ledger == INSTANCE ChargeLedger WITH
            Writes <- Orders, told <- [o \in Orders |-> Told(o)],
            effective <- {o \in Orders : HasCharge(o)}

OrderIsOneWrite == Ledger!LedgerSpec
=============================================================================
