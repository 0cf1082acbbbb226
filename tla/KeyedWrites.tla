---------------------------- MODULE KeyedWrites ----------------------------
(***************************************************************************)
(* Refunds over the Subscription API.  A caller sends a refund under an    *)
(* Idempotency-Key it has stored, reads what the client makes of the       *)
(* answer, and follows the package's advice: resend with the same key when *)
(* RetryableWithSameKey says so, query while the refund is in progress,    *)
(* take a new key only after a refusal under this one.  The provider keeps *)
(* the first request's result under its key; a gateway in front of it      *)
(* answers in its place; the network loses and delays.                     *)
(***************************************************************************)
EXTENDS SubscriptionErrors, FiniteSets

CONSTANTS
  Refunds,      \* what is to be refunded, each once
  MaxKeys,      \* bound on keys the caller takes for one refund
  MaxCalls,     \* bound on calls it makes for one refund
  MaxSends,     \* bound on the times one call's request is sent
  MaxFaults,    \* bound on lost messages, refusals and garbled answers
  Refusals,     \* what the provider may answer before it looks at the key
  Garbled       \* what a gateway may answer at any time in its place

ASSUME KeyedWritesAssumption ==
  /\ MaxKeys \in Nat \ {0} /\ MaxCalls \in Nat \ {0}
  /\ MaxSends \in Nat \ {0} /\ MaxFaults \in Nat

(* SA026 and SA027 speak of a key and are never answered before it is      *)
(* looked at; what refuses has an error status; what is not Oen's has no   *)
(* errno and is no envelope of a success.                                  *)
ASSUME AnswersAssumption ==
  /\ \A r \in Refusals \cup Garbled :
       /\ r.status \in Nat
       /\ r.errno \notin {ErrnoRefundKeyFailed, ErrnoRefundRejected}
  /\ \A r \in Refusals : r.status >= 400
  /\ \A r \in Garbled :
       r.errno = NoErrno /\ (r.body # "object" \/ r.status \notin 200..299)

Keys     == Refunds \X (1..MaxKeys)
(* One sending of one call's request. *)
Messages == Refunds \X (1..MaxCalls) \X (1..MaxSends)

VARIABLES
  (* the caller and the client *)
  phase,      \* "start", "calling", "told", "querying", "done" or "stopped"
  key,        \* the number of the key in use, NoKey before one is stored
  calls, sends,  \* calls made, and sendings of the last one
  result,     \* the error of the last call
  doubted,    \* history: keys under which a call ended without a settled answer
  (* the network *)
  stage,      \* of each message: "unsent", "wire", "held", "answered" or "lost"
  sentKey,    \* the key of each call's request
  answer,     \* what came back for a message
  faults,
  (* the provider *)
  keyState,   \* "unused", "processing", "undetermined", "done" or "failed"
  refunded    \* how often money has moved under each key

callerVars   == <<phase, key, calls, sends, result, doubted>>
networkVars  == <<stage, sentKey, answer, faults>>
providerVars == <<keyState, refunded>>
keyedVars    == <<callerVars, networkVars, providerVars>>

NoAnswer == Response(0, NoErrno, "cut")

Goto(i, from, to) == phase[i] = from /\ phase' = [phase EXCEPT ![i] = to]

To(m, from, to) == stage[m] = from /\ stage' = [stage EXCEPT ![m] = to]

(* The sending the client is waiting on. *)
current(i) == <<i, calls[i], sends[i]>>

-----------------------------------------------------------------------------
(***************************************************************************)
(* RefundSubscription: subscriptionWrite, keyedWrite, do.                  *)
(***************************************************************************)
(* Keys the caller makes up are printable; the one it lacks is empty.      *)
validateIdempotencyKey(k) == k # NoKey

(* A new call: its request goes out, once. *)
Send(i, k) ==
  /\ calls[i] < MaxCalls
  /\ calls' = [calls EXCEPT ![i] = @ + 1]
  /\ sends' = [sends EXCEPT ![i] = 1]
  /\ sentKey' = [sentKey EXCEPT ![<<i, calls[i] + 1>>] = k]
  /\ stage' = [stage EXCEPT ![<<i, calls[i] + 1, 1>>] = "wire"]
  /\ UNCHANGED <<result, doubted, answer, faults, providerVars>>

Call(i) ==
  /\ validateIdempotencyKey(key[i])
  /\ Goto(i, "start", "calling")
  /\ Send(i, key[i])
  /\ UNCHANGED key

RefuseToSend(i) ==
  /\ ~ validateIdempotencyKey(key[i])
  /\ Goto(i, "start", "told")
  /\ result' = [result EXCEPT ![i] = newValidationError]
  /\ UNCHANGED <<key, calls, sends, doubted, networkVars, providerVars>>

(* The call returns err, and with it what the caller may still wonder.     *)
Returns(i, err) ==
  /\ Goto(i, "calling", "told")
  /\ result' = [result EXCEPT ![i] = finish(key[i], err)]
  /\ doubted' = IF IsUnknownOutcome(err) \/ IsInProgress(err)
                THEN doubted \cup {<<i, key[i]>>} ELSE doubted
  /\ UNCHANGED <<key, calls, sends, networkVars, providerVars>>

Return(i) ==
  /\ phase[i] = "calling" /\ stage[current(i)] = "answered"
  /\ Returns(i, respond("POST", answer[current(i)]))

(* callCtx ends, whatever became of the request. *)
Deadline(i) == Returns(i, transportFailure)

(* Slip: the request keeps the GetBody that NewRequest gave it. *)
getBody_kept == TRUE

getBody == FALSE

(* net/http: a body that can be rewound, and a key that says a second      *)
(* request is harmless.                                                    *)
isReplayable(i) == getBody /\ key[i] # NoKey

(* The connection fails before the response headers arrived. *)
ConnectionFails(i) ==
  IF isReplayable(i)
  THEN /\ phase[i] = "calling" /\ sends[i] < MaxSends
       /\ sends' = [sends EXCEPT ![i] = @ + 1]
       /\ stage' = [stage EXCEPT ![<<i, calls[i], sends[i] + 1>>] = "wire"]
       /\ UNCHANGED <<phase, key, calls, result, doubted, sentKey, answer, faults,
                      providerVars>>
  ELSE Returns(i, transportFailure)

-----------------------------------------------------------------------------
(***************************************************************************)
(* The caller.                                                             *)
(***************************************************************************)
(* The key is stored before the first request. *)
StoreKey(i) ==
  /\ phase[i] \in {"start", "told"} /\ key[i] = NoKey
  /\ phase' = [phase EXCEPT ![i] = "start"]
  /\ key' = [key EXCEPT ![i] = 1]
  /\ UNCHANGED <<calls, sends, result, doubted, networkVars, providerVars>>

Finish(i) ==
  /\ Goto(i, "told", "done")
  /\ result[i] = NoError
  /\ UNCHANGED <<key, calls, sends, result, doubted, networkVars, providerVars>>

Resend(i) ==
  /\ RetryableWithSameKey(result[i])
  /\ Goto(i, "told", "calling")
  /\ Send(i, key[i])
  /\ UNCHANGED key

(* SA025: query.  SA026, SA027: confirm the transaction. *)
AsksForNewKey(err) == err.Kind = "Declined" \/ err.Errno = ErrnoRefundKeyFailed

LookUp(i) ==
  /\ IsInProgress(result[i]) \/ AsksForNewKey(result[i])
  /\ Goto(i, "told", "querying")
  /\ UNCHANGED <<key, calls, sends, result, doubted, networkVars, providerVars>>

(* A refund that went through is seen.  One that was in progress and has   *)
(* failed, or was refused, is sent again under a new key; one that waited  *)
(* for something else, under its own.                                      *)
Learn(i) ==
  LET state == keyState[<<i, key[i]>>] IN
  \/ /\ Goto(i, "querying", "done")
     /\ state = "done"
     /\ UNCHANGED <<key, calls, sends, result, doubted, networkVars, providerVars>>
  \/ /\ Goto(i, "querying", "calling")
     /\ state # "done" /\ (AsksForNewKey(result[i]) \/ state = "failed")
     /\ key[i] < MaxKeys
     /\ key' = [key EXCEPT ![i] = @ + 1]
     /\ Send(i, key[i] + 1)
  \/ /\ Goto(i, "querying", "calling")
     /\ state = "unused" /\ IsInProgress(result[i])
     /\ Send(i, key[i])
     /\ UNCHANGED key

(* Any other refusal, or no key left to take. *)
Stop(i) ==
  /\ \/ /\ phase[i] = "told" /\ result[i].Kind # "InvalidInput"
        /\ result[i] # NoError
        /\ ~ RetryableWithSameKey(result[i]) /\ ~ IsInProgress(result[i])
        /\ ~ AsksForNewKey(result[i])
     \/ /\ phase[i] = "querying" /\ key[i] = MaxKeys
        /\ keyState[<<i, key[i]>>] = "failed"
  /\ phase' = [phase EXCEPT ![i] = "stopped"]
  /\ UNCHANGED <<key, calls, sends, result, doubted, networkVars, providerVars>>

-----------------------------------------------------------------------------
(***************************************************************************)
(* The network and the gateway.                                            *)
(***************************************************************************)
Fault == faults < MaxFaults /\ faults' = faults + 1

(* The request is lost, or its answer. *)
Lose(m) ==
  /\ Fault
  /\ \E from \in {"wire", "answered"} : To(m, from, "lost")
  /\ UNCHANGED <<callerVars, sentKey, answer, providerVars>>

(* In place of the provider, which may go on working, or of its answer. *)
Garble(m, other) ==
  /\ Fault
  /\ \E from \in {"wire", "held", "answered"} : To(m, from, "answered")
  /\ answer' = [answer EXCEPT ![m] = other]
  /\ UNCHANGED <<callerVars, sentKey, providerVars>>

-----------------------------------------------------------------------------
(***************************************************************************)
(* The provider.                                                           *)
(***************************************************************************)
KeyOf(m) == <<m[1], sentKey[<<m[1], m[2]>>]>>

Replies ==
  [processing   |-> Response(409, ErrnoRefundInProgress, "object"),
   undetermined |-> Response(503, ErrnoRefundUndetermined, "object"),
   done         |-> Response(200, NoErrno, "object"),
   failed       |-> Response(409, ErrnoRefundKeyFailed, "object")]

(* The processor's refusal, for the request that met it. *)
Rejected == Response(502, ErrnoRefundRejected, "object")

(* The merchant, its key, or the subscription's state. *)
Refuse(m, refusal) ==
  /\ Fault
  /\ To(m, "wire", "answered")
  /\ answer' = [answer EXCEPT ![m] = refusal]
  /\ UNCHANGED <<callerVars, sentKey, providerVars>>

(* The first request under a key starts the refund and waits for it. *)
Start(m) ==
  /\ To(m, "wire", "held")
  /\ keyState[KeyOf(m)] = "unused"
  /\ keyState' = [keyState EXCEPT ![KeyOf(m)] = "processing"]
  /\ UNCHANGED <<callerVars, sentKey, answer, faults, refunded>>

(* A later one is told what became of the first. *)
Repeat(m) ==
  /\ To(m, "wire", "answered")
  /\ keyState[KeyOf(m)] # "unused"
  /\ answer' = [answer EXCEPT ![m] = Replies[keyState[KeyOf(m)]]]
  /\ UNCHANGED <<callerVars, sentKey, faults, providerVars>>

Settle(k) ==
  /\ \/ keyState[k] = "processing"
        /\ keyState' \in {[keyState EXCEPT ![k] = to] : to \in {"undetermined", "done", "failed"}}
     \/ keyState[k] = "undetermined"
        /\ keyState' \in {[keyState EXCEPT ![k] = to] : to \in {"done", "failed"}}
  /\ refunded' = [refunded EXCEPT ![k] = @ + IF keyState'[k] = "done" THEN 1 ELSE 0]
  /\ UNCHANGED <<callerVars, networkVars>>

AnswerHeld(m) ==
  LET state == keyState[KeyOf(m)] IN
  /\ To(m, "held", "answered")
  /\ state # "processing"
  /\ answer' = [answer EXCEPT ![m] =
       IF state = "failed" THEN Rejected ELSE Replies[state]]
  /\ UNCHANGED <<callerVars, sentKey, faults, providerVars>>

-----------------------------------------------------------------------------
Init ==
  /\ phase = [i \in Refunds |-> "start"]
  /\ key = [i \in Refunds |-> NoKey]
  /\ calls = [i \in Refunds |-> 0] /\ sends = [i \in Refunds |-> 0]
  /\ result = [i \in Refunds |-> NoError]
  /\ doubted = {}
  /\ stage = [m \in Messages |-> "unsent"]
  /\ sentKey = [c \in Refunds \X (1..MaxCalls) |-> NoKey]
  /\ answer = [m \in Messages |-> NoAnswer]
  /\ faults = 0
  /\ keyState = [k \in Keys |-> "unused"]
  /\ refunded = [k \in Keys |-> 0]

Decide(i) ==
  StoreKey(i) \/ Call(i) \/ Finish(i) \/ Resend(i) \/ LookUp(i) \/ Learn(i) \/ Stop(i)

Provide(m) == Start(m) \/ Repeat(m) \/ AnswerHeld(m)

Next ==
  \/ \E i \in Refunds :
       Decide(i) \/ RefuseToSend(i) \/ Return(i) \/ Deadline(i) \/ ConnectionFails(i)
  \/ \E m \in Messages :
       \/ Provide(m) \/ Lose(m)
       \/ \E r \in Refusals : Refuse(m, r)
       \/ \E r \in Garbled : Garble(m, r)
  \/ \E k \in Keys : Settle(k)

(* The caller goes on until it knows, a call ends with its deadline, and   *)
(* the provider works on what it has received.                             *)
Fairness ==
  /\ \A i \in Refunds : WF_keyedVars(Decide(i)) /\ WF_keyedVars(Return(i) \/ Deadline(i))
  /\ \A m \in Messages : WF_keyedVars(Provide(m))
  /\ \A k \in Keys : WF_keyedVars(Settle(k))

Spec == Init /\ [][Next]_keyedVars /\ Fairness

-----------------------------------------------------------------------------
(* Whatever a message may be answered with. *)
Answers ==
  Refusals \cup Garbled \cup {NoAnswer, Rejected} \cup {Replies[s] : s \in DOMAIN Replies}

Errnos == {NoErrno} \cup {r.errno : r \in Answers}

Errors ==
  [Kind : Kinds \cup {"none"}, HTTPStatus : Nat, Errno : Errnos,
   IdempotencyKey : 0..MaxKeys, joinsUnknown : BOOLEAN]

TypeOK ==
  /\ phase \in [Refunds -> {"start", "calling", "told", "querying", "done", "stopped"}]
  /\ key \in [Refunds -> 0..MaxKeys]
  /\ calls \in [Refunds -> 0..MaxCalls] /\ sends \in [Refunds -> 0..MaxSends]
  /\ result \in [Refunds -> Errors]
  /\ doubted \subseteq Keys
  /\ stage \in [Messages -> {"unsent", "wire", "held", "answered", "lost"}]
  /\ sentKey \in [Refunds \X (1..MaxCalls) -> 0..MaxKeys]
  /\ answer \in [Messages -> Answers]
  /\ faults \in 0..MaxFaults
  /\ keyState \in [Keys -> {"unused", "processing", "undetermined", "done", "failed"}]
  /\ refunded \in [Keys -> Nat]

(* A caller who follows the advice of the client's errors moves the money  *)
(* of one refund once, over all resends and all keys it takes.             *)
RefundedOnce ==
  \A k, other \in Keys :
    /\ refunded[k] <= 1
    /\ k[1] = other[1] /\ refunded[k] > 0 /\ refunded[other] > 0 => k = other

(* One decision of the caller is one request to the provider: nothing      *)
(* below the client sends it a second time.                                *)
OneRequestPerDecision ==
  \A i \in Refunds, n \in 1..MaxCalls :
    Cardinality({s \in 1..MaxSends : stage[<<i, n, s>>] # "unsent"}) <= 1

(* An errno that arrives with its documented status has the kind the table *)
(* of errnos gives it.                                                     *)
KindsAreDocumented ==
  \A i \in Refunds : \A row \in LookupErrno(result[i].Errno) :
    result[i].HTTPStatus = row.HTTPStatus => result[i].Kind = row.Kind

(* Nobody is left alone with an unknown outcome: a caller who follows the  *)
(* advice learns in the end what became of its refund, or is refused, or   *)
(* has no call left to make.                                               *)
EveryRefundIsSettled ==
  \A i \in Refunds :
    phase[i] = "calling" ~>
      \/ phase[i] = "done"
      \/ phase[i] = "stopped" /\ ~ IsUnknownOutcome(result[i])
      \/ calls[i] = MaxCalls

(* What made the caller look its refund up before it stopped. *)
WasLookedUp(i) == IsInProgress(result[i]) \/ AsksForNewKey(result[i])

(* A caller that stopped without a look has its answer, unless a call      *)
(* under the same key was left in doubt before.                            *)
Told(i) ==
  IF calls[i] = 0 THEN "nothing"
  ELSE IF phase[i] = "done" THEN "done"
  ELSE IF phase[i] # "stopped" THEN "waiting"
  ELSE IF WasLookedUp(i) \/ <<i, key[i]>> \notin doubted THEN "refused" ELSE "unknown"

IsRefunded(i) == \E k \in Keys : k[1] = i /\ refunded[k] > 0

Ledger == INSTANCE ChargeLedger WITH
            Writes <- Refunds, told <- [i \in Refunds |-> Told(i)],
            effective <- {i \in Refunds : IsRefunded(i)}

(* Over all its calls and keys, a refund is one write of the ledger: one   *)
(* reported done was made, and one whose refusal stopped the caller, with  *)
(* no call under its key left in doubt, was not and never will be.         *)
RefundIsOneWrite == Ledger!LedgerSpec
=============================================================================
