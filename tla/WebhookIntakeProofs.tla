------------------------ MODULE WebhookIntakeProofs ------------------------
(***************************************************************************)
(* What the receiver of notifications may rely on, for any events, any     *)
(* number of deliveries at once, any losses, crashes and rotations.        *)
(***************************************************************************)
EXTENDS WebhookIntake, FiniteSetTheorems, TLAPS

(* The verdicts on bodies whose signature was good.                        *)
SignatureHeld == {"verified", "InvalidRequest", "InvalidEvent"}

-----------------------------------------------------------------------------
(***************************************************************************)
(* The two readers of a notification.                                      *)
(***************************************************************************)
LEMMA PaymentVerdicts ==
  ASSUME NEW b, NEW s, NEW id, NEW key, NEW t
  PROVE  LET v == VerifyWebhook(b, s, id, key, t) IN
    /\ v \in {"InvalidInput", "InvalidSignature", "InvalidRequest", "verified"}
    /\ v \in SignatureHeld => key # NoSecret /\ SignatureMatches(b, s, key, t)
    /\ v = "verified" => ~ Unreadable(b)
    /\ v = "InvalidSignature" =>
         \/ ~ SignatureMatches(b, s, key, t)
         \/ id # Null /\ id # webhookEventID(b)
BY DEF VerifyWebhook, ReadVerified, SignatureHeld

LEMMA SubscriptionVerdicts ==
  ASSUME NEW b, NEW s, NEW key, NEW t
  PROVE  LET v == Verify(b, s, key, t) IN
    /\ v \in {"InvalidSignature", "InvalidEvent", "verified"}
    /\ v \in SignatureHeld => key # NoSecret /\ SignatureMatches(b, s, key, t)
    /\ v = "verified" => decodesEvent(b)
    /\ v = "InvalidSignature" /\ key # NoSecret => ~ SignatureMatches(b, s, key, t)
BY DEF Verify, VerifySignature, SignatureMatches, SignatureHeld

(* An event is a record of its own fields.                                 *)
LEMMA PaymentEventID ==
  ASSUME NEW b
  PROVE  LET event == ParsedEvent(b) IN
    /\ event.EventID = webhookEventID(b)
    /\ event = [event EXCEPT !.EventID = event.EventID]
BY DEF ParsedEvent

LEMMA SubscriptionEventID ==
  ASSUME NEW b
  PROVE  LET event == decodeEvent(b) IN
    /\ event.EventID.id = b.fields["id"]
    /\ event = [event EXCEPT !.EventID = event.EventID]
BY DEF decodeEvent

-----------------------------------------------------------------------------
(***************************************************************************)
(* The inductive invariant.                                                *)
(***************************************************************************)
(* Whatever signs a delivery is a digest of what the event says.           *)
SignatureInv(d) ==
  \A i \in DOMAIN signature[d].v1 :
    \E s \in 1..MaxSecrets : signature[d].v1[i] = MAC(s, signature[d].t, body[d[1]])

(* What the receiver has found out about a delivery.                       *)
VerdictInv(d) ==
  /\ stage[d] \in {"unsent", "wire"} => verdict[d] = "none" /\ readWith[d] = NoSecret
  /\ stage[d] = "keep" => verdict[d] \in SignatureHeld
  /\ verdict[d] \in SignatureHeld => Supports(d, carried[d])
  /\ verdict[d] = "verified" => Readable(carried[d])
  /\ verdict[d] = "InvalidSignature" /\ carried[d] = body[d[1]] =>
       \/ ~ Signs(signature[d], readWith[d], body[d[1]])
       \/ readAt[d] - signature[d].t \notin - Tolerance .. Tolerance
       \/ readWith[d] = NoSecret

(* What the store holds came with a delivery that supports it.             *)
StoreInv ==
  /\ \A event \in inbox :
       \E d \in Deliveries :
         /\ Supports(d, body[d[1]])
         /\ Readable(body[d[1]])
         /\ event = EventOf(body[d[1]])
  /\ \A b \in unreadable : \E d \in Deliveries : Supports(d, b)

AnswerInv ==
  /\ \A d \in Deliveries : stage[d] = "answer" => Kept(d[1])
  /\ \A e \in told : Kept(e)

BodyInv == body \in [Events -> {b \in Bodies : b.api = api}]

IInv ==
  /\ TypeOK
  /\ BodyInv
  /\ \A d \in Deliveries : SignatureInv(d) /\ VerdictInv(d)
  /\ StoreInv
  /\ AnswerInv

LEMMA DeliveryFacts ==
  ASSUME NEW d \in Deliveries
  PROVE  d[1] \in Events
BY IntakeAssumption

LEMMA InForceIsFinite ==
  ASSUME TypeOK
  PROVE  /\ InForce \subseteq 1..MaxSecrets
         /\ Cardinality(InForce) \in Nat
  <1>1. InForce \subseteq 1..MaxSecrets
    BY DEF InForce
  <1>2. IsFiniteSet(1..MaxSecrets)
    BY IntakeAssumption, FS_Interval
  <1>3. IsFiniteSet(InForce)
    BY <1>1, <1>2, FS_Subset
  <1> QED BY <1>1, <1>3, FS_CardinalityType

-----------------------------------------------------------------------------
(***************************************************************************)
(* Init.                                                                   *)
(***************************************************************************)
LEMMA InitInv == Init => IInv
  <1> SUFFICES ASSUME Init PROVE IInv
    OBVIOUS
  <1>1. TypeOK
    <2>0. body \in [Events -> Bodies]
      <3>1. body \in [Events -> {b \in Bodies : b.api = api}]
        BY DEF Init
      <3> QED BY <3>1
    <2>1. /\ api \in {"payment", "subscription"} /\ body \in [Events -> Bodies]
          /\ clock = 0 /\ clock \in 0..MaxTime /\ skew \in Skews
          /\ told \subseteq Events
      BY <2>0, IntakeAssumption DEF Init
    <2>7. idSent \in BOOLEAN
      BY DEF Init
    <2>8. /\ lastSecret \in 1..MaxSecrets /\ secret \in 0..lastSecret
          /\ configured \in 0..secret /\ rotatedAt \in 0..clock
      BY <2>1, IntakeAssumption DEF Init, NoSecret
    <2>2. stage \in [Deliveries -> Stages]
      BY DEF Init, Stages
    <2>6. carried \in [Deliveries -> Bodies]
      <3>1. \A d \in Deliveries : body[d[1]] \in Bodies
        BY <2>1, DeliveryFacts
      <3> QED BY <3>1 DEF Init
    <2>3. signature \in [Deliveries -> Signatures]
      BY DEF Init, Signatures
    <2>4. /\ verdict \in [Deliveries -> Verdicts]
          /\ readAt \in [Deliveries -> Int] /\ readWith \in [Deliveries -> 0..MaxSecrets]
          /\ \A d \in Deliveries :
               verdict[d] \in {"verified", "InvalidRequest", "InvalidEvent"} =>
                 readWith[d] \in 1..MaxSecrets
      BY IntakeAssumption DEF Init, Verdicts, NoSecret
    <2>5. inbox = {} /\ unreadable = {} /\ faults \in 0..MaxFaults
      BY IntakeAssumption DEF Init
    <2> QED BY <2>1, <2>2, <2>3, <2>4, <2>5, <2>6, <2>7, <2>8 DEF TypeOK
  <1>2. BodyInv
    BY DEF Init, BodyInv
  <1>3. ASSUME NEW d \in Deliveries PROVE SignatureInv(d) /\ VerdictInv(d)
    BY DEF Init, SignatureInv, VerdictInv, NoSignature, SignatureHeld
  <1>4. StoreInv /\ AnswerInv
    BY DEF Init, StoreInv, AnswerInv
  <1> QED BY <1>1, <1>2, <1>3, <1>4 DEF IInv

-----------------------------------------------------------------------------
(***************************************************************************)
(* One delivery and its verdict.                                           *)
(***************************************************************************)
(* The digest under a body and a secret is the digest of no other body, so *)
(* a good signature over what a delivery carries is one over what the      *)
(* provider said.                                                          *)
LEMMA GoodSignature ==
  ASSUME NEW d \in Deliveries, NEW key, NEW b, SignatureInv(d), Signs(signature[d], key, b)
  PROVE  key \in 1..MaxSecrets /\ b = body[d[1]]
  <1>1. PICK i \in DOMAIN signature[d].v1 : signature[d].v1[i] = MAC(key, signature[d].t, b)
    BY DEF Signs
  <1>2. PICK s \in 1..MaxSecrets : signature[d].v1[i] = MAC(s, signature[d].t, body[d[1]])
    BY DEF SignatureInv
  <1> QED BY <1>1, <1>2 DEF MAC

(* What the receiver finds out about a delivery of either API.             *)
LEMMA Outcomes ==
  ASSUME IInv, NEW d \in Deliveries
  PROVE  /\ outcome(d) \in Verdicts \ {"none"}
         /\ outcome(d) \in SignatureHeld =>
              /\ configured \in 1..MaxSecrets
              /\ carried[d] = body[d[1]]
              /\ Signs(signature[d], configured, carried[d])
              /\ now - signature[d].t \in - Tolerance .. Tolerance
         /\ outcome(d) = "verified" => Readable(carried[d])
         /\ outcome(d) = "InvalidSignature" /\ carried[d] = body[d[1]] =>
              \/ ~ Signs(signature[d], configured, body[d[1]])
              \/ now - signature[d].t \notin - Tolerance .. Tolerance
              \/ configured = NoSecret
  <1> DEFINE Matches == SignatureMatches(carried[d], signature[d], configured, now)
  <1>a. signature[d] \in Signatures
    BY DEF IInv, TypeOK
  <1>b. signature[d].t \in Int
    <2>1. NoSignature.t = 0
      BY DEF NoSignature
    <2>2. signature[d] = NoSignature \/ signature[d].t \in 0..MaxTime
      BY <1>a DEF Signatures
    <2> QED BY <2>1, <2>2, IntakeAssumption
  <1>0. /\ now \in Int /\ signature[d].t \in Int /\ api \in {"payment", "subscription"}
        /\ SignatureInv(d)
    <2>1. clock \in Int /\ skew \in Int
      BY IntakeAssumption DEF IInv, TypeOK
    <2> QED BY <1>b, <2>1 DEF IInv, TypeOK, now
  <1>1. Matches => Signs(signature[d], configured, carried[d])
                   /\ now - signature[d].t \in - Tolerance .. Tolerance
    BY <1>0, ToleranceAssumption DEF SignatureMatches, withinTolerance
  <1>2. Signs(signature[d], configured, carried[d])
          /\ now - signature[d].t \in - Tolerance .. Tolerance => Matches
    <2>1. Signs(signature[d], configured, carried[d]) => signature[d].signed
      <3>1. signature[d] = NoSignature => signature[d].v1 = <<>>
        BY DEF NoSignature
      <3>2. signature[d].signed \/ signature[d] = NoSignature
        BY <1>a DEF Signatures
      <3> QED BY <3>1, <3>2 DEF Signs
    <2> QED BY <1>0, <2>1, ToleranceAssumption DEF SignatureMatches, withinTolerance
  <1>3. Matches => configured \in 1..MaxSecrets /\ carried[d] = body[d[1]]
    BY <1>0, <1>1, GoodSignature
  <1>4. CASE api = "payment"
    <2>1. outcome(d) = VerifyWebhook(carried[d], signature[d], sentID(d), configured, now)
      BY <1>4 DEF outcome
    <2>2. carried[d] = body[d[1]] => sentID(d) = Null \/ sentID(d) = webhookEventID(carried[d])
      BY DEF sentID, documentedID, webhookEventID
    <2> HIDE DEF Matches
    <2>3. /\ outcome(d) \in {"InvalidInput", "InvalidSignature", "InvalidRequest", "verified"}
          /\ outcome(d) \in SignatureHeld => Matches
          /\ outcome(d) = "verified" => ~ Unreadable(carried[d])
          /\ outcome(d) = "InvalidSignature" =>
               \/ ~ Matches
               \/ sentID(d) # Null /\ sentID(d) # webhookEventID(carried[d])
      BY <2>1, PaymentVerdicts DEF Matches
    <2> QED BY <1>1, <1>2, <1>3, <1>4, <2>2, <2>3 DEF Verdicts, Readable
  <1>5. CASE api # "payment"
    <2>1. outcome(d) = Verify(carried[d], signature[d], configured, now)
      BY <1>5 DEF outcome
    <2> HIDE DEF Matches
    <2>2. /\ outcome(d) \in {"InvalidSignature", "InvalidEvent", "verified"}
          /\ outcome(d) \in SignatureHeld => Matches
          /\ outcome(d) = "verified" => decodesEvent(carried[d])
          /\ outcome(d) = "InvalidSignature" /\ configured # NoSecret => ~ Matches
      BY <2>1, SubscriptionVerdicts DEF Matches
    <2> QED BY <1>1, <1>2, <1>3, <1>5, <2>2 DEF Verdicts, Readable
  <1> QED BY <1>4, <1>5

-----------------------------------------------------------------------------
(***************************************************************************)
(* The type invariant.                                                     *)
(***************************************************************************)
(* The parts of TypeOK that only a delivery's own steps touch.             *)
LEMMA TypeStep ==
  ASSUME IInv, Next
  PROVE  TypeOK'
  <1> USE DEF IInv
  <1>1. ASSUME NEW d \in Deliveries, Notify(d) PROVE TypeOK'
    <2>1. /\ UNCHANGED <<providerVars, carried, skew, configured, readVars, storeVars, faults>>
          /\ stage' = [stage EXCEPT ![d] = "wire"]
      BY <1>1 DEF Notify, To
    <2>2. signature' \in [Deliveries -> Signatures]
      <3>1. CASE signature' = [signature EXCEPT ![d] = NoSignature]
        BY <3>1 DEF TypeOK, Signatures
      <3>2. ASSUME NEW order \in SigningOrders,
                   signature' = [signature EXCEPT ![d] = Signature(order, clock, body[d[1]])]
            PROVE  signature' \in [Deliveries -> Signatures]
        <4> DEFINE Digests == (1..MaxSecrets) \X (0..MaxTime) \X Bodies
                   v1 == [i \in DOMAIN order |-> MAC(order[i], clock, body[d[1]])]
        <4>1. /\ DOMAIN order = 1..Cardinality(InForce) /\ Cardinality(InForce) \in Nat
              /\ \A i \in DOMAIN order : order[i] \in 1..MaxSecrets
          BY <3>2, InForceIsFinite DEF SigningOrders
        <4>2. \A i \in DOMAIN order : MAC(order[i], clock, body[d[1]]) \in Digests
          BY <4>1, DeliveryFacts DEF MAC, TypeOK
        <4>3. v1 \in Seq(Digests)
          <5>1. v1 = [i \in 1..Cardinality(InForce) |-> v1[i]]
            BY <4>1
          <5>2. \A i \in 1..Cardinality(InForce) : v1[i] \in Digests
            BY <4>1, <4>2
          <5> HIDE DEF v1, Digests
          <5> QED BY <4>1, <5>1, <5>2
        <4>4. Signature(order, clock, body[d[1]]) = [signed |-> TRUE, t |-> clock, v1 |-> v1]
          BY DEF Signature
        <4> HIDE DEF v1, Digests
        <4>5. Signature(order, clock, body[d[1]]) \in Signatures
          BY <4>3, <4>4 DEF Signatures, TypeOK, Digests
        <4> QED BY <3>2, <4>5 DEF TypeOK
      <3> QED BY <1>1, <3>1, <3>2 DEF Notify
    <2> QED BY <2>1, <2>2
            DEF TypeOK, Stages, providerVars, setting, readVars, storeVars, Readable, EventOf
  <1>2. ASSUME NEW d \in Deliveries, Check(d) PROVE TypeOK'
    <2>1. /\ UNCHANGED <<providerVars, wireVars, skew, configured, storeVars, faults>>
          /\ verdict' = [verdict EXCEPT ![d] = outcome(d)]
          /\ readAt' = [readAt EXCEPT ![d] = now]
          /\ readWith' = [readWith EXCEPT ![d] = configured]
      BY <1>2 DEF Check
    <2>2. stage' \in [Deliveries -> Stages]
      BY <1>2 DEF Check, To, TypeOK, Stages
    <2>3. now \in Int /\ configured \in 0..MaxSecrets
      BY IntakeAssumption DEF TypeOK, now
    <2>4. outcome(d) \in Verdicts
          /\ (outcome(d) \in SignatureHeld => configured \in 1..MaxSecrets)
      BY Outcomes
    <2>5. verdict' \in [Deliveries -> Verdicts]
          /\ readAt' \in [Deliveries -> Int] /\ readWith' \in [Deliveries -> 0..MaxSecrets]
      BY <2>1, <2>3, <2>4 DEF TypeOK
    <2>6. \A e \in Deliveries :
            verdict'[e] \in {"verified", "InvalidRequest", "InvalidEvent"} =>
              readWith'[e] \in 1..MaxSecrets
      BY <2>1, <2>4 DEF TypeOK, SignatureHeld
    <2> QED BY <2>1, <2>2, <2>5, <2>6
            DEF TypeOK, providerVars, setting, wireVars, storeVars, Readable, EventOf
  <1>3. ASSUME NEW d \in Deliveries, Keep(d) PROVE TypeOK'
    <2>1. /\ UNCHANGED <<providerVars, wireVars, skew, configured, readVars, faults>>
          /\ stage' = [stage EXCEPT ![d] = "answer"] /\ stage[d] = "keep"
      BY <1>3 DEF Keep, To
    <2>2. carried[d] \in Bodies /\ carried[d] = body[d[1]] /\ carried[d].api = api
          /\ (verdict[d] = "verified" => Readable(carried[d]))
      BY <2>1, DeliveryFacts DEF TypeOK, BodyInv, VerdictInv, Supports
    <2>3. /\ inbox' \subseteq inbox \cup {EventOf(carried[d])}
          /\ inbox' = inbox \/ verdict[d] = "verified"
          /\ unreadable' \subseteq unreadable \cup {carried[d]}
      BY <1>3 DEF Keep
    <2>4. \A event \in inbox' : \E b \in Bodies :
             b.api = api /\ Readable(b) /\ event = EventOf(b)
      BY <2>2, <2>3 DEF TypeOK
    <2>5. unreadable' \subseteq Bodies
      BY <2>2, <2>3 DEF TypeOK
    <2>6. \A event \in inbox' : \E b \in Bodies :
             b.api = api' /\ Readable(b)' /\ event = EventOf(b)'
      BY <2>1, <2>4 DEF providerVars, setting, Readable, EventOf
    <2> QED BY <2>1, <2>5, <2>6
            DEF TypeOK, Stages, providerVars, setting, wireVars, readVars
  <1>4. ASSUME NEW d \in Deliveries, WriteAck(d) PROVE TypeOK'
    BY <1>4, DeliveryFacts
    DEF WriteAck, To, TypeOK, Stages, setting, wireVars, readVars, storeVars, Readable, EventOf
  <1>5. ASSUME stage' \in [Deliveries -> Stages], faults' \in 0..MaxFaults,
               UNCHANGED <<providerVars, wireVars, skew, configured, readVars, storeVars>>
        PROVE  TypeOK'
    BY <1>5 DEF TypeOK, providerVars, setting, wireVars, readVars, storeVars, Readable, EventOf
  <1>14. ASSUME Fault PROVE faults' \in 0..MaxFaults
    BY <1>14, IntakeAssumption DEF Fault, TypeOK
  <1>13. ASSUME NEW d \in Deliveries, Lose(d) PROVE TypeOK'
    <2>1. stage' \in [Deliveries -> Stages]
      BY <1>13 DEF Lose, To, TypeOK, Stages
    <2> QED BY <1>5, <1>13, <1>14, <2>1 DEF Lose
  <1>6. ASSUME NEW d \in Deliveries, KeepFails(d) PROVE TypeOK'
    <2>1. stage' \in [Deliveries -> Stages]
      BY <1>6 DEF KeepFails, To, TypeOK, Stages
    <2> QED BY <1>5, <1>6, <1>14, <2>1 DEF KeepFails
  <1>7. ASSUME NEW d \in Deliveries, NEW other \in Reencodings, Reencode(d, other) PROVE TypeOK'
    BY <1>7, IntakeAssumption
    DEF Reencode, Fault, TypeOK, providerVars, setting, readVars, storeVars, Readable, EventOf
  <1>8. ASSUME GenerateSecret PROVE TypeOK'
    BY <1>8
    DEF GenerateSecret, TypeOK, setting, wireVars, readVars, storeVars, Readable, EventOf
  <1>9. ASSUME Tick PROVE TypeOK'
    BY <1>9, IntakeAssumption
    DEF Tick, TypeOK, setting, wireVars, readVars, storeVars, Readable, EventOf
  <1>10. ASSUME Restart, faults' \in 0..MaxFaults PROVE TypeOK'
    BY <1>10
    DEF Restart, TypeOK, Stages, providerVars, setting, wireVars, readVars, storeVars,
        Readable, EventOf
  <1>11. ASSUME Crash PROVE TypeOK'
    BY <1>10, <1>11, <1>14 DEF Crash
  <1>12. ASSUME Configure PROVE TypeOK'
    BY <1>10, <1>12 DEF Configure, TypeOK
  <1> QED BY <1>1, <1>2, <1>3, <1>4, <1>5, <1>6, <1>7, <1>8, <1>9, <1>11, <1>12, <1>13
          DEF Next, Handle

-----------------------------------------------------------------------------
(***************************************************************************)
(* What one step does to one delivery.                                     *)
(***************************************************************************)
LEMMA SettingStep ==
  ASSUME Next PROVE UNCHANGED setting
BY DEF Next, Handle, Notify, Check, Keep, WriteAck, Lose, KeepFails, Reencode, GenerateSecret,
       Tick, Crash, Configure, Restart, providerVars

(* Once read, a delivery only moves on: nothing touches what it carried or *)
(* what was made of it.                                                    *)
Rests(d) ==
  /\ stage[d] \notin {"unsent", "wire"}
  /\ stage'[d] \in {stage[d], "answer", "refused", "gone"}
  /\ stage'[d] = "answer" => stage[d] = "answer" \/ Keep(d)
  /\ UNCHANGED <<signature[d], carried[d], verdict[d], readAt[d], readWith[d]>>

Waits(d) ==
  /\ stage[d] \in {"unsent", "wire"} /\ stage'[d] \in {"unsent", "wire", "gone"}
  /\ UNCHANGED <<verdict[d], readAt[d], readWith[d]>>

LEMMA Moves ==
  ASSUME TypeOK, Next, NEW d \in Deliveries
  PROVE  Rests(d) \/ Waits(d) \/ Check(d)
  <1>0. stage[d] \in Stages /\ stage \in [Deliveries -> Stages] /\ DOMAIN stage = Deliveries
    BY DEF TypeOK
  <1>a. carried \in [Deliveries -> Bodies]
    BY DEF TypeOK
  <1> DEFINE M == Rests(d) \/ Waits(d) \/ Check(d)
  <1>1. ASSUME NEW e \in Deliveries, Notify(e) PROVE M
    <2>1. signature'[d] = signature[d] \/ d = e
      BY <1>1 DEF Notify, TypeOK
    <2>2. stage[e] = "unsent" /\ stage' = [stage EXCEPT ![e] = "wire"]
      BY <1>1 DEF Notify, To
    <2>3. UNCHANGED <<carried, readVars>>
      BY <1>1 DEF Notify
    <2> QED BY <1>0, <2>1, <2>2, <2>3 DEF Rests, Waits, readVars, Stages
  <1>2. ASSUME NEW e \in Deliveries, Check(e), e # d PROVE M
    <2>1. stage'[d] = stage[d] /\ verdict'[d] = verdict[d] /\ readAt'[d] = readAt[d]
          /\ readWith'[d] = readWith[d]
      BY <1>0, <1>2 DEF Check, To, TypeOK
    <2>2. UNCHANGED <<carried, signature>>
      BY <1>2 DEF Check, wireVars
    <2> QED BY <1>0, <2>1, <2>2 DEF Rests, Waits, Stages
  <1>3. ASSUME NEW e \in Deliveries, Keep(e) PROVE M
    <2>1. stage[e] = "keep" /\ stage' = [stage EXCEPT ![e] = "answer"]
      BY <1>3 DEF Keep, To
    <2>2. UNCHANGED <<carried, signature, readVars>>
      BY <1>3 DEF Keep, wireVars
    <2> QED BY <1>0, <1>3, <2>1, <2>2 DEF Rests, Waits, readVars, Stages
  <1>4. ASSUME NEW e \in Deliveries, WriteAck(e) \/ Lose(e) \/ KeepFails(e) PROVE M
    <2>1. \E to \in {"gone", "refused"} :
            /\ stage' = [stage EXCEPT ![e] = to]
            /\ to = "refused" => stage[e] = "keep"
      BY <1>4 DEF WriteAck, Lose, KeepFails, To
    <2>2. UNCHANGED <<carried, signature, readVars>>
      BY <1>4 DEF WriteAck, Lose, KeepFails, wireVars
    <2> QED BY <1>0, <2>1, <2>2 DEF Rests, Waits, readVars, Stages
  <1>5. ASSUME NEW e \in Deliveries, NEW other \in Reencodings, Reencode(e, other) PROVE M
    BY <1>0, <1>a, <1>5 DEF Reencode, Rests, Waits, readVars, Stages
  <1>6. ASSUME UNCHANGED <<stage, wireVars, readVars>> PROVE M
    BY <1>0, <1>6 DEF Rests, Waits, wireVars, readVars, Stages
  <1>7. ASSUME GenerateSecret \/ Tick PROVE M
    BY <1>6, <1>7 DEF GenerateSecret, Tick
  <1>8. ASSUME Restart PROVE M
    BY <1>0, <1>8 DEF Restart, Rests, Waits, wireVars, readVars, Stages
  <1>9. ASSUME Crash \/ Configure PROVE M
    BY <1>8, <1>9 DEF Crash, Configure
  <1> QED BY <1>1, <1>2, <1>3, <1>4, <1>5, <1>7, <1>9 DEF Next, Handle

LEMMA SignatureStep ==
  ASSUME IInv, Next, NEW d \in Deliveries
  PROVE  SignatureInv(d)'
  <1>0. UNCHANGED body /\ SignatureInv(d)
    BY SettingStep DEF setting, IInv
  <1>1. CASE signature'[d] = signature[d]
    BY <1>0, <1>1 DEF SignatureInv
  <1>2. CASE signature'[d] = NoSignature
    BY <1>2 DEF SignatureInv, NoSignature
  <1>3. ASSUME NEW order \in SigningOrders,
               signature'[d] = Signature(order, clock, body[d[1]])
        PROVE  SignatureInv(d)'
    <2>1. \A i \in DOMAIN order : order[i] \in 1..MaxSecrets
      BY InForceIsFinite DEF SigningOrders, IInv
    <2> QED BY <1>0, <1>3, <2>1 DEF SignatureInv, Signature
  <1>4. ASSUME NEW e \in Deliveries, Notify(e) PROVE SignatureInv(d)'
    <2>0. signature \in [Deliveries -> Signatures]
      BY DEF IInv, TypeOK
    <2>1. CASE d # e
      BY <1>1, <1>4, <2>0, <2>1 DEF Notify
    <2>2. CASE d = e /\ InForce = {}
      <3>1. signature' = [signature EXCEPT ![d] = NoSignature]
        BY <1>4, <2>2 DEF Notify
      <3> QED BY <1>2, <2>0, <3>1
    <2>3. CASE d = e /\ InForce # {}
      <3>1. PICK order \in SigningOrders :
              signature' = [signature EXCEPT ![d] = Signature(order, clock, body[d[1]])]
        BY <1>4, <2>3 DEF Notify
      <3> QED BY <1>3, <2>0, <3>1
    <2> QED BY <2>1, <2>2, <2>3
  <1>5. ASSUME UNCHANGED signature PROVE SignatureInv(d)'
    BY <1>1, <1>5
  <1> QED
    BY <1>4, <1>5
    DEF Next, Handle, Check, Keep, WriteAck, Lose, KeepFails, Reencode, GenerateSecret, Tick,
        Crash, Configure, Restart, wireVars

(* A delivery that supports a body does so for good.                       *)
LEMMA SupportsStep ==
  ASSUME IInv, Next, NEW d \in Deliveries, NEW b, Supports(d, b)
  PROVE  Supports(d, b)'
  <1>1. VerdictInv(d) /\ UNCHANGED body
    BY SettingStep DEF setting, IInv
  <1>2. stage[d] \notin {"unsent", "wire"}
    BY <1>1 DEF VerdictInv, Supports
  <1>3. Rests(d)
    BY <1>2, Moves DEF IInv, Waits, Check, To
  <1> QED BY <1>1, <1>2, <1>3 DEF Rests, Supports, Signs

LEMMA VerdictStep ==
  ASSUME IInv, Next, NEW d \in Deliveries
  PROVE  VerdictInv(d)'
  <1>0. /\ VerdictInv(d) /\ SignatureInv(d)
        /\ UNCHANGED <<api, body>>
    BY SettingStep DEF setting, IInv
  <1>1. CASE Rests(d)
    <2>1. Supports(d, carried[d]) => Supports(d, carried[d])'
      <3>1. Supports(d, carried[d]) => \A b : b = carried[d] => Supports(d, b)'
        BY SupportsStep
      <3> QED BY <1>1, <3>1 DEF Rests, Supports
    <2> QED BY <1>0, <1>1, <2>1 DEF Rests, VerdictInv, SignatureHeld, Readable, Signs
  <1>2. CASE Waits(d)
    BY <1>0, <1>2 DEF Waits, VerdictInv, SignatureHeld
  <1>3. CASE Check(d)
    <2>1. /\ UNCHANGED <<carried, signature>>
          /\ verdict'[d] = outcome(d) /\ readAt'[d] = now /\ readWith'[d] = configured
      BY <1>3 DEF Check, wireVars, IInv, TypeOK
    <2>2. /\ stage'[d] \in {"keep", "answer", "refused"}
          /\ stage'[d] = "keep" => outcome(d) \notin {"InvalidSignature", "InvalidInput"}
      BY <1>3 DEF Check, To, IInv, TypeOK
    <2>3. configured \in 1..MaxSecrets => configured # NoSecret
      BY DEF NoSecret
    <2>4. outcome(d) \in SignatureHeld => Supports(d, carried[d])'
      BY <1>0, <2>1, <2>2, <2>3, Outcomes DEF Supports, Signs
    <2> QED
      BY <1>0, <2>1, <2>2, <2>4, Outcomes
      DEF VerdictInv, SignatureHeld, Verdicts, Readable, Signs
  <1> QED BY <1>1, <1>2, <1>3, Moves DEF IInv

-----------------------------------------------------------------------------
(***************************************************************************)
(* The store, and what was answered.                                       *)
(***************************************************************************)
(* A handler about to store or to answer has read what the provider said.  *)
LEMMA ReadsWhatWasSaid ==
  ASSUME IInv, NEW d \in Deliveries, verdict[d] \in SignatureHeld
  PROVE  /\ Supports(d, carried[d]) /\ carried[d] = body[d[1]]
         /\ carried[d] \in Bodies /\ carried[d].api = api
         /\ verdict[d] = "verified" => Readable(carried[d])
  <1>1. d[1] \in Events
    BY DeliveryFacts
  <1> QED BY <1>1 DEF IInv, BodyInv, VerdictInv, Supports

LEMMA KeepFacts ==
  ASSUME IInv, NEW d \in Deliveries, Keep(d)
  PROVE  /\ verdict[d] \in SignatureHeld
         /\ \/ /\ verdict[d] = "verified" /\ unreadable' = unreadable
               /\ inbox' = IF \E other \in inbox : other.EventID = EventOf(carried[d]).EventID
                           THEN inbox ELSE inbox \cup {EventOf(carried[d])}
            \/ /\ verdict[d] # "verified" /\ inbox' = inbox
               /\ unreadable' = unreadable \cup {carried[d]}
BY DEF Keep, SignatureHeld

LEMMA StoreOnlyKeeps ==
  ASSUME Next
  PROVE  (\E d \in Deliveries : Keep(d)) \/ UNCHANGED storeVars
BY DEF Next, Handle, Notify, Check, WriteAck, Lose, KeepFails, Reencode, GenerateSecret, Tick,
       Crash, Configure, Restart

LEMMA StoreStep ==
  ASSUME IInv, Next
  PROVE  StoreInv'
  <1>0. StoreInv /\ UNCHANGED <<api, body>>
    BY SettingStep DEF setting, IInv
  <1>1. ASSUME NEW d \in Deliveries, NEW event,
               Supports(d, body[d[1]]), Readable(body[d[1]]), event = EventOf(body[d[1]])
        PROVE  (Supports(d, body[d[1]]) /\ Readable(body[d[1]]) /\ event = EventOf(body[d[1]]))'
    <2>1. \A b : b = body[d[1]] => Supports(d, b)'
      BY <1>1, SupportsStep
    <2>2. Supports(d, body[d[1]])'
      BY <1>0, <2>1 DEF Supports
    <2> QED BY <1>0, <1>1, <2>2 DEF Readable, EventOf
  <1>2. ASSUME NEW event \in inbox
        PROVE  \E d \in Deliveries :
                 (Supports(d, body[d[1]]) /\ Readable(body[d[1]]) /\ event = EventOf(body[d[1]]))'
    BY <1>0, <1>1 DEF StoreInv
  <1>3. ASSUME NEW b \in unreadable PROVE \E d \in Deliveries : Supports(d, b)'
    BY <1>0, SupportsStep DEF StoreInv
  <1>4. CASE UNCHANGED storeVars
    BY <1>2, <1>3, <1>4 DEF StoreInv, storeVars
  <1>5. ASSUME NEW d \in Deliveries, Keep(d) PROVE StoreInv'
    <2>1. verdict[d] \in SignatureHeld
      BY <1>5, KeepFacts
    <2>2. /\ Supports(d, carried[d]) /\ carried[d] = body[d[1]]
          /\ verdict[d] = "verified" => Readable(carried[d])
      BY <2>1, ReadsWhatWasSaid
    <2>3. verdict[d] = "verified" =>
            (Supports(d, body[d[1]]) /\ Readable(body[d[1]])
             /\ EventOf(carried[d]) = EventOf(body[d[1]]))
      BY <2>2
    <2>4. verdict[d] = "verified" =>
            \E e \in Deliveries :
              (Supports(e, body[e[1]]) /\ Readable(body[e[1]]))'
              /\ EventOf(carried[d]) = EventOf(body[e[1]])'
      BY <1>1, <2>3
    <2>5. Supports(d, carried[d]) => \A b : b = carried[d] => Supports(d, b)'
      BY SupportsStep
    <2>6. \A event \in inbox' : event \in inbox \/ (verdict[d] = "verified" /\ event = EventOf(carried[d]))
      BY <1>5, KeepFacts
    <2>7. \A b \in unreadable' : b \in unreadable \/ b = carried[d]
      BY <1>5, KeepFacts
    <2> QED BY <1>2, <1>3, <2>2, <2>4, <2>5, <2>6, <2>7 DEF StoreInv
  <1> QED BY <1>4, <1>5, StoreOnlyKeeps

(* What is kept stays.                                                     *)
LEMMA KeptStep ==
  ASSUME IInv, Next, NEW e, Kept(e)
  PROVE  Kept(e)'
  <1>1. UNCHANGED <<api, body>>
    BY SettingStep DEF setting
  <1>2. inbox \subseteq inbox' /\ unreadable \subseteq unreadable'
    BY KeepFacts, StoreOnlyKeeps DEF storeVars
  <1> QED BY <1>1, <1>2 DEF Kept, Skipped, Readable, EventOf

(* An event that is already there under this ID says the same.             *)
LEMMA KeepStores ==
  ASSUME IInv, NEW d \in Deliveries, Keep(d), verdict[d] = "verified"
  PROVE  EventOf(carried[d]) \in inbox'
  <1> DEFINE event == EventOf(carried[d])
  <1>0. carried[d] \in Bodies /\ carried[d].api = api /\ Readable(carried[d])
    BY KeepFacts, ReadsWhatWasSaid
  <1>1. CASE \A other \in inbox : other.EventID # event.EventID
    BY <1>1, KeepFacts
  <1>2. ASSUME NEW other \in inbox, other.EventID = event.EventID
        PROVE  event \in inbox'
    <2>1. PICK b \in Bodies : b.api = api /\ Readable(b) /\ other = EventOf(b)
      BY <1>2 DEF IInv, TypeOK
    <2>2. EventOf(b) = event
      <3>1. CASE api = "payment"
        <4>1. webhookEventID(b) = webhookEventID(carried[d])
          BY <1>2, <2>1, <3>1, PaymentEventID DEF EventOf
        <4>2. documentedID(b) = documentedID(carried[d])
          BY <4>1 DEF documentedID, webhookEventID
        <4> QED BY <1>0, <2>1, <3>1, <4>2, EventIDAssumption DEF EventOf, Readable
      <3>2. CASE api = "subscription"
        <4>1. b.fields["id"] = carried[d].fields["id"]
          BY <1>2, <2>1, <3>2, SubscriptionEventID DEF EventOf
        <4> QED BY <1>0, <2>1, <3>2, <4>1, EventIDAssumption DEF EventOf, Readable
      <3> QED BY <3>1, <3>2 DEF IInv, TypeOK
    <2> QED BY <1>2, <2>1, <2>2, KeepFacts
  <1> QED BY <1>1, <1>2

(* What a handler has just stored is kept. *)
LEMMA KeepKeeps ==
  ASSUME IInv, NEW d \in Deliveries, Keep(d), Next
  PROVE  Kept(d[1])'
  <1>0. UNCHANGED <<api, body>>
    BY SettingStep DEF setting
  <1>1. carried[d] = body[d[1]]
    BY KeepFacts, ReadsWhatWasSaid
  <1> DEFINE event == EventOf(carried[d])
  <1>2. event = [event EXCEPT !.EventID = event.EventID]
    BY PaymentEventID, SubscriptionEventID DEF EventOf
  <1>3. CASE verdict[d] = "verified"
    <2>1. event \in inbox'
      BY <1>3, KeepStores
    <2>2. event = EventOf(body[d[1]])'
      BY <1>0, <1>1 DEF EventOf
    <2> HIDE DEF event
    <2> QED BY <1>2, <2>1, <2>2 DEF Kept
  <1>4. CASE verdict[d] # "verified"
    BY <1>0, <1>1, <1>4, KeepFacts DEF Kept
  <1> QED BY <1>3, <1>4

LEMMA AnswerStep ==
  ASSUME IInv, Next
  PROVE  AnswerInv'
  <1>0. AnswerInv /\ UNCHANGED <<api, body>>
    BY SettingStep DEF setting, IInv
  <1>1. ASSUME NEW d \in Deliveries, stage'[d] = "answer" PROVE Kept(d[1])'
    <2>1. CASE Rests(d)
      <3>1. CASE stage[d] = "answer"
        BY <1>0, <3>1, KeptStep DEF AnswerInv
      <3>2. CASE Keep(d)
        BY <3>2, KeepKeeps
      <3> QED BY <1>1, <2>1, <3>1, <3>2 DEF Rests
    <2>2. CASE Waits(d)
      BY <1>1, <2>2 DEF Waits
    <2>3. CASE Check(d)
      <3>1. outcome(d) = "verified" /\ Skipped(carried[d])
        BY <1>1, <2>3 DEF Check, To, IInv, TypeOK
      <3>2. carried[d] = body[d[1]] /\ Readable(carried[d])
        BY <3>1, Outcomes DEF SignatureHeld
      <3>3. Kept(d[1])
        BY <3>1, <3>2 DEF Kept
      <3> QED BY <3>3, KeptStep
    <2> QED BY <2>1, <2>2, <2>3, Moves DEF IInv
  <1>2. ASSUME NEW e \in told' PROVE Kept(e)'
    <2>1. CASE e \in told
      BY <1>0, <2>1, KeptStep DEF AnswerInv
    <2>2. CASE e \notin told
      <3>1. PICK d \in Deliveries : WriteAck(d) /\ e = d[1]
        BY <1>2, <2>2
        DEF Next, Handle, Notify, Check, Keep, WriteAck, Lose, KeepFails, Reencode,
            GenerateSecret, Tick, Crash, Configure, Restart, providerVars
      <3>2. stage[d] = "answer"
        BY <3>1 DEF WriteAck, To
      <3> QED BY <1>0, <3>1, <3>2, KeptStep DEF AnswerInv
    <2> QED BY <2>1, <2>2
  <1> QED BY <1>1, <1>2 DEF AnswerInv

-----------------------------------------------------------------------------
LEMMA NextInv == IInv /\ [Next]_intakeVars => IInv'
  <1>1. ASSUME IInv, Next PROVE IInv'
    <2>1. BodyInv'
      BY <1>1, SettingStep DEF setting, BodyInv, IInv
    <2> QED BY <1>1, <2>1, TypeStep, SignatureStep, VerdictStep, StoreStep, AnswerStep DEF IInv
  <1>2. ASSUME IInv, UNCHANGED intakeVars PROVE IInv'
    <2>1. UNCHANGED <<api, body, lastSecret, idSent, secret, rotatedAt, clock, told, stage,
                      carried, signature, skew, configured, verdict, readAt, readWith, inbox,
                      unreadable, faults>>
      BY <1>2 DEF intakeVars, providerVars, setting, wireVars, readVars, storeVars
    <2>2. TypeOK' /\ BodyInv' /\ AnswerInv'
      BY <1>2, <2>1
      DEF IInv, TypeOK, BodyInv, AnswerInv, Kept, Skipped, Readable, EventOf
    <2>3. StoreInv'
      BY <1>2, <2>1 DEF IInv, StoreInv, Supports, Signs, Readable, EventOf
    <2>4. ASSUME NEW d \in Deliveries PROVE (SignatureInv(d) /\ VerdictInv(d))'
      BY <1>2, <2>1 DEF IInv, SignatureInv, VerdictInv, Supports, Signs, Readable
    <2> QED BY <2>2, <2>3, <2>4 DEF IInv
  <1> QED BY <1>1, <1>2

LEMMA InvHolds == Spec => []IInv
  BY InitInv, NextInv, PTL DEF Spec
-----------------------------------------------------------------------------
(***************************************************************************)
(* What a merchant may rely on.                                            *)
(***************************************************************************)
(* Every variable keeps its type; the inbox holds events of this API only. *)
THEOREM TypeCorrect == Spec => []TypeOK
  <1>1. IInv => TypeOK
    BY DEF IInv
  <1> QED BY <1>1, InvHolds, PTL

(* An event the provider has a 2xx for, and will not send again, is in the *)
(* merchant's records, whatever crashed and whatever came twice.           *)
THEOREM AnsweredEventsAreKept == Spec => []AnsweredEventIsKept
  <1>1. IInv => AnsweredEventIsKept
    BY DEF IInv, AnswerInv, AnsweredEventIsKept
  <1> QED BY <1>1, InvHolds, PTL

(* Everything in the records the provider said, to this merchant, signed   *)
(* with a secret the receiver had and within the tolerance.                *)
THEOREM TheRecordsAreAuthentic == Spec => []RecordsAreAuthentic
  <1>1. ASSUME IInv PROVE RecordsAreAuthentic
    <2>1. ASSUME NEW event \in inbox
          PROVE  \E d \in Deliveries :
                   /\ event = [EventOf(body[d[1]]) EXCEPT !.EventID = event.EventID]
                   /\ Supports(d, body[d[1]])
                   /\ api = "payment" =>
                        \/ isNullRaw(body[d[1]].fields["merchantId"])
                        \/ body[d[1]].fields["merchantId"].text = MerchantID
      <3>1. PICK d \in Deliveries : /\ Supports(d, body[d[1]]) /\ Readable(body[d[1]])
                                    /\ event = EventOf(body[d[1]])
        BY <1>1 DEF IInv, StoreInv
      <3>2. event = [event EXCEPT !.EventID = event.EventID]
        BY <3>1, PaymentEventID, SubscriptionEventID DEF EventOf
      <3>3. event = [EventOf(body[d[1]]) EXCEPT !.EventID = event.EventID]
        BY <3>1, <3>2
      <3>4. api = "payment" => ~ NamesOtherMerchant(body[d[1]])
        BY <3>1 DEF Readable, Unreadable
      <3> QED BY <3>1, <3>3, <3>4 DEF NamesOtherMerchant
    <2>2. \A b \in unreadable : \E d \in Deliveries : Supports(d, b)
      BY <1>1 DEF IInv, StoreInv
    <2> QED BY <2>1, <2>2 DEF RecordsAreAuthentic
  <1> QED BY <1>1, InvHolds, PTL

(* A card token is in the records exactly for a binding that succeeded.    *)
THEOREM TokensAreBound == Spec => []TokensComeFromBindings
  <1>1. ASSUME IInv PROVE TokensComeFromBindings
    <2>1. ASSUME NEW event \in inbox, api = "payment"
          PROVE  (event.Token # "") <=>
                   (event.Purpose = "token" /\ event.HasOutcome /\ event.Success)
      <3>1. PICK b \in Bodies : ~ Unreadable(b) /\ event = ParsedEvent(b)
        BY <1>1, <2>1 DEF IInv, TypeOK, Readable, EventOf
      <3>2. /\ event.Token = tokenOf(b) /\ event.Purpose = purposeOf(b)
            /\ event.HasOutcome = hasOutcome(b) /\ event.Success = success(b)
        BY <3>1 DEF ParsedEvent
      <3>3. purposeOf(b) = "token" /\ success(b) => b.fields["token"].text # ""
        BY <3>1 DEF Unreadable, KnownPurposeError, isRequiredString, Known, webhookRequiredFields
      <3> QED BY <3>2, <3>3 DEF tokenOf, success
    <2> QED BY <2>1 DEF TokensComeFromBindings
  <1> QED BY <1>1, InvHolds, PTL

(* A delivery that arrives as it was sent, in time, under a secret in      *)
(* force, is never refused.                                                *)
THEOREM SignedIsRead == Spec => []SignedIsNotRefused
  <1>1. ASSUME IInv PROVE SignedIsNotRefused
    <2>1. ASSUME NEW d \in Deliveries, verdict[d] = "InvalidSignature", carried[d] = body[d[1]]
          PROVE  \/ ~ Signs(signature[d], readWith[d], body[d[1]])
                 \/ readAt[d] - signature[d].t \notin - Tolerance .. Tolerance
      <3>1. VerdictInv(d) /\ SignatureInv(d)
        BY <1>1 DEF IInv
      <3>2. ~ Signs(signature[d], NoSecret, body[d[1]])
        <4>1. NoSecret \notin 1..MaxSecrets
          BY DEF NoSecret
        <4> QED BY <3>1, <4>1, GoodSignature
      <3> QED BY <2>1, <3>1, <3>2 DEF VerdictInv
    <2> QED BY <2>1 DEF SignedIsNotRefused
  <1> QED BY <1>1, InvHolds, PTL

(* A stored renewal says the amount and the status the provider sent, and  *)
(* reads neither as none.                                                  *)
THEOREM NothingIsDropped == Spec => []NothingIsReadAsNothing
  <1>1. ASSUME IInv PROVE NothingIsReadAsNothing
    <2> DEFINE Agrees(event, b) ==
          LET detail       == Part(b.data, "paymentDetail")
              subscription == Part(b.data, "subscription")
          IN /\ event.EventID.id = b.fields["id"]
             /\ detail.type # "absent" /\ ~ isNullRaw(detail.fields.amount) =>
                  event.PaymentDetail.fields.Amount = detail.fields.amount
             /\ subscription.type # "absent" /\ ~ isNullRaw(subscription.fields.status) =>
                  event.Subscription.fields.Status = subscription.fields.status
    <2>1. ASSUME NEW b, decodesEvent(b) PROVE Agrees(decodeEvent(b), b)
      <3> DEFINE detail       == Part(b.data, "paymentDetail")
                 subscription == Part(b.data, "subscription")
      <3>1. detail.type = "absent" \/ decodesPaymentDetail(detail)
        BY <2>1 DEF decodesEvent, decodesData, Part, NoObject, isNullRaw
      <3>2. subscription.type = "absent" \/ decodesSubscription(subscription)
        BY <2>1 DEF decodesEvent, decodesData, Part, NoObject, isNullRaw
      <3>3. detail.type # "absent" /\ ~ isNullRaw(detail.fields.amount) =>
              wholeOf(detail.fields.amount) = detail.fields.amount
        BY <3>1 DEF decodesPaymentDetail, readsAsWhole, wholeOf
      <3>4. subscription.type # "absent" /\ ~ isNullRaw(subscription.fields.status) =>
              optionalString(subscription.fields.status) = subscription.fields.status
        BY <3>2 DEF decodesSubscription, readsAsString, optionalString
      <3>5. detail.type # "absent" =>
              decodeEvent(b).PaymentDetail.fields.Amount = wholeOf(detail.fields.amount)
        BY DEF decodeEvent, Object
      <3>6. subscription.type # "absent" =>
              decodeEvent(b).Subscription.fields.Status
                = optionalString(subscription.fields.status)
        BY DEF decodeEvent, Object
      <3>7. decodeEvent(b).EventID.id = b.fields["id"]
        BY SubscriptionEventID
      <3> QED BY <3>3, <3>4, <3>5, <3>6, <3>7
    <2>2. ASSUME NEW event \in inbox, api = "subscription"
          PROVE  \E e \in Events : Agrees(event, body[e])
      <3>1. PICK d \in Deliveries : Readable(body[d[1]]) /\ event = EventOf(body[d[1]])
        BY <1>1 DEF IInv, StoreInv
      <3>2. decodesEvent(body[d[1]]) /\ event = decodeEvent(body[d[1]])
        BY <2>2, <3>1 DEF Readable, EventOf
      <3>3. d[1] \in Events
        BY DeliveryFacts
      <3> HIDE DEF Agrees
      <3> QED BY <2>1, <3>2, <3>3
    <2> QED BY <2>2 DEF NothingIsReadAsNothing
  <1> QED BY <1>1, InvHolds, PTL
-----------------------------------------------------------------------------
(***************************************************************************)
(* The records: what the intake comes to, seen from the merchant's store.  *)
(***************************************************************************)
(* What no record is made of.                                              *)
Skippable == {Says(b) : b \in {c \in Bodies : Unneeded(c)}}

(* What the records need beyond IInv: nothing is signed before it is sent, *)
(* whoever is about to answer has found the signature good, a body stored  *)
(* as it came says nothing that could be read, and an answer follows the   *)
(* record of what the body says.                                           *)
RecordInv(d) ==
  /\ stage[d] = "unsent" => ~ signature[d].signed
  /\ stage[d] = "answer" => verdict[d] \in SignatureHeld
  /\ verdict[d] \in {"InvalidRequest", "InvalidEvent"} => ~ Readable(carried[d])
  /\ stage[d] = "answer" => Says(body[d[1]]) \in Recorded \cup Skippable

RInv == IInv /\ \A d \in Deliveries : RecordInv(d)

LEMMA UnreadVerdicts ==
  ASSUME NEW d, outcome(d) \in {"InvalidRequest", "InvalidEvent"}
  PROVE  ~ Readable(carried[d])
  <1>1. CASE api = "payment"
    BY <1>1 DEF outcome, VerifyWebhook, ReadVerified, Readable
  <1>2. CASE api # "payment"
    BY <1>2 DEF outcome, Verify, Readable
  <1> QED BY <1>1, <1>2

(* Once sent, an attempt is not unsent again. *)
LEMMA UnsentStep ==
  ASSUME TypeOK, Next, NEW d \in Deliveries, stage'[d] = "unsent"
  PROVE  stage[d] = "unsent" /\ signature'[d] = signature[d]
  <1>0. stage \in [Deliveries -> Stages] /\ signature \in [Deliveries -> Signatures]
    BY DEF TypeOK
  <1>1. ASSUME NEW e \in Deliveries, Notify(e)
        PROVE  stage[d] = "unsent" /\ signature'[d] = signature[d]
    <2>1. stage' = [stage EXCEPT ![e] = "wire"]
      BY <1>1 DEF Notify, To
    <2>2. d # e /\ stage'[d] = stage[d]
      BY <1>0, <2>1
    <2>3. signature'[d] = signature[d]
      BY <1>0, <1>1, <2>2 DEF Notify
    <2> QED BY <2>2, <2>3
  <1>2. ASSUME NEW e \in Deliveries, NEW to \in Stages \ {"unsent"},
               stage' = [stage EXCEPT ![e] = to], UNCHANGED signature
        PROVE  stage[d] = "unsent" /\ signature'[d] = signature[d]
    BY <1>0, <1>2
  <1>3. ASSUME NEW e \in Deliveries, Handle(e) \/ Lose(e) \/ KeepFails(e)
        PROVE  stage[d] = "unsent" /\ signature'[d] = signature[d]
    <2>1. \E to \in Stages \ {"unsent"} : stage' = [stage EXCEPT ![e] = to]
      BY <1>3 DEF Handle, Check, Keep, WriteAck, Lose, KeepFails, To, Stages
    <2>2. UNCHANGED signature
      BY <1>3 DEF Handle, Check, Keep, WriteAck, Lose, KeepFails, wireVars
    <2> QED BY <1>2, <2>1, <2>2
  <1>4. ASSUME UNCHANGED <<stage, signature>>
        PROVE  stage[d] = "unsent" /\ signature'[d] = signature[d]
    BY <1>4
  <1>5. ASSUME Restart PROVE stage[d] = "unsent" /\ signature'[d] = signature[d]
    BY <1>0, <1>5 DEF Restart, wireVars
  <1> QED
    BY <1>1, <1>3, <1>4, <1>5
    DEF Next, Handle, Reencode, GenerateSecret, Tick, Crash, Configure, wireVars

(* What was said of an event that can be read is what the event says.      *)
LEMMA SaysAsRead ==
  ASSUME NEW b, b.api = api
  PROVE  /\ Readable(b) => Says(b) = [EventOf(b) EXCEPT !.EventID = Null]
         /\ ~ Readable(b) => Says(b) = b
         /\ Unneeded(b) <=> Readable(b) /\ Skipped(b)
BY DEF Says, Readable, EventOf, Unneeded, Skipped, Unreadable, Known

(* A handler that stores leaves what the body says in the records. *)
LEMMA RecordsGrow ==
  ASSUME IInv, Next
  PROVE  Recorded \subseteq Recorded'
  <1>1. inbox \subseteq inbox' /\ unreadable \subseteq unreadable'
    BY KeepFacts, StoreOnlyKeeps DEF storeVars
  <1> QED BY <1>1 DEF Recorded

LEMMA KeepRecords ==
  ASSUME RInv, NEW d \in Deliveries, Keep(d)
  PROVE  Says(carried[d]) \in Recorded'
  <1>1. verdict[d] \in SignatureHeld /\ carried[d].api = api
        /\ (verdict[d] = "verified" => Readable(carried[d]))
    BY KeepFacts, ReadsWhatWasSaid DEF RInv
  <1>2. CASE verdict[d] = "verified"
    <2>1. EventOf(carried[d]) \in inbox'
      BY <1>2, KeepStores DEF RInv
    <2>2. Says(carried[d]) = [EventOf(carried[d]) EXCEPT !.EventID = Null]
      BY <1>1, <1>2, SaysAsRead
    <2> QED BY <2>1, <2>2 DEF Recorded
  <1>3. CASE verdict[d] # "verified"
    <2>1. carried[d] \in unreadable'
      BY <1>3, KeepFacts DEF RInv
    <2>2. ~ Readable(carried[d])
      BY <1>1, <1>3 DEF RInv, RecordInv, SignatureHeld
    <2>3. Says(carried[d]) = carried[d]
      BY <1>1, <2>2, SaysAsRead
    <2> QED BY <2>1, <2>3 DEF Recorded
  <1> QED BY <1>2, <1>3

LEMMA RecordStep ==
  ASSUME RInv, Next, NEW d \in Deliveries
  PROVE  RecordInv(d)'
  <1>0. /\ TypeOK /\ VerdictInv(d) /\ RecordInv(d)
        /\ UNCHANGED <<api, body>>
    BY SettingStep DEF setting, RInv, IInv
  <1>1. stage'[d] = "unsent" => ~ signature'[d].signed
    BY <1>0, UnsentStep DEF RecordInv
  <1>2. CASE Rests(d)
    <2>1. stage'[d] = "answer" => verdict[d] \in SignatureHeld
      <3>1. Keep(d) => verdict[d] \in SignatureHeld
        BY DEF Keep, SignatureHeld
      <3> QED BY <1>0, <1>2, <3>1 DEF Rests, RecordInv
    <2>2. stage'[d] = "answer" => Says(body[d[1]]) \in Recorded' \cup Skippable
      <3>1. CASE stage[d] = "answer"
        BY <1>0, <3>1, RecordsGrow DEF RecordInv, RInv
      <3>2. CASE Keep(d)
        <4>1. carried[d] = body[d[1]]
          BY <3>2, KeepFacts, ReadsWhatWasSaid DEF RInv
        <4> QED BY <3>2, <4>1, KeepRecords
      <3> QED BY <1>2, <3>1, <3>2 DEF Rests
    <2>3. ~ Readable(carried[d]) => ~ Readable(carried[d])'
      BY <1>0, <1>2 DEF Rests, Readable
    <2> QED BY <1>0, <1>1, <1>2, <2>1, <2>2, <2>3 DEF Rests, RecordInv
  <1>3. CASE Waits(d)
    <2>1. verdict'[d] = "none" /\ stage'[d] # "answer"
      BY <1>0, <1>3 DEF Waits, VerdictInv
    <2> QED BY <1>1, <2>1 DEF RecordInv
  <1>4. CASE Check(d)
    <2>1. /\ UNCHANGED carried /\ verdict'[d] = outcome(d)
          /\ stage'[d] = "answer" => outcome(d) = "verified" /\ Skipped(carried[d])
      BY <1>0, <1>4 DEF Check, To, TypeOK, wireVars
    <2>2. outcome(d) = "verified" /\ Skipped(carried[d]) => Says(body[d[1]]) \in Skippable
      <3> SUFFICES ASSUME outcome(d) = "verified", Skipped(carried[d])
                   PROVE  Says(body[d[1]]) \in Skippable
        OBVIOUS
      <3>1. carried[d] = body[d[1]] /\ Readable(carried[d])
        BY Outcomes DEF RInv, SignatureHeld
      <3>2. carried[d] \in Bodies /\ carried[d].api = api
        BY <3>1, DeliveryFacts DEF RInv, IInv, TypeOK, BodyInv
      <3> QED BY <3>1, <3>2, SaysAsRead DEF Skippable
    <2>3. outcome(d) \in {"InvalidRequest", "InvalidEvent"} => ~ Readable(carried[d])'
      BY <1>0, <2>1, UnreadVerdicts DEF Readable
    <2>4. stage'[d] = "answer" => verdict'[d] \in SignatureHeld
      BY <2>1 DEF SignatureHeld
    <2> QED BY <1>0, <1>1, <2>1, <2>2, <2>3, <2>4 DEF RecordInv
  <1> QED BY <1>0, <1>2, <1>3, <1>4, Moves

LEMMA RecordsHold == Spec => []RInv
  <1>1. Init => RInv
    <2> SUFFICES ASSUME Init PROVE RInv
      OBVIOUS
    <2>1. ASSUME NEW d \in Deliveries PROVE RecordInv(d)
      BY DEF Init, RecordInv, NoSignature
    <2> QED BY <2>1, InitInv DEF RInv
  <1>2. RInv /\ [Next]_intakeVars => RInv'
    <2>1. ASSUME RInv, Next PROVE RInv'
      <3>1. IInv'
        BY <2>1, NextInv DEF RInv
      <3> QED BY <2>1, <3>1, RecordStep DEF RInv
    <2>2. ASSUME RInv, UNCHANGED intakeVars PROVE RInv'
      <3>1. IInv'
        BY <2>2, NextInv DEF RInv
      <3>2. ASSUME NEW d \in Deliveries PROVE RecordInv(d)'
        <4>1. /\ UNCHANGED <<api, body, stage, signature, verdict, carried, inbox, unreadable>>
              /\ RecordInv(d)
          BY <2>2 DEF RInv, intakeVars, providerVars, setting, wireVars, readVars, storeVars
        <4>2. Recorded' = Recorded /\ (Readable(carried[d])' <=> Readable(carried[d]))
          BY <4>1 DEF Recorded, Readable
        <4> QED BY <4>1, <4>2 DEF RecordInv
      <3> QED BY <3>1, <3>2 DEF RInv
    <2> QED BY <2>1, <2>2
  <1> QED BY <1>1, <1>2, PTL DEF Spec

(* A handler that found the signature good handles what was said.          *)
LEMMA HeldIsSaid ==
  ASSUME RInv, NEW d \in Deliveries, verdict[d] \in SignatureHeld
  PROVE  /\ Says(body[d[1]]) \in Said /\ carried[d] = body[d[1]]
         /\ body[d[1]] \in Bodies /\ body[d[1]].api = api
  <1>1. /\ Supports(d, carried[d]) /\ carried[d] = body[d[1]]
        /\ carried[d] \in Bodies /\ carried[d].api = api
    BY ReadsWhatWasSaid DEF RInv
  <1>2. signature[d].signed
    <2>1. signature[d] = NoSignature => signature[d].v1 = <<>>
      BY DEF NoSignature
    <2>2. signature[d].signed \/ signature[d] = NoSignature
      BY DEF RInv, IInv, TypeOK, Signatures
    <2> QED BY <1>1, <2>1, <2>2 DEF Supports, Signs
  <1> QED BY <1>1, <1>2 DEF Said

LEMMA SayingStep ==
  ASSUME RInv, NEW d \in Deliveries, Notify(d), Next
  PROVE  [Records!RecordsNext]_(Records!records)
  <1>1. /\ UNCHANGED <<body, told, inbox, unreadable>> /\ stage[d] = "unsent"
        /\ \A e \in Deliveries : e # d => signature'[e] = signature[e]
    BY DEF Notify, To, providerVars, setting, storeVars, RInv, IInv, TypeOK
  <1>2. Recorded' = Recorded /\ Answered' = Answered
    BY <1>1 DEF Recorded, Answered
  <1>3. ~ signature[d].signed
    BY <1>1 DEF RInv, RecordInv
  <1>4. CASE ~ signature'[d].signed
    <2>1. \A e \in Deliveries : signature'[e].signed = signature[e].signed \/
                                (~ signature'[e].signed /\ ~ signature[e].signed)
      BY <1>1, <1>3, <1>4
    <2>2. {e \in Deliveries : signature[e].signed}' = {e \in Deliveries : signature[e].signed}
      BY <2>1
    <2>3. Said' = Said
      BY <1>1, <2>2 DEF Said
    <2> QED BY <1>2, <2>3 DEF Records!records
  <1>5. CASE signature'[d].signed
    <2>1. {e \in Deliveries : signature[e].signed}'
            = {e \in Deliveries : signature[e].signed} \cup {d}
      BY <1>1, <1>5
    <2>2. Said' = Said \cup {Says(body[d[1]])}
      BY <1>1, <2>1 DEF Said
    <2>3. body[d[1]] \in Bodies
      BY DeliveryFacts DEF RInv, IInv, TypeOK
    <2> QED BY <1>2, <2>2, <2>3 DEF Records!RecordsNext, Records!Say
  <1> QED BY <1>4, <1>5

LEMMA RecordingStep ==
  ASSUME RInv, NEW d \in Deliveries, Keep(d), Next
  PROVE  [Records!RecordsNext]_(Records!records)
  <1> DEFINE event == EventOf(carried[d])
             x == Says(body[d[1]])
  <1>1. /\ verdict[d] \in SignatureHeld
        /\ \/ /\ verdict[d] = "verified" /\ unreadable' = unreadable
              /\ inbox' = inbox \/ inbox' = inbox \cup {event}
           \/ /\ verdict[d] # "verified" /\ inbox' = inbox
              /\ unreadable' = unreadable \cup {carried[d]}
    BY KeepFacts DEF RInv
  <1>2. /\ x \in Said /\ carried[d] = body[d[1]] /\ carried[d] \in Bodies /\ carried[d].api = api
    BY <1>1, HeldIsSaid
  <1>3. /\ verdict[d] = "verified" => x = [event EXCEPT !.EventID = Null]
        /\ verdict[d] # "verified" => x = carried[d]
    <2>1. verdict[d] = "verified" => Readable(carried[d])
      BY <1>1, ReadsWhatWasSaid DEF RInv
    <2>2. verdict[d] # "verified" => ~ Readable(carried[d])
      BY <1>1 DEF RInv, RecordInv, SignatureHeld
    <2> QED BY <1>2, <2>1, <2>2, SaysAsRead
  <1>4. Said' = Said /\ Answered' = Answered
    BY DEF Keep, Said, Answered, providerVars, setting, wireVars
  <1> HIDE DEF event, x
  <1>5. Recorded' = Recorded \/ Recorded' = Recorded \cup {x}
    BY <1>1, <1>3 DEF Recorded
  <1>6. x \in {Says(b) : b \in Bodies}
    BY <1>2 DEF x
  <1> QED BY <1>2, <1>4, <1>5, <1>6 DEF Records!RecordsNext, Records!Record, Records!records

LEMMA AnsweringStep ==
  ASSUME RInv, NEW d \in Deliveries, WriteAck(d), Next
  PROVE  [Records!RecordsNext]_(Records!records)
  <1> DEFINE b == body[d[1]]
             x == Says(b)
  <1>1. Said' = Said /\ Recorded' = Recorded
    BY DEF WriteAck, Said, Recorded, setting, wireVars, storeVars
  <1>2. Answered' = Answered \cup {x}
    BY DEF WriteAck, Answered, setting
  <1>3. stage[d] = "answer" /\ verdict[d] \in SignatureHeld
    BY DEF WriteAck, To, RInv, RecordInv
  <1>4. x \in Said /\ b \in Bodies /\ b.api = api
    BY <1>3, HeldIsSaid
  <1>6. x \in Recorded \cup {Says(c) : c \in {c \in Bodies : Unneeded(c)}}
    BY <1>3 DEF RInv, RecordInv, Skippable
  <1>7. x \in {Says(c) : c \in Bodies}
    BY <1>4
  <1> HIDE DEF x
  <1> QED BY <1>1, <1>2, <1>4, <1>6, <1>7 DEF Records!RecordsNext, Records!Answer

LEMMA OtherSteps ==
  ASSUME Next, \A d \in Deliveries : ~ Notify(d) /\ ~ Keep(d) /\ ~ WriteAck(d)
  PROVE  UNCHANGED Records!records
  <1>1. UNCHANGED <<body, signature, told, inbox, unreadable>>
    BY DEF Next, Handle, Check, Lose, KeepFails, Reencode, GenerateSecret, Tick, Crash, Configure,
           Restart, providerVars, setting, wireVars, storeVars
  <1> QED BY <1>1 DEF Records!records, Said, Recorded, Answered

(* All deliveries, handlers, crashes and rotations together keep records:  *)
(* what is recorded was said and stays, and what is answered was recorded  *)
(* before or needs no record.                                              *)
THEOREM IntakeKeepsRecords == Spec => RecordsAreKept
  <1>1. Init => Records!RecordsInit
    BY DEF Init, Records!RecordsInit, Said, Recorded, Answered, NoSignature
  <1>2. RInv /\ [Next]_intakeVars => [Records!RecordsNext]_(Records!records)
    <2>1. ASSUME RInv, Next PROVE [Records!RecordsNext]_(Records!records)
      <3>1. CASE \E d \in Deliveries : Notify(d) \/ Keep(d) \/ WriteAck(d)
        BY <2>1, <3>1, SayingStep, RecordingStep, AnsweringStep
      <3>2. CASE \A d \in Deliveries : ~ Notify(d) /\ ~ Keep(d) /\ ~ WriteAck(d)
        BY <2>1, <3>2, OtherSteps
      <3> QED BY <3>1, <3>2
    <2>2. ASSUME UNCHANGED intakeVars PROVE UNCHANGED Records!records
      BY <2>2 DEF intakeVars, providerVars, setting, wireVars, storeVars, Records!records,
                  Said, Recorded, Answered
    <2> QED BY <2>1, <2>2
  <1> QED BY <1>1, <1>2, RecordsHold, PTL DEF Spec, RecordsAreKept, Records!RecordsSpec
=============================================================================
