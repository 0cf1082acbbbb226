--------------------------- MODULE WebhookIntake ---------------------------
(***************************************************************************)
(* Notifications of the Payment API or of the Subscription API on their    *)
(* way from the provider into a merchant's records.  The provider signs    *)
(* each attempt, and sends an event again when no 2xx came back; the       *)
(* network loses, delays and re-encodes; the merchant's receiver handles   *)
(* any number of deliveries at once, with the VerifyWebhook or the Verify  *)
(* of the client, keeps what they say under its event ID, and answers.     *)
(* The receiver may crash between any two of these steps; what it has      *)
(* stored survives.  The two APIs differ in how a secret is replaced.      *)
(***************************************************************************)
EXTENDS SubscriptionEvents, Sequences

CONSTANTS
  Events,        \* what the provider has to tell
  Bodies,        \* the notifications it may send
  Reencodings,   \* those something on the way may turn one into
  Deliveries,    \* the attempts it may make, as pairs of an event and a number
  MaxTime,       \* bound on the clock
  Skews,         \* how far the receiver's clock may be ahead of the provider's
  MaxSecrets,    \* bound on signing secrets generated over a run
  Overlap,       \* how long the Subscription API signs with the old one too
  MaxFaults      \* bound on lost, re-encoded and unstored deliveries and crashes

ASSUME IntakeAssumption ==
  /\ Deliveries \subseteq Events \X (Nat \ {0})
  /\ Reencodings \subseteq Bodies
  /\ MaxTime \in Nat
  /\ MaxSecrets \in Nat /\ MaxFaults \in Nat /\ Overlap \in Nat
  /\ Skews \subseteq Int

(* The OenPay-Event-Id header of a payment notification, by the rule the   *)
(* provider documents.                                                     *)
documentedID(b) == [field \in IdentityFields |-> IdentityValue(b.fields[field])]

(* An event ID names one event: readable notifications that share one say  *)
(* the same.                                                               *)
ASSUME EventIDAssumption ==
  \A b, c \in Bodies :
    /\ /\ b.api = "payment" /\ c.api = "payment"
       /\ ~ Unreadable(b) /\ ~ Unreadable(c)
       /\ documentedID(b) = documentedID(c)
       => ParsedEvent(b) = ParsedEvent(c)
    /\ /\ b.api = "subscription" /\ c.api = "subscription"
       /\ decodesEvent(b) /\ decodesEvent(c)
       /\ b.fields["id"] = c.fields["id"]
       => decodeEvent(b) = decodeEvent(c)

VARIABLES
  (* the provider *)
  api,         \* "payment" or "subscription"
  body,        \* of each event
  secret,      \* the signing secret, NoSecret before one is generated
  lastSecret,  \* the number of secrets that will be generated
  rotatedAt,   \* when the present one was
  clock,
  told,        \* the events it has seen a 2xx for
  idSent,      \* whether its event ID header gets through
  (* each delivery: how far it has come, and what it carries *)
  stage, carried, signature,
  (* the receiver *)
  skew, configured,   \* its clock's distance, its Config.WebhookSecret
  verdict,            \* of VerifyWebhook, for each delivery
  readAt, readWith,   \* history: the receiver's clock and secret at that time
  inbox,              \* stored events
  unreadable,         \* stored bodies the client could not read
  faults

setting      == <<api, body, lastSecret, idSent>>
providerVars == <<setting, secret, rotatedAt, clock, told>>
wireVars     == <<carried, signature>>
readVars     == <<verdict, readAt, readWith>>
storeVars    == <<inbox, unreadable>>
intakeVars   == <<providerVars, stage, wireVars, skew, configured, readVars, storeVars,
                  faults>>

Stages == {"unsent", "wire", "keep", "answer", "refused", "gone"}

To(d, from, to) == stage[d] = from /\ stage' = [stage EXCEPT ![d] = to]

Fault == faults < MaxFaults /\ faults' = faults + 1

-----------------------------------------------------------------------------
(***************************************************************************)
(* The provider.                                                           *)
(***************************************************************************)
(* The secrets it signs with: after a rotation the Subscription API goes   *)
(* on signing with the old one for a while, the Payment API does not.      *)
InForce ==
  {s \in 1..MaxSecrets :
     \/ s = secret
     \/ api = "subscription" /\ s = secret - 1 /\ clock <= rotatedAt + Overlap}

SigningOrders ==
  {order \in [1..Cardinality(InForce) -> InForce] :
     \A s \in InForce : \E i \in DOMAIN order : order[i] = s}

(* The next attempt, when no earlier one was answered 2xx. *)
Notify(d) ==
  /\ d[1] \notin told
  /\ \A earlier \in Deliveries :
       earlier[1] = d[1] /\ earlier[2] < d[2] => stage[earlier] # "unsent"
  /\ To(d, "unsent", "wire")
  /\ \/ InForce = {} /\ signature' = [signature EXCEPT ![d] = NoSignature]
     \/ \E order \in SigningOrders :
          /\ InForce # {}
          /\ signature' = [signature EXCEPT ![d] = Signature(order, clock, body[d[1]])]
  /\ UNCHANGED <<providerVars, carried, skew, configured, readVars, storeVars, faults>>

GenerateSecret ==
  /\ secret < lastSecret
  /\ secret' = secret + 1
  /\ rotatedAt' = clock
  /\ UNCHANGED <<setting, clock, told, stage, wireVars, skew, configured, readVars,
                 storeVars, faults>>

Tick ==
  /\ clock < MaxTime
  /\ clock' = clock + 1
  /\ UNCHANGED <<setting, secret, rotatedAt, told, stage, wireVars, skew, configured, readVars,
                 storeVars, faults>>

-----------------------------------------------------------------------------
(***************************************************************************)
(* The network.                                                            *)
(***************************************************************************)
(* Lost on the way there, or the answer lost on the way back. *)
Lose(d) ==
  /\ Fault
  /\ To(d, "wire", "gone") \/ To(d, "answer", "gone")
  /\ UNCHANGED <<providerVars, wireVars, skew, configured, readVars, storeVars>>

(* Something in between decodes the body and encodes it anew: what it says *)
(* is another body to a signature.                                         *)
Reencode(d, other) ==
  /\ Fault
  /\ stage[d] = "wire" /\ other # carried[d]
  /\ carried' = [carried EXCEPT ![d] = other]
  /\ UNCHANGED <<providerVars, stage, signature, skew, configured, readVars,
                 storeVars>>

-----------------------------------------------------------------------------
(***************************************************************************)
(* The receiver.                                                           *)
(***************************************************************************)
now == clock + skew

sentID(d) == IF idSent THEN documentedID(body[d[1]]) ELSE Null

outcome(d) ==
  IF api = "payment"
  THEN VerifyWebhook(carried[d], signature[d], sentID(d), configured, now)
  ELSE Verify(carried[d], signature[d], configured, now)

(* A payment purpose this version does not know is skipped; a type it does *)
(* not know is passed through.                                             *)
Skipped(b) == api = "payment" /\ ~ Known(purposeOf(b))

Readable(b) == IF api = "payment" THEN ~ Unreadable(b) ELSE decodesEvent(b)

EventOf(b) == IF api = "payment" THEN ParsedEvent(b) ELSE decodeEvent(b)

Check(d) ==
  /\ To(d, "wire",
        CASE outcome(d) \in {"InvalidSignature", "InvalidInput"} -> "refused"
          [] outcome(d) = "verified" /\ Skipped(carried[d]) -> "answer"
          [] OTHER -> "keep")
  /\ verdict' = [verdict EXCEPT ![d] = outcome(d)]
  /\ readAt' = [readAt EXCEPT ![d] = now]
  /\ readWith' = [readWith EXCEPT ![d] = configured]
  /\ UNCHANGED <<providerVars, wireVars, skew, configured, storeVars, faults>>

(* Slip: the latest notification of a transaction replaces those before. *)
Keep_latestOnly(d) ==
  LET event == EventOf(carried[d]) IN
  /\ To(d, "keep", "answer")
  /\ \/ /\ verdict[d] = "verified"
        /\ inbox' = {other \in inbox : api = "subscription" \/ other.ID # event.ID} \cup {event}
        /\ UNCHANGED unreadable
     \/ /\ verdict[d] \in {"InvalidRequest", "InvalidEvent"}
        /\ unreadable' = unreadable \cup {carried[d]}
        /\ UNCHANGED inbox
  /\ UNCHANGED <<providerVars, wireVars, skew, configured, readVars, faults>>

(* Insert under the event ID unless it is there; a body the client could   *)
(* not read is stored as it came.                                          *)
Keep(d) ==
  LET event == EventOf(carried[d])
      taken == \E other \in inbox : other.EventID = event.EventID
  IN /\ To(d, "keep", "answer")
     /\ \/ /\ verdict[d] = "verified"
           /\ inbox' = IF taken THEN inbox ELSE inbox \cup {event}
           /\ UNCHANGED unreadable
        \/ /\ verdict[d] \in {"InvalidRequest", "InvalidEvent"}
           /\ unreadable' = unreadable \cup {carried[d]}
           /\ UNCHANGED inbox
     /\ UNCHANGED <<providerVars, wireVars, skew, configured, readVars, faults>>

(* 503 when the store fails. *)
KeepFails(d) ==
  /\ Fault
  /\ To(d, "keep", "refused")
  /\ UNCHANGED <<providerVars, wireVars, skew, configured, readVars, storeVars>>

(* A 2xx ends the event; the provider takes anything else for a failure. *)
WriteAck(d) ==
  /\ To(d, "answer", "gone")
  /\ told' = told \cup {d[1]}
  /\ UNCHANGED <<setting, secret, rotatedAt, clock, wireVars, skew, configured, readVars,
                 storeVars, faults>>

(* Every request in the process is lost, and it starts with the secret it  *)
(* is configured with now.                                                 *)
Restart ==
  /\ stage' = [d \in Deliveries |->
       IF stage[d] \in {"keep", "answer"} THEN "gone" ELSE stage[d]]
  /\ configured' = secret
  /\ UNCHANGED <<providerVars, wireVars, skew, readVars, storeVars>>

Crash == Fault /\ Restart

(* A new secret is put into effect by a restart between requests. *)
Configure ==
  /\ configured # secret
  /\ \A d \in Deliveries : stage[d] \notin {"keep", "answer"}
  /\ Restart
  /\ UNCHANGED faults

-----------------------------------------------------------------------------
Init ==
  /\ api \in {"payment", "subscription"}
  /\ body \in [Events -> {b \in Bodies : b.api = api}]
  /\ lastSecret \in 1..MaxSecrets
  /\ secret = NoSecret /\ configured = NoSecret /\ rotatedAt = 0
  /\ clock = 0 /\ skew \in Skews
  /\ told = {}
  /\ idSent \in IF api = "payment" THEN BOOLEAN ELSE {FALSE}
  /\ \E due \in SUBSET Events :
       stage = [d \in Deliveries |-> IF d[1] \in due THEN "unsent" ELSE "gone"]
  /\ carried = [d \in Deliveries |-> body[d[1]]]
  /\ signature = [d \in Deliveries |-> NoSignature]
  /\ verdict = [d \in Deliveries |-> "none"]
  /\ readAt = [d \in Deliveries |-> 0]
  /\ readWith = [d \in Deliveries |-> NoSecret]
  /\ inbox = {} /\ unreadable = {}
  /\ faults = 0

Handle(d) == Check(d) \/ Keep(d) \/ WriteAck(d)

Next ==
  \/ \E d \in Deliveries : Notify(d) \/ Handle(d) \/ Lose(d) \/ KeepFails(d)
  \/ \E d \in Deliveries, other \in Reencodings : Reencode(d, other)
  \/ GenerateSecret \/ Tick \/ Crash \/ Configure

(* The provider sends until it is answered, the network delivers what it   *)
(* does not lose, and the receiver's handlers run.                         *)
Fairness ==
  /\ \A d \in Deliveries : WF_intakeVars(Notify(d)) /\ WF_intakeVars(Handle(d))

Spec == Init /\ [][Next]_intakeVars /\ Fairness

-----------------------------------------------------------------------------
Verdicts ==
  {"none", "InvalidInput", "InvalidSignature", "InvalidRequest", "InvalidEvent", "verified"}

Signatures ==
  [signed : {TRUE}, t : 0..MaxTime, v1 : Seq((1..MaxSecrets) \X (0..MaxTime) \X Bodies)]
  \cup {NoSignature}

TypeOK ==
  /\ api \in {"payment", "subscription"}
  /\ body \in [Events -> Bodies]
  /\ lastSecret \in 1..MaxSecrets /\ secret \in 0..lastSecret
  /\ configured \in 0..secret /\ rotatedAt \in 0..clock
  /\ clock \in 0..MaxTime /\ skew \in Skews
  /\ told \subseteq Events /\ idSent \in BOOLEAN
  /\ stage \in [Deliveries -> Stages]
  /\ carried \in [Deliveries -> Bodies]
  /\ signature \in [Deliveries -> Signatures]
  /\ verdict \in [Deliveries -> Verdicts]
  /\ readAt \in [Deliveries -> Int] /\ readWith \in [Deliveries -> 0..MaxSecrets]
  /\ \A d \in Deliveries :
       verdict[d] \in {"verified", "InvalidRequest", "InvalidEvent"} => readWith[d] \in 1..MaxSecrets
  /\ \A event \in inbox : \E b \in Bodies : b.api = api /\ Readable(b) /\ event = EventOf(b)
  /\ unreadable \subseteq Bodies
  /\ faults \in 0..MaxFaults

(* Everything the event says is in the records, or its body is, or its     *)
(* purpose is one to skip.                                                 *)
Kept(e) ==
  \/ Skipped(body[e]) /\ Readable(body[e])
  \/ body[e] \in unreadable
  \/ \E event \in inbox : event = [EventOf(body[e]) EXCEPT !.EventID = event.EventID]

(* The provider does not send again what was answered, so what was         *)
(* answered must not be lost -- a later outcome of a transaction, say, be  *)
(* taken for a resend of an earlier one.                                   *)
AnsweredEventIsKept == \A e \in told : Kept(e)

(* What a body says, its event ID aside: said once it is sent under a      *)
(* signature, recorded once it is stored, answered by the 2xx.             *)
Says(b) ==
  IF b.api = "payment"
  THEN IF Unreadable(b) THEN b ELSE [ParsedEvent(b) EXCEPT !.EventID = Null]
  ELSE IF decodesEvent(b) THEN [decodeEvent(b) EXCEPT !.EventID = Null] ELSE b

Unneeded(b) == b.api = "payment" /\ ~ Unreadable(b) /\ ~ Known(purposeOf(b))

Said     == {Says(body[d[1]]) : d \in {e \in Deliveries : signature[e].signed}}
Recorded == {[event EXCEPT !.EventID = Null] : event \in inbox} \cup unreadable
Answered == {Says(body[e]) : e \in told}

Records == INSTANCE EventRecords WITH
             Contents <- {Says(b) : b \in Bodies},
             Skippable <- {Says(b) : b \in {c \in Bodies : Unneeded(c)}},
             said <- Said, recorded <- Recorded, answered <- Answered

(* Deliveries, handlers, crashes, resends and rotations together do no     *)
(* more than keep records.                                                 *)
RecordsAreKept == Records!RecordsSpec

(* What is in the records, the provider said: about this merchant, with a  *)
(* secret of its own, and within the tolerance of the time it was read.    *)
Supports(d, b) ==
  /\ body[d[1]] = b /\ stage[d] # "unsent"
  /\ readWith[d] # NoSecret
  /\ Signs(signature[d], readWith[d], b)
  /\ readAt[d] - signature[d].t \in - Tolerance .. Tolerance

RecordsAreAuthentic ==
  /\ \A event \in inbox :
       \E d \in Deliveries :
         /\ event = [EventOf(body[d[1]]) EXCEPT !.EventID = event.EventID]
         /\ Supports(d, body[d[1]])
         /\ api = "payment" =>
              \/ isNullRaw(body[d[1]].fields["merchantId"])
              \/ body[d[1]].fields["merchantId"].text = MerchantID
  /\ \A b \in unreadable : \E d \in Deliveries : Supports(d, b)

(* A reusable card token is in the records only for a binding the provider *)
(* said succeeded, and a token is lost from none that did.                 *)
TokensComeFromBindings ==
  \A event \in inbox : api = "payment" =>
    ((event.Token # "") <=> (event.Purpose = "token" /\ event.HasOutcome /\ event.Success))

(* A delivery as it was sent, in time, and signed with the secret of the   *)
(* receiver -- the old one or the new one while both are in force, in      *)
(* whichever order -- is not refused; nor is one because of an event ID    *)
(* header that was computed by the rule the provider documents.            *)
SignedIsNotRefused ==
  \A d \in Deliveries :
    /\ stage[d] = "refused" /\ verdict[d] = "InvalidSignature"
    /\ carried[d] = body[d[1]]
    => \/ ~ Signs(signature[d], readWith[d], body[d[1]])
       \/ readAt[d] - signature[d].t \notin - Tolerance .. Tolerance

(* A stored event says the amount and the status its notification said:    *)
(* one that cannot be read is not taken for none.                          *)
NothingIsReadAsNothing ==
  \A event \in inbox : api = "subscription" =>
    \E e \in Events :
      LET detail       == Part(body[e].data, "paymentDetail")
          subscription == Part(body[e].data, "subscription")
      IN /\ event.EventID.id = body[e].fields["id"]
         /\ detail.type # "absent" /\ ~ isNullRaw(detail.fields.amount) =>
              event.PaymentDetail.fields.Amount = detail.fields.amount
         /\ subscription.type # "absent" /\ ~ isNullRaw(subscription.fields.status) =>
              event.Subscription.fields.Status = subscription.fields.status

(* Once nothing more goes wrong, one attempt is enough: an event whose last *)
(* attempt is unsent, or on its way as the provider sent it and in time, is *)
(* in the end answered, whatever became of the attempts before it.         *)
NothingMoreGoesWrong ==
  /\ faults = MaxFaults /\ clock = MaxTime
  /\ secret = lastSecret /\ configured \in InForce
  /\ skew \in - Tolerance .. Tolerance

OneChanceLeft(e) ==
  \E d \in Deliveries :
    /\ d[1] = e
    /\ \/ stage[d] = "unsent"
       \/ /\ stage[d] = "wire" /\ carried[d] = body[e] /\ signature[d].t = clock
          /\ \A s \in {secret, configured} : Signs(signature[d], s, body[e])

EveryEventIsAnswered ==
  \A e \in Events : NothingMoreGoesWrong /\ OneChanceLeft(e) ~> e \in told
=============================================================================
