# Verification of oen-go

TLA+ modules, TLC configurations and TLAPS proofs for `oen-go`, the Go client
of Oen's Payment API and Subscription API, and for `oentest`, the fake provider
it ships. Paths below are relative to the repository.

The question behind the project is the one the package is written around: **a
write to a payment provider must not be repeated by accident, must not be
reported as refused when it may have happened, and must not be reported as done
when it did not** -- over a network that loses and delays, against gateways
that answer in the provider's place, and with many callers at once.

## 1. The system

| Part | State it keeps | Operations | Talks to |
|---|---|---|---|
| Payment API client (`client.go`, `charge.go`, `refund.go`, `query.go`, `checkout.go`, `store.go`) | none between calls; per call a context with a deadline | `do`: one request, one verdict | `net/http`, the provider |
| Error classification (`errors.go`, `codes.go`, `wire.go`) | none | `classify`, `providerError`, `LookupCode`, `Is…` | called by `do` |
| Payment webhooks (`webhook.go`) | none; the receiver keeps events by event ID | `VerifyWebhook`, `ParseWebhook`, `WriteAck` | the merchant's HTTP handler, called by the provider |
| Subscription webhooks (`subscription/webhook.go`) | none; the same | `Verify`, `VerifySignature` with two secrets during a rotation | the same |
| Subscription API client (`subscription/`) | none between calls; the caller keeps an Idempotency-Key | `do`, `classify`, `LookupErrno`, `RetryableWithSameKey`, `keyedWrite` | `net/http`, the provider |
| Fake (`oentest/server.go`) | request log, scripted responses, blocked endpoints, two transaction indexes, subscriptions, the `closed` channel | one goroutine per request (`serve`), and the test program's `QueueResponse`, `Hang`, `Unhang`, `Close`, … | the client over HTTP |
| Helpers (`internal/httpx`, `validate.go`, `sanitize.go`, `config.go`, `types.go`) | none | `ReadLimited`, `ParseRetryAfter`, `validateItems`, redaction, defaults | the above |

What is hard in it: a deadline that races an answer; connections that fail
after the request left; `net/http`'s own replay of a request; bodies that end
early or never; responses that are not the provider's; two critical sections
where one would be expected; `Close` against handlers that hang; notifications
that come twice, late, or in the wrong order to a receiver that crashes;
integers from outside at the edge of their width. `PROJECT.json` lists each of
these under `hazards`, at its line, with the property that watches it.

## 2. Modules

```
PaymentErrors ──┬── CallOutcome ──────────── CallOutcomeProofs
                ├── OenServer ─┬──────────── OenServerProofs ──┐
                │              └── PaymentSystem ──────────────┴── PaymentSystemProofs
                └── KeyedCharges ─────────── KeyedChargesProofs
SubscriptionErrors ── KeyedWrites ────────── KeyedWritesProofs
ChargeLedger  <= implemented by PaymentSystem, KeyedCharges and KeyedWrites
EventRecords  <= implemented by WebhookIntake
WebhookEvents ── SubscriptionEvents ── WebhookIntake ── WebhookIntakeProofs
EventText ────────────────────────────────── EventTextProofs ──┐
CardNumbers ── ResponseDecoding, Redaction ────────────────────┤
ClientArithmetic ──────────────────────────────────────────────┴── ConversionProofs
                                          (the conversions together: MCConversions)
MC<module>: the instance TLC checks; MCFake: OenServer as a test program uses it
```

**`PaymentErrors`** is `errors.go`, `codes.go` and the envelope's code of
`wire.go`, as operators: the code catalog by family, `providerError`,
`classify`, and `respond`, which is `do` from the moment the headers are there.
A code is a letter and the rest of its text, so that spellings and families can
be told apart; a body is readable or not, JSON or not, and its code field a
JSON value of some type.

**`CallOutcome`** puts every response in front of `respond`: one state machine
with one step.

**`OenServer`** is `oentest/server.go`: one process per request, `pc` for the
place in `serve`, and one action per critical section of `Server.mu` or step
outside it, so that the interleavings are those of the goroutines. `Receive`
is the first section of `serve`; `nextResponse`, `defaultResponse` (one action
per operation of the switch), `CheckBlock`, `Hijack`, `HangEnds` and
`writeResponse` follow. `subscribe` takes two sections and therefore two
actions (`newSubscription`, `recordCharge`); a listing takes its page token in
a section of its own (`listResponse`). `Close` is three steps: signal, shut the
listener, return when no connection is left that has not been hijacked.

**`PaymentSystem`** puts the client in front of that server: `RefuseLocally`,
`Send`, `ReceiveHeaders`, `ReadBody`, `bodyFailure` and `transportFailure` are
the ways through `do`; `Replay` is `net/http`'s rule for a reused connection
that failed (`isReplayable`), which the cleared `GetBody` of `client.go:102`
makes false for every request with a body; `Arrive` delivers an attempt
whenever it does, also after its call returned, and cut off in the middle if
the client has left. Each attempt has a handler of its own in `OenServer`.

**`ChargeLedger`** is the abstract specification: what has been told to the
caller of a write, and which writes have taken effect. `PaymentSystem` maps its
state to it with `INSTANCE … WITH` (`Told`, `Effective`) and implements it.

**`KeyedCharges`** is a charge of `charge.go` under an Idempotency-Key: the
classification of `PaymentErrors`, and around it a caller that stores its key
before the first request and follows `doc.go:17-33` and the `Action` texts of
`codes.go` -- resend under the same key within its 24 hours, query after an
unknown outcome, a new key only when the old one is settled -- and that may
crash and then build another request than it sent. The provider keeps a key's
first result, tells a request with another body so (`I0001`), answers one that
is still worked on `I0002` and one it cannot decide `I0003` or `C026`, and
forgets the key after a day. It implements `ChargeLedger` as well: all calls
and keys of an order are one write.

**`SubscriptionErrors`** is the errno table (47 entries, in rows by status and
kind) and `classify` of package `subscription`; **`KeyedWrites`** is a refund
through `keyedWrite` and `do`, sent by a caller that follows
`RetryableWithSameKey` and the advice of `subscriptions.go:84-88`, to a
provider that keeps the result of a key's first request, with a gateway and a
network in between. It implements `ChargeLedger` too: all calls and keys of a
refund are one write, done when its caller is told so or finds out, refused
when the caller stops on an answer that no call under the same key put in
doubt, and unknown when one did (`Told`).

**`WebhookEvents`** is `webhook.go`: `ParseWebhook` as a predicate on bodies
and an event made of one, the identity of `webhookEventID`, and
`VerifyWebhook`. **`SubscriptionEvents`** is `subscription/webhook.go` with the
optional values of `subscription/types.go` it reads. **`WebhookIntake`** is the
path of a notification of either API: a provider that sends an event again
until it sees a 2xx and replaces its signing secret meanwhile, a network that
loses, delays and re-encodes, and the receiver of `README.md:72-104` with a
store that survives its crashes, any number of deliveries being handled at
once. The Payment API signs with its present secret; the Subscription API, for
a while after a rotation, with both (`InForce`, `SigningOrders`).

**`EventRecords`** is the abstract specification of that path: what was said
under a signature, what is recorded and what was answered. Nothing unsaid is
recorded or answered, an answer follows the record, and a record is never taken
back. `WebhookIntake` maps deliveries, verdicts and the store to it (`Said`,
`Recorded`, `Answered`) and implements it. A notification is what it says, its
event ID aside (`Says`): two events that say the same are one record. A payment
of a purpose the client does not know needs none (`Unneeded`), since
`README.md:72-104` has the receiver skip it.

Four modules are conversions, each a machine of few steps from an input to
what is made of it:

* **`ClientArithmetic`**: `validateItems`, its caller's check of the amount, and
  `ParseRetryAfter`, on two's complement integers of any width.
* **`EventText`**: the text that `webhookEventID` digests (`appendJSNumber`,
  `appendJSStringToken`), with digits and UTF-16 code units as sequences.
* **`ResponseDecoding`**: `query.go`, `types.go`, `store.go`, `charge.go` and
  `subscription/types.go` from the data of a successful response to the result
  of a call. A JSON value is its type and what it holds. A transaction is
  sanitized before it is decoded (`types.go:315`), which can make a text of a
  `paymentInfo` that was a number and an unreadable time of one that was
  readable (`sanitizedInfo`). `listResources` stops at the first list key that
  is there (`listUnder`), also when it is null.
* **`Redaction`**: `sanitize.go`. A payload is a function from paths to nodes, so
  that what `sanitizeNode` hands from level to level is a function of the path
  it is called for; each map is ranged over in an order of its own, which is an
  input.

What `sanitize.go` makes of one value is in **`CardNumbers`**, which the last
two share: what a card number looks like, what is kept of one, and what one key
says of a payment's method.

### What is abstracted

* Card data, amounts, names, dates, messages, headers other than those a
  decision reads, and logging. Where one of them can make a response or a
  notification unreadable, that is a Boolean of it.
* A HID is the charge count that forms its suffix; a subscription ID likewise.
* The `select` of `oentest/server.go:345-348`, for a connection that cannot be
  hijacked: `httptest` serves HTTP/1, whose response writer always can be.
* `Response.Delay` of the fake: any step may take any time anyway.
* `Requests`, `Count`, `LastRequest`, `URL` and the other read-only accessors
  of the fake: they change nothing. The request log they read is kept.
* Waiting for headers: a deadline, a cancelled context and a failed connection
  are one outcome to a caller (`transportFailure`).
* A digest (event ID, HMAC) is taken to be one to one. That its text is one to
  one in the values is what `EventText` is about.
* In `ResponseDecoding` a time is readable or not and fields that are only
  copied are left out; `createdAt` and `paidAt` stand for the times of a
  transaction, which are read alike. Of what is sanitized the `paymentInfo` is
  followed, with every field of one level; deeper values of it are not decoded,
  and all other decoded fields stand above it under keys that `sanitize.go`
  leaves alone.
* In `CardNumbers` and `Redaction` a key stands for its spellings, and a text is
  a card number, plain or in groups, what is kept of one, or another long text.
  Luhn's check is what makes it the first.
* In `KeyedCharges` a tick is hours and a request is received or lost within
  one. What a query shows is the provider's state.
* In `WebhookIntake` a string is its trimmed text and whether it was padded,
  because `ParseWebhook` returns trimmed values and digests untrimmed ones.
* `KeyedWrites` keeps `callCtx`'s deadline and a failed connection apart only
  where `net/http` does: the latter may be replayed.

History variables (`before`, `changed`, `scripted`, `after`, `readAt`,
`readWith`, `doubted`, `refunded`) record what properties speak of; no action's
guard reads one, but for `scripted` and `MaxScript`, which bound a run.

## 3. Runs

| Run | Question | Instance |
|---|---|---|
| `outcome` | Does any response get a verdict its evidence does not carry? | every documented code in both spellings and four codes outside the catalog, the statuses at both ends of each class, every body shape |
| `fake` | Do concurrent requests leave the fake consistent, do later ones see earlier ones, and is each scripted response served once and in order? | three requests of nine kinds, two of four others; and two requests beside a test program that queues two responses under three endpoints |
| `fake_close` | Does `Close` end every hang? | two requests, hangs set and lifted, disconnects |
| `payments` | Does the client keep the ledger's promises? | two callers, two attempts each, one scripted response of four kinds |
| `payments_live` | Does every call return? | one caller, everything the test program can do |
| `keyed_charges` | Is an order paid once, and noticed when paid? | one order, a valid and an invalid request, two keys that live two ticks of four, three calls, two faults |
| `webhook_intake` | Is what was acknowledged kept, and what is kept authentic? | two events, three deliveries, thirteen notifications of both APIs, one secret; or one event while the secret is replaced; one fault |
| `keyed_writes` | Does following the client's advice refund once and settle? | one refund, two keys, three calls, two sendings each, two faults, all errnos |
| `conversions` | Are totals and delays exact, texts canonical, responses read as what they say, and secrets out? | see the sets of `MCConversions`: four-bit integers; numbers about every change of layout and strings of up to four spelled units; rows that differ from the usual one in up to two fields, or in their `paymentInfo` and all that is said of their method, in every wrapper, and wrappers with two lists; payloads two levels deep, their maps in every order |

What the properties of these runs say, beyond the type invariants (that of
`CallOutcome`, a machine of one step, is left to its proof):

* `SettledRefusalNeedsEvidence`, `SuccessNeedsEvidence`: an error the caller
  may act on by paying again rests on a documented refusal below HTTP 500; a
  success on a readable `S0000`. `CatalogAgrees`: the two tables written by
  hand, `codes.go` and the switch of `providerError`, do not contradict each
  other.
* `IndexesAgree`, `SubscriptionHasItsCharge`, `ReadsSeeEarlierWrites`: the
  fake's map and its per-order index describe the same transactions; what a
  finished request did is seen by every request that began later.
* `ScriptServedOnceInOrder`, `CloseReleasesEveryHandler`.
* `ChargedOnce`, `PaymentIsNoticed` (a caller neither takes the refusal of one
  request for the end of a paid order nor gives up on it), and
  `OrderIsOneWrite`, the refinement.
* `SettledRefusalHasNoEffect`, `ConfirmedWriteIsRecorded`,
  `WriteTakesEffectOnce`, `ReconciliationFindsConfirmedCharges`, and `LedgerKept`, the refinement.
* `EveryCallReturns`: with nothing assumed of provider and network.
* `AnsweredEventIsKept`, `RecordsAreAuthentic`, `TokensComeFromBindings`,
  `SignedIsNotRefused` (in a rotation too), `NothingIsReadAsNothing`,
  `RecordsAreKept` (the refinement of `EventRecords`), and
  `EveryEventIsAnswered` once faults stop.
* `RefundedOnce`, `OneRequestPerDecision`, `KindsAreDocumented`,
  `RefundIsOneWrite` (the refinement), and `EveryRefundIsSettled`.
* `AcceptsExactTotals`, `DelaysAreHonoured`: against whole numbers.
  `TextIsJavaScripts`: the text, read again, is the number or the string that
  was spelled, in JavaScript's shortest form. `NothingIsMistakenForNothing`:
  a list has every element that was sent under the first known list key and is
  empty only in the shapes `query.go:185-191` names; a zero amount and a
  missing page token are read only where zero or none was sent; a payment's
  text is the reference that was sent or no card number. Where a page holds
  several list keys the others are not looked at: `{"transactions": null,
  "items": [x]}` is an empty page, since a known key that is null means nothing
  there, whatever is beside it. `NothingSecretSurvives` and
  `ReferencesSurvive`: what has to go from a payload goes, nothing else does.

Each of them is broken by a slip of the kind its comment names: the operators
whose names end in `_` and a word (`getBody_kept`, `HangEnds_contextOnly`, …)
are such slips, next to the definition they would replace. No specification
uses them.

### Bounds, and why they are enough

* *Requests and callers.* The fake's hazards are between two handlers; the
  third lets two writers race a reader. A call's promises concern it and one
  other caller, which pays, refunds or reconciles.
* *Attempts* (`MaxAttempts`, `MaxSends` = 2). One replay is what tells a
  request sent once from one sent again.
* *Charges and subscriptions* (`MaxCharges`, `MaxSubs`). As many as requests
  may make, except in `payments`: an action that would exceed them waits.
* *Scripted responses* (`MaxScript`). One shows every effect on a caller; two
  show order.
* *`MaxFaults`, `MaxCalls`, `MaxKeys`, `MaxTime`.* Two faults on a refund lose
  an answer and the answer of its resend; two keys allow the step from one to
  the next, the only way to refund twice; a tick separates "in time" from
  "late" at tolerance zero; the receiver's clock may be right or one tick slow.
  Two secrets are the least a rotation needs; it is followed with one event,
  since a signature is verified for each delivery alone. A key that lives two
  ticks of four can be used within its life, at its end and after it.
* *Sets of inputs.* `MCBodies`, `MCGarbled`, `MCRefusals`, `MCScripts` hold one
  member of each class the code tells apart, and are commented.
* `payments`, `fake` and `webhook_intake` run with initial states or a
  next-state relation restricted to the question (who may pay, when scripting
  happens, which two events go together); the restriction is stated in the MC
  module, and the proofs of section 5 are about the unrestricted
  specification. Symmetry is used for `Handlers` in the two
  runs that check invariants only.

### Deadlock

All runs have `CHECK_DEADLOCK FALSE`: the models are of finitely many calls,
requests or notifications, and a behaviour ends when they have been dealt with.
That nothing is left waiting is stated where it matters, as liveness.

### Fairness

* `OenServer`: weak fairness of each handler (the Go scheduler runs a runnable
  goroutine; no handler waits on another) and of the steps of `Close` after the
  first. Nothing makes the test program or a client act.
* `PaymentSystem`: weak fairness of `Deadline` alone, the timer of
  `context.WithTimeout`, which fires whatever else happens. It is enabled from
  `Send` until the call returns.
* `KeyedWrites`: the caller goes on, a call returns by its deadline, the
  provider answers what it has received and settles what it has started. No
  fairness for the network.
* `KeyedCharges`: the caller decides and a call returns, by its deadline if by
  nothing else. None for network and provider: `PaymentIsNoticed` speaks of
  payments that were made.
* `WebhookIntake`: the provider sends its next attempt, and the receiver's
  handlers run. `EveryEventIsAnswered` asks only that one attempt be left
  after the last fault.

## 4. Where code and words disagree

Each of these is a run whose property states the words, and which TLC finds
violated.

* `outcome_boolean`: a JSON boolean in the code field counts as a provider
  code. `{"code": true}` on HTTP 400 reads as a code of the family `T`, a
  decline, although `README.md:440` calls a response without a usable code an
  unknown outcome.
* `fake_hang`: `oentest/server.go:49-52` calls `RecordCharge` the only way to a
  charge its caller was never told about. A charge on an endpoint that `Hang`
  blocks is recorded before the block is looked at, and is another.
* `payments_once`: `client.go:80` says that `do` never sends a second request.
  `net/http` replays a `GET` on a reused connection that fails. It does no harm
  to the ledger, as `payments` and the proofs show: writes are never replayed.

## 5. Proofs

The proofs hold for any number of callers, attempts, handlers, orders, refunds,
keys, deliveries and scripted responses, from the assumptions named in the
modules. TLC evaluates each assumption in a run. The notable ones:

* `ScriptsAssumption` (`PaymentSystem`): no script claims a refusal for a charge
  it records, and none carries data of its own. Without it the fake can be told
  to lie, and no client could keep a promise.
* `AnswersAssumption` (`KeyedCharges`): a decline does not say `S0000`; what the
  provider answers before it looks at a key is neither a success nor a decline;
  what a gateway answers has no code. A gateway that wrote a provider's decline
  could not be told from the provider.
* `AnswersAssumption` (`KeyedWrites`): `SA026` and `SA027`, which speak of a key,
  are never answered before it is looked at; a refusal has an error status; a
  gateway's answer has no errno and is no envelope of a success.
* `EventIDAssumption` (`WebhookIntake`): notifications that can be read and share
  an event ID say the same. This is what a receiver that deduplicates by ID
  relies on, and why `webhookEventID` digests every field it reads.
* The conversions assume of their inputs what their types say
  (`InputAssumption`, `SpellingAssumption`), that a payload has a root and that
  what holds a node is an object or an array (`PayloadAssumption`), that an
  order in which a map is ranged over has all its keys, that the empty text is
  no amount (`AmountAssumption`), and that the elements of an array are numbered
  and a null has no text (`ShapeAssumption`). No length, depth, width or
  number of digits is bounded.

* **`CallOutcomeProofs`**: `TypeCorrect`, `RefusalsAreEvidenced`,
  `SuccessesAreEvidenced`, `TablesAgree`. The properties are about one step;
  the work is in the lemmas on `respond`: `ClassifyBranches` (the order of the
  branches and their status ranges), `RefusalEvidence`, `SuccessEvidence`,
  `CatalogEvidence`.
* **`OenServerProofs`**: `TypeCorrect` and `IndexesAlwaysAgree`. `TypeOK` is
  not inductive: a handler at `record` must be known to serve a subscription
  (`RecordIsSubscribe`). `IndexInv` adds that no handler holds a HID the
  counter has not reached. Both are proved for `ServerStep`, in which anybody
  may send any request, so that the composed system can use them. The second
  half is the fake over time: a step is one handler's (`OthersAreStill`) and
  resources only grow (`TransactionsKept`, `SubscriptionsKept`).
  `SubscriptionsGetTheirCharge` needs that subscriptions are numbered without a
  gap and each is held by one handler (`SubscribersInv`). `ReadsAreConsistent`:
  refunds and cancellations stand once made, whoever is in `before` has ended,
  and an answered query sees each of them (`ReadInv`). `ScriptIsServedInOrder`:
  positions increase strictly in each queue and no position is in two
  (`ScriptInv`).
* **`PaymentSystemProofs`**: `HandlersInv` is what one handler knows: whether it
  has changed anything, that its answer does not deny it (`Unsettled`), that
  data which decodes was produced by the change it reports. `SystemInv` adds
  `CallInv` for each call:
  `AttemptInv` ties a handler to the call whose attempt it serves,
  `ProgressInv` says that more than one attempt means a read, `AnswerInv` that
  what was told agrees with what the only attempt of a write did. From it:
  `SystemTypeCorrect`, `RefusalsAreSettled`, `WritesTakeEffectOnce`,
  `ConfirmationsAreRecorded`, and `SystemImplementsLedger`: every step of the
  system is a step of `ChargeLedger` or a stutter. The heart of the last two is
  `WritesAreNotReplayed`, which rests on `getBody`, that is on one line of
  `client.go`. `ReconciliationFindsCharges` puts `ReadInv` to use: whichever
  attempt of a listing is answered, it was received after the handler of a
  charge confirmed before the listing had ended (`ReconcileInv`).

* **`KeyedChargesProofs`**: `TypeCorrect`, `OrdersAreChargedOnce`, and
  `OrdersImplementLedger`. The first lemmas say what `respond` makes of each
  answer of provider and gateway (`Verdicts` and those after it). `IInv` then
  has three parts for each order. `KeysInv`: keys before the one in use are
  `Dead` (nothing charged, nothing on the way that could be), keys after it
  `Untouched`, and a key is forgotten only when no request under it can still
  arrive. `WindowInv`, which is why that holds: a request is sent within the
  window of its key's first. `PhaseInv`: what the caller has been told is
  `TrueOf` the key, and while the key is not in doubt the call it is waiting
  for is the only request under it -- so a refusal of that request alone, which
  is all that most codes are, settles the key.
* **`KeyedWritesProofs`**: `TypeCorrect`, `MoneyMovesOnce`, `CallsAreSentOnce`,
  `TableIsKept`, `RefundsImplementLedger`. A key is left behind only after its
  refund failed; that a refusal is the last word on its key, although other
  requests may be on the way under it, needs `SoleInv`: a request of a key that
  is not in doubt is the only one. The refinement adds `LookedUpInv`, that a
  caller that stopped after a look saw its refund fail, and uses that money can
  only move under the key in use (`OnlyCurrentRefunded`): a step of a caller is
  one entry in its own row of the ledger or none (`OneEntry`, `EntryMoves`), and
  money moves only where the row says waiting or unknown (`SettleRefines`).
* **`WebhookIntakeProofs`**: all of the run's invariants, and
  `IntakeKeepsRecords`. `SignatureInv`: a
  digest is only ever over what the provider said. `VerdictInv`: a body whose
  signature held is one that a delivery supports, and the verdict on one that
  failed names what failed. `StoreInv` ties what is kept to a delivery that
  said it; `AnswerInv`: a delivery that reached `answer` has its event in the
  store, whatever crashed since. The refinement needs more (`RecordInv`): nothing
  is signed before it is sent, so that a signature appears in one step, `Notify`;
  whoever is about to answer found the signature good, so that what is answered
  was said; a body stored as it came could not be read, so that its record is
  the body; and what is about to be answered is recorded already. Then one lemma
  for each action the merchant's records see (`SayingStep`, `RecordingStep`,
  `AnsweringStep`) and one for all others (`OtherSteps`). That an event found under
  the same ID says the same (`KeepStores`) is where `EventIDAssumption` enters.

* **`EventTextProofs`**: `TextIsCanonical`, for numbers of any length and exponent
  and strings of any length. The definitions are recursive functions, which TLA+
  defines by a choice, so each is first shown to exist by exhibiting it
  (`LoopExists`, `NatSumsExist`, `TablesExist`, `RestsExist`); then it is followed
  by induction, which is `NumberInduction`: among the numbers that would be
  exceptions there would be a least one. Numbers: the decimal digits of a
  number, read, are the number (`DecimalIsRead`); taking the zeros off both ends
  keeps the value and leaves the shortest digits (`PaddedDigits`,
  `PartsAreRead`, `PartsAreShortest`); then one lemma for each of JavaScript's
  four layouts, that the text cut at its point and its exponent gives the parts
  again (`LongNumbers`, `PointedNumbers`, `SmallNumbers`, `ScientificNumbers`).
  Strings: each piece written is read as the unit it stands for, and what is
  left of the text after it is the text of the rest (`PieceIsWritten`,
  `RestsAreWritten`), from the right end to the left.
* **`ConversionProofs`**: `TotalsAreExact` and `DelaysSaturate` for every width of
  integer: as long as no check has refused a line the running sum in two's
  complement is the sum over whole numbers (`SoundLines`), and each check by a
  division or a subtraction is exact (`GuardIsExact`), so that what is refused
  does not fit (`UnsoundLines`, `SumsGrow`). `AnswersAreRead`, by the kind of
  wrapper and the first of the lists it holds (`FirstListIsFound`,
  `TheFirstListIsTaken`), and for the text of a payment by what its row says of
  the method (`PaymentTextIsRead`). `SecretsAreRedacted` and
  `ReferencesAreKept`, for payloads of any depth: what an object says of its
  method is the same in every order of its keys (`ContextIs`, `ContextIsSaid`),
  and the mask handed down to a path is that of the innermost `paymentInfo` on
  it (`MaskIs`), both by induction, along the keys and along the path; `NodeIs`
  puts the two together for one node.

Every invariant of the passing runs is proved, and so are the three refinements
of `ChargeLedger` and the one of `EventRecords`. What is only model-checked is
liveness, which is out of the prover's reach (as is `ENABLED`, on which fairness
rests): `CloseReleasesEveryHandler`, `EveryCallReturns`, `PaymentIsNoticed`,
`EveryEventIsAnswered` and `EveryRefundIsSettled`.

## 6. Not modelled

* Encoding of payloads, `checkout.go`'s URLs, and the fields that are copied as
  text: data conversion without state or a decision.
* `config.go`, `subscription/config.go`, length and character checks: defaults
  and refusals of one value at a time.
* Parsing of the signature header and of dates: a header can be read or not.
* The shortest digits of a floating-point number, which Go's `strconv` finds:
  the numbers of `EventText` are exact decimals. What is modelled is the layout.
* The unkeyed writes and the reads of the Subscription API: `keyedWrite`'s path
  without a key.
* Contract data, the integration module and scripts.

## 7. Plan

Done: every module of section 2, with the proofs of section 5.

Left, in this order:

1. Model: the other keyed writes (plan change, cancellation, resend of a
   delivery) as states of a subscription behind `KeyedWrites`, with `SA008`,
   `SA014`, `SA015`; the unkeyed writes, where an unknown outcome cannot be
   resolved by resending.
