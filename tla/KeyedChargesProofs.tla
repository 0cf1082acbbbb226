------------------------- MODULE KeyedChargesProofs -------------------------
(***************************************************************************)
(* A caller that follows the advice of the client's errors pays an order   *)
(* once, for any number of orders, keys, calls and faults: every request   *)
(* under a key is sent within the key's window and received within one     *)
(* tick, so none arrives after the key was forgotten; a key is left behind *)
(* only when nothing was charged under it and nothing can be, which a      *)
(* decline says, and any refusal does while the key had a single request.  *)
(***************************************************************************)
EXTENDS KeyedCharges, TLAPS

-----------------------------------------------------------------------------
(***************************************************************************)
(* The verdict on one response to a charge.                                *)
(***************************************************************************)
Verdict(r) == respond("POST", r)

LEMMA ProviderErrors ==
  ASSUME NEW st, NEW code
  PROVE  LET e == providerError(st, code) IN
    /\ e.kind \in Kinds /\ e # NoError /\ e.code = code
    /\ e.kind = "Declined" =>
         normalizeCode(code) = CodeRiskRejected \/ normalizeCode(code).letter = "T"
    /\ code \in {CodeIdempotencyInProgress, CodeIdempotencyUnknownOutcome,
                 CodePaymentUnknownOutcome} => IsUnknownOutcome(e)
  <1> DEFINE kind == providerKind(normalizeCode(code))
  <1>1. kind \in Kinds
    BY DEF providerKind, Kinds
  <1>2. kind = "Declined" =>
          normalizeCode(code) = CodeRiskRejected \/ normalizeCode(code).letter = "T"
    BY DEF providerKind
  <1>3. code \in {CodeIdempotencyInProgress, CodeIdempotencyUnknownOutcome,
                  CodePaymentUnknownOutcome} => kind = "UnknownOutcome"
    BY DEF providerKind, normalizeCode, Text, LowerLetters, CodeIdempotencyInProgress,
           CodeIdempotencyUnknownOutcome, CodePaymentUnknownOutcome, CodeIdempotencyConflict,
           CodeSystemError, CodeInvalidTransactionState, CodeRiskRejected
  <1> HIDE DEF kind
  <1>4. providerError(st, code) = Error(kind, st, code)
    BY DEF providerError, kind
  <1>5. Error(kind, st, code).kind = kind /\ Error(kind, st, code).code = code
    BY DEF Error
  <1>6. NoError.kind = "none" /\ "none" \notin Kinds
    BY DEF NoError, Error, Kinds
  <1> QED BY <1>1, <1>2, <1>3, <1>4, <1>5, <1>6 DEF IsUnknownOutcome, Is

LEMMA Unknowns ==
  ASSUME NEW st, NEW code
  PROVE  /\ IsUnknownOutcome(Error("UnknownOutcome", st, code))
         /\ IsUnknownOutcome(rateLimited("POST", code))
         /\ Error("UnknownOutcome", st, code).kind = "UnknownOutcome"
         /\ rateLimited("POST", code).kind = "RateLimited"
         /\ Error("UnknownOutcome", st, code) # NoError
         /\ rateLimited("POST", code) # NoError
  <1>1. Error("UnknownOutcome", st, code).kind = "UnknownOutcome"
    BY DEF Error
  <1>2. /\ rateLimited("POST", code).kind = "RateLimited"
        /\ rateLimited("POST", code).joinsUnknown
    BY DEF rateLimited, ReadMethods
  <1>3. NoError.kind = "none"
    BY DEF NoError, Error
  <1> QED BY <1>1, <1>2, <1>3 DEF IsUnknownOutcome, Is, Kinds

(* Unknown, a success that says S0000, or what the provider's code means.  *)
LEMMA Verdicts ==
  ASSUME NEW r, r.status \in Nat
  PROVE  LET code == envCode(r.body) IN
    \/ /\ IsUnknownOutcome(Verdict(r)) /\ Verdict(r) # NoError
       /\ Verdict(r).kind \in {"UnknownOutcome", "RateLimited"}
    \/ /\ r.body.read /\ normalizeCode(code) = CodeSuccess
       /\ Verdict(r) = NoError
    \/ r.body.read /\ code # NoText /\ Verdict(r) = providerError(r.status, code)
  <1> DEFINE code == envCode(r.body)
             failed == decodeErr(r.body)
  <1>1. CASE ~ r.body.read
    <2>1. Verdict(r) = unreadableBody("POST", r.status)
      BY <1>1 DEF Verdict, respond
    <2>2. r.status = 429 => classify("POST", r.status, TRUE, NoText) = rateLimited("POST", NoText)
      BY DEF classify
    <2>3. Verdict(r) \in {rateLimited("POST", NoText),
                          Error("UnknownOutcome", r.status, NoText)}
      <3>1. unreadableBody("POST", r.status)
              = IF r.status = 429 THEN classify("POST", r.status, TRUE, NoText)
                ELSE Error("UnknownOutcome", r.status, NoText)
        BY DEF unreadableBody
      <3> QED BY <2>1, <2>2, <3>1
    <2> QED BY <2>3, Unknowns
  <1>2. CASE r.body.read
    <2>1. Verdict(r) = classify("POST", r.status, failed, code)
      BY <1>2 DEF Verdict, respond
    <2>2. /\ classifyClientError(r.status, failed, code) =
               Error("UnknownOutcome", r.status, NoText)
             \/ /\ code # NoText
                /\ classifyClientError(r.status, failed, code) = providerError(r.status, code)
          /\ \/ classifySuccess(r.status, failed, code) =
                  Error("UnknownOutcome", r.status, NoText)
             \/ /\ normalizeCode(code) = CodeSuccess
                /\ classifySuccess(r.status, failed, code) = NoError
             \/ /\ code # NoText
                /\ classifySuccess(r.status, failed, code) = providerError(r.status, code)
      BY DEF classifyClientError, classifySuccess
    <2> HIDE DEF code, failed
    <2>3. \/ Verdict(r) = rateLimited("POST", code)
          \/ \E c \in {code, NoText} : Verdict(r) = Error("UnknownOutcome", r.status, c)
          \/ Verdict(r) = classifyClientError(r.status, failed, code)
          \/ Verdict(r) = classifySuccess(r.status, failed, code)
      BY <2>1 DEF classify
    <2> QED BY <1>2, <2>2, <2>3, Unknowns DEF code
  <1> QED BY <1>1, <1>2

LEMMA VerdictKinds ==
  ASSUME NEW r, r.status \in Nat
  PROVE  /\ Verdict(r).kind \in Kinds \cup {"none"}
         /\ Verdict(r).code = CodeIdempotencyInProgress => IsUnknownOutcome(Verdict(r))
  <1>1. NoError.kind = "none" /\ NoError.code = NoText /\ NoText # CodeIdempotencyInProgress
    BY DEF NoError, Error, NoText, Text, CodeIdempotencyInProgress
  <1> QED BY <1>1, Verdicts, ProviderErrors DEF Kinds

(* A gateway's answer settles nothing. *)
LEMMA GarbledVerdict ==
  ASSUME NEW g \in Garbled
  PROVE  IsUnknownOutcome(Verdict(g)) /\ Verdict(g) # NoError
  <1>1. g.status \in Nat /\ (g.body.read => envCode(g.body) = NoText)
    BY AnswersAssumption
  <1>2. normalizeCode(NoText) # CodeSuccess
    BY DEF normalizeCode, NoText, Text, CodeSuccess, LowerLetters
  <1> QED BY <1>1, <1>2, Verdicts

LEMMA RefusalVerdict ==
  ASSUME NEW r \in Refusals
  PROVE  Verdict(r) # NoError /\ Verdict(r).kind # "Declined"
  <1>1. r.status \in Nat
    BY AnswersAssumption
  <1>2. /\ normalizeCode(envCode(r.body)) \notin {CodeSuccess, CodeRiskRejected}
        /\ normalizeCode(envCode(r.body)).letter # "T"
    BY AnswersAssumption
  <1> QED BY <1>1, <1>2, Verdicts, ProviderErrors

LEMMA SaysFacts ==
  ASSUME NEW st, NEW code
  PROVE  /\ Says(st, code).status = st /\ Says(st, code).body.read
         /\ envCode(Says(st, code).body) = code
         /\ ~ decodeErr(Says(st, code).body)
BY DEF Says, envCode, rawString, decodeErr

LEMMA ConflictVerdicts ==
  ASSUME NEW code \in {CodeIdempotencyInProgress, CodeIdempotencyUnknownOutcome,
                      CodePaymentUnknownOutcome}
  PROVE  IsUnknownOutcome(Verdict(Says(409, code))) /\ Verdict(Says(409, code)) # NoError
  <1>1. normalizeCode(code) # CodeSuccess
    BY DEF normalizeCode, Text, CodeSuccess, LowerLetters, CodeIdempotencyInProgress,
           CodeIdempotencyUnknownOutcome, CodePaymentUnknownOutcome
  <1>2. Says(409, code).status \in Nat
    BY SaysFacts
  <1> QED BY <1>1, <1>2, SaysFacts, Verdicts, ProviderErrors

(* A refusal of this request, which says nothing of others under its key.  *)
LEMMA RequestRefusals ==
  ASSUME NEW st \in Nat, NEW code \in {CodeIdempotencyConflict, InvalidRequestCode}
  PROVE  Verdict(Says(st, code)) # NoError /\ Verdict(Says(st, code)).kind # "Declined"
  <1>1. /\ normalizeCode(code) \notin {CodeSuccess, CodeRiskRejected}
        /\ normalizeCode(code).letter # "T"
    BY DEF normalizeCode, Text, CodeSuccess, CodeRiskRejected, LowerLetters,
           CodeIdempotencyConflict, InvalidRequestCode
  <1>2. Says(st, code).status \in Nat
    BY SaysFacts
  <1> QED BY <1>1, <1>2, SaysFacts, Verdicts, ProviderErrors

LEMMA SavedVerdicts ==
  ASSUME NEW code \in SavedCodes
  PROVE  /\ code = CodeSuccess => Verdict(SavedAnswer(code)) = NoError
         /\ code # CodeSuccess => Verdict(SavedAnswer(code)) # NoError
         /\ SavedAnswer(code).status \in Nat
  <1>1. CASE code = CodeSuccess
    <2>1. SavedAnswer(code) = Says(200, code)
      BY <1>1 DEF SavedAnswer
    <2> DEFINE failed == decodeErr(Says(200, code).body)
    <2>2. Verdict(SavedAnswer(code)) = classify("POST", 200, failed, code)
      BY <2>1, SaysFacts DEF Verdict, respond
    <2>7. ~ failed
      BY SaysFacts
    <2> HIDE DEF failed
    <2>3. classify("POST", 200, failed, code) = classifySuccess(200, failed, code)
      BY DEF classify
    <2>4. normalizeCode(code) = CodeSuccess /\ code # NoText
      BY <1>1 DEF normalizeCode, CodeSuccess, Text, LowerLetters, NoText
    <2>5. classifySuccess(200, failed, code) = NoError
      BY <2>4, <2>7 DEF classifySuccess
    <2>6. Says(200, code).status = 200 /\ 200 \in Nat
      BY SaysFacts
    <2> QED BY <1>1, <2>1, <2>2, <2>3, <2>5, <2>6
  <1>2. CASE code # CodeSuccess
    <2>1. SavedAnswer(code) = Says(400, code)
      BY <1>2 DEF SavedAnswer
    <2>2. normalizeCode(InvalidRequestCode) # CodeSuccess
      BY DEF normalizeCode, Text, CodeSuccess, LowerLetters, InvalidRequestCode
    <2>3. normalizeCode(code) # CodeSuccess
      BY <1>2, <2>2, AnswersAssumption DEF SavedCodes
    <2>4. Says(400, code).status = 400 /\ 400 \in Nat
      BY SaysFacts
    <2> QED BY <1>2, <2>1, <2>3, <2>4, SaysFacts, Verdicts, ProviderErrors
  <1> QED BY <1>1, <1>2

LEMMA AnswerStatuses ==
  ASSUME NEW r \in Answers
  PROVE  r.status \in Nat
  <1>1. NoAnswer.status = 0
    BY DEF NoAnswer, Unread
  <1> QED BY <1>1, AnswersAssumption, SavedVerdicts, SaysFacts DEF Answers

-----------------------------------------------------------------------------
(***************************************************************************)
(* The inductive invariant: what is known of each order and its keys.      *)
(***************************************************************************)
OnWire(o, n, j)   == stage[<<o, n>>] = "wire" /\ request[<<o, n>>].key = j
Held(o, n, j)     == stage[<<o, n>>] = "held" /\ request[<<o, n>>].key = j
Underway(o, n, j) == OnWire(o, n, j) \/ Held(o, n, j)

(* A key nothing was sent under. *)
Untouched(o, j) ==
  /\ known[<<o, j>>].state = "unused" /\ charged[<<o, j>>] = 0
  /\ \A n \in 1..MaxCalls : ~ Underway(o, n, j)

(* Nothing was charged under the key, and nothing will be. *)
Dead(o, j) ==
  /\ charged[<<o, j>>] = 0
  /\ \/ known[<<o, j>>].state = "done"
     \/ known[<<o, j>>].state = "unused" /\ \A n \in 1..MaxCalls : ~ OnWire(o, n, j)

(* A key is forgotten only when no request under it can still arrive: that *)
(* is what its window is for.                                              *)
KeyInv(o, j) ==
  /\ charged[<<o, j>>] \in {0, 1}
  /\ known[<<o, j>>].state = "done" =>
       /\ known[<<o, j>>].code \in SavedCodes
       /\ charged[<<o, j>>] = 1 <=> known[<<o, j>>].code = CodeSuccess
  /\ known[<<o, j>>].state \in {"processing", "undetermined"} => charged[<<o, j>>] = 0
  /\ \/ known[<<o, j>>].state = "unused" /\ charged[<<o, j>>] = 1
     \/ known[<<o, j>>].state # "unused" /\ clock >= known[<<o, j>>].since + KeyLife
     => \A n \in 1..MaxCalls : ~ OnWire(o, n, j)
  /\ known[<<o, j>>].state = "unused" => \A n \in 1..MaxCalls : ~ Held(o, n, j)

WindowInv(o) ==
  /\ firstSent[o] = NotSent => Untouched(o, key[o])
  /\ firstSent[o] <= clock
  /\ known[inUse(o)].state # "unused" => firstSent[o] <= known[inUse(o)].since
  /\ known[inUse(o)].state = "unused" /\ charged[inUse(o)] = 1 =>
       clock >= firstSent[o] + KeyLife

(* What an error, or its absence, says of the key in use. *)
TrueOf(o, err) ==
  /\ err.kind \in Kinds \cup {"none"}
  /\ err = NoError => charged[inUse(o)] = 1
  /\ IsSettledRefusal(err) /\ (err.kind = "Declined" \/ inUse(o) \notin doubted) =>
       Dead(o, key[o])
  /\ err.code = CodeIdempotencyInProgress => IsUnknownOutcome(err)

(* While a key is not in doubt, the request of the present call is the     *)
(* only one under it.                                                      *)
CallingInv(o) ==
  /\ stage[current(o)] \in {"wire", "held"} => request[current(o)].key = key[o]
  /\ inUse(o) \notin doubted =>
       /\ \A n \in 1..MaxCalls : Underway(o, n, key[o]) => n = calls[o]
       /\ stage[current(o)] = "wire" =>
            known[inUse(o)].state = "unused" /\ charged[inUse(o)] = 0
  /\ stage[current(o)] = "answered" => TrueOf(o, Verdict(answer[current(o)]))

PhaseInv(o) ==
  /\ calls[o] = 0 => phase[o] = "ready" /\ inUse(o) \notin doubted
  /\ phase[o] = "ready" /\ inUse(o) \notin doubted => firstSent[o] = NotSent
  /\ phase[o] = "asking" => inUse(o) \in doubted
  /\ phase[o] = "done" => charged[inUse(o)] = 1
  /\ phase[o] = "refused" => Dead(o, key[o])
  /\ phase[o] = "told" =>
       /\ TrueOf(o, result[o])
       /\ IsUnknownOutcome(result[o]) => inUse(o) \in doubted
  /\ phase[o] = "calling" => CallingInv(o)

KeysInv(o) ==
  /\ \A j \in 1..MaxKeys : KeyInv(o, j)
  /\ \A j \in 1..MaxKeys : j < key[o] => Dead(o, j)
  /\ \A j \in 1..MaxKeys : j > key[o] => Untouched(o, j)
  /\ \A n \in 1..MaxCalls :
       stage[<<o, n>>] \in {"wire", "held"} => request[<<o, n>>].key # 0

OrderInv(o) == KeysInv(o) /\ WindowInv(o) /\ PhaseInv(o)

ResultInv == result = [o \in Orders |-> result[o]]

IInv == TypeOK /\ ResultInv /\ \A o \in Orders : OrderInv(o)

-----------------------------------------------------------------------------
(***************************************************************************)
(* Steps that leave an order alone, and steps that leave its keys alone.   *)
(***************************************************************************)
LEMMA Types ==
  ASSUME TypeOK, NEW o \in Orders
  PROVE  /\ key[o] \in 1..MaxKeys /\ calls[o] \in 0..MaxCalls
         /\ inUse(o) = <<o, key[o]>> /\ current(o) = <<o, calls[o]>>
         /\ clock \in Nat /\ firstSent[o] \in Int /\ (firstSent[o] = NotSent \/ firstSent[o] \in Nat)
         /\ MaxKeys \in Nat /\ MaxCalls \in Nat /\ KeyLife \in Nat /\ KeyLife > 0
         /\ NotSent = -1
         /\ \A j \in 1..MaxKeys :
              /\ <<o, j>> \in Keys /\ charged[<<o, j>>] \in Nat
              /\ known[<<o, j>>].since \in Nat
              /\ known[<<o, j>>].state \in {"unused", "processing", "undetermined", "done"}
         /\ \A n \in 1..MaxCalls :
              /\ <<o, n>> \in Calls
              /\ stage[<<o, n>>] \in {"unsent", "wire", "held", "answered", "gone"}
              /\ request[<<o, n>>].key \in 0..MaxKeys
  <1> USE KeyedChargesAssumption DEF TypeOK
  <1>1. /\ key[o] \in 1..MaxKeys /\ calls[o] \in 0..MaxCalls
        /\ inUse(o) = <<o, key[o]>> /\ current(o) = <<o, calls[o]>>
    BY DEF inUse, current
  <1>2. /\ clock \in Nat /\ firstSent[o] \in Int /\ (firstSent[o] = NotSent \/ firstSent[o] \in Nat)
        /\ MaxKeys \in Nat /\ MaxCalls \in Nat /\ KeyLife \in Nat /\ KeyLife > 0 /\ NotSent = -1
    BY DEF NotSent
  <1>3. ASSUME NEW j \in 1..MaxKeys
        PROVE  /\ <<o, j>> \in Keys /\ charged[<<o, j>>] \in Nat
               /\ known[<<o, j>>].since \in Nat
               /\ known[<<o, j>>].state \in {"unused", "processing", "undetermined", "done"}
    <2>1. <<o, j>> \in Keys
      BY DEF Keys
    <2> QED BY <2>1
  <1>4. ASSUME NEW n \in 1..MaxCalls
        PROVE  /\ <<o, n>> \in Calls
               /\ stage[<<o, n>>] \in {"unsent", "wire", "held", "answered", "gone"}
               /\ request[<<o, n>>].key \in 0..MaxKeys
    <2>1. <<o, n>> \in Calls
      BY DEF Calls
    <2> QED BY <2>1
  <1> QED BY <1>1, <1>2, <1>3, <1>4

SameKeys(o) ==
  \A j \in 1..MaxKeys : UNCHANGED <<known[<<o, j>>], charged[<<o, j>>]>>

SameCalls(o) ==
  \A n \in 1..MaxCalls : UNCHANGED <<stage[<<o, n>>], request[<<o, n>>], answer[<<o, n>>]>>

SameCaller(o) ==
  /\ UNCHANGED <<phase[o], key[o], firstSent[o], calls[o], result[o]>>
  /\ \A j \in 1..MaxKeys : <<o, j>> \in doubted' <=> <<o, j>> \in doubted

LEMMA Frame ==
  ASSUME TypeOK, NEW o \in Orders, OrderInv(o), SameKeys(o), SameCalls(o), SameCaller(o),
         UNCHANGED clock
  PROVE  OrderInv(o)'
  <1>1. key[o] \in 1..MaxKeys /\ calls[o] \in 0..MaxCalls
    BY Types
  <1>2. /\ inUse(o)' = inUse(o) /\ current(o)' = current(o)
        /\ inUse(o) = <<o, key[o]>> /\ current(o) = <<o, calls[o]>>
        /\ (inUse(o) \in doubted)' <=> inUse(o) \in doubted
    BY <1>1 DEF SameCaller, inUse, current
  <1>3. UNCHANGED <<known[inUse(o)], charged[inUse(o)], key[o], firstSent[o], calls[o], phase[o],
                    result[o]>>
    BY <1>1, <1>2 DEF SameKeys, SameCaller
  <1>4. calls[o] # 0 => UNCHANGED <<stage[current(o)], request[current(o)], answer[current(o)]>>
    BY <1>1, <1>2 DEF SameCalls
  <1>5. \A j \in 1..MaxKeys : /\ Untouched(o, j) <=> Untouched(o, j)'
                              /\ Dead(o, j) <=> Dead(o, j)'
                              /\ KeyInv(o, j) <=> KeyInv(o, j)'
    BY DEF SameKeys, SameCalls, Untouched, Dead, KeyInv, Underway, OnWire, Held
  <1>6. KeysInv(o)'
    BY <1>3, <1>5 DEF OrderInv, KeysInv, SameCalls
  <1>7. WindowInv(o)'
    BY <1>1, <1>2, <1>3, <1>5 DEF OrderInv, WindowInv
  <1>8. \A err : TrueOf(o, err) <=> TrueOf(o, err)'
    BY <1>1, <1>2, <1>3, <1>5 DEF TrueOf
  <1>9. calls[o] # 0 /\ CallingInv(o) => CallingInv(o)'
    BY <1>1, <1>2, <1>3, <1>4, <1>8 DEF CallingInv, SameCalls, Underway, OnWire, Held, Verdict
  <1>10. PhaseInv(o)'
    BY <1>1, <1>2, <1>3, <1>5, <1>8, <1>9 DEF OrderInv, PhaseInv
  <1> QED BY <1>6, <1>7, <1>10 DEF OrderInv

(* No new request: what is known of the keys is as true as before. *)
Quiet(o) ==
  /\ SameKeys(o) /\ UNCHANGED <<clock, key[o]>>
  /\ \A n \in 1..MaxCalls, j \in 1..MaxKeys :
       /\ OnWire(o, n, j)' => OnWire(o, n, j)
       /\ Held(o, n, j)' => Held(o, n, j)
  /\ \A n \in 1..MaxCalls :
       stage'[<<o, n>>] \in {"wire", "held"} =>
         request'[<<o, n>>].key # 0

LEMMA QuietKeys ==
  ASSUME TypeOK, NEW o \in Orders, OrderInv(o), Quiet(o)
  PROVE  /\ KeysInv(o)'
         /\ inUse(o)' = inUse(o)
         /\ UNCHANGED <<known[inUse(o)], charged[inUse(o)]>>
         /\ \A j \in 1..MaxKeys : /\ Dead(o, j) => Dead(o, j)'
                                  /\ Untouched(o, j) => Untouched(o, j)'
         /\ UNCHANGED firstSent[o] => WindowInv(o)'
  <1>1. key[o] \in 1..MaxKeys /\ inUse(o) = <<o, key[o]>> /\ inUse(o)' = inUse(o)
    BY Types DEF Quiet, inUse
  <1>2. UNCHANGED <<known[inUse(o)], charged[inUse(o)]>>
    BY <1>1 DEF Quiet, SameKeys
  <1>3. ASSUME NEW j \in 1..MaxKeys
        PROVE  /\ Dead(o, j) => Dead(o, j)'
               /\ Untouched(o, j) => Untouched(o, j)'
               /\ KeyInv(o, j) => KeyInv(o, j)'
    BY DEF Quiet, SameKeys, Dead, Untouched, Underway, KeyInv
  <1>4. KeysInv(o)'
    BY <1>3 DEF OrderInv, KeysInv, Quiet
  <1>5. UNCHANGED firstSent[o] => WindowInv(o)'
    BY <1>1, <1>2, <1>3 DEF OrderInv, WindowInv, Quiet
  <1> QED BY <1>1, <1>2, <1>3, <1>4, <1>5

(* What was true of the key stays true. *)
LEMMA TrueStays ==
  ASSUME NEW o \in Orders, NEW err, TrueOf(o, err), UNCHANGED key[o],
         charged[inUse(o)] = 1 => (charged[inUse(o)])' = 1,
         Dead(o, key[o]) => Dead(o, key[o])',
         inUse(o) \in doubted => (inUse(o) \in doubted)'
  PROVE  TrueOf(o, err)'
BY DEF TrueOf

LEMMA QuietTruth ==
  ASSUME TypeOK, NEW o \in Orders, OrderInv(o), Quiet(o), NEW err, TrueOf(o, err),
         inUse(o) \in doubted => inUse(o) \in doubted'
  PROVE  TrueOf(o, err)'
  <1>1. key[o] \in 1..MaxKeys /\ UNCHANGED key[o]
    BY Types DEF Quiet
  <1>2. Dead(o, key[o]) => Dead(o, key[o])'
    BY <1>1, QuietKeys DEF Dead, OnWire
  <1> QED BY <1>1, <1>2, QuietKeys, TrueStays

LEMMA UnknownIsTrue ==
  ASSUME NEW o \in Orders, NEW err, IsUnknownOutcome(err), err # NoError,
         err.kind \in Kinds \cup {"none"}
  PROVE  TrueOf(o, err) /\ TrueOf(o, err)'
BY DEF TrueOf, IsSettledRefusal

-----------------------------------------------------------------------------
(***************************************************************************)
(* The caller decides.                                                     *)
(***************************************************************************)
(* Steps that change the caller's own place and no more. *)
LEMMA DecisionStep ==
  ASSUME IInv, NEW o \in Orders, CallerOnly,
         UNCHANGED <<key, payload, firstSent, calls, doubted>>,
         calls[o] # 0,
         NEW to \in {"done", "refused", "gaveUp", "asking"},
         phase' = [phase EXCEPT ![o] = to],
         to = "done" => charged[inUse(o)] = 1,
         to = "refused" => Dead(o, key[o]),
         to = "asking" => inUse(o) \in doubted
  PROVE  OrderInv(o)'
  <1>1. TypeOK /\ OrderInv(o) /\ key[o] \in 1..MaxKeys
    BY Types DEF IInv
  <1>2. Quiet(o) /\ phase'[o] = to
    BY <1>1
    DEF CallerOnly, wireVars, providerVars, Quiet, SameKeys, OnWire, Held, TypeOK, OrderInv,
        KeysInv
  <1>3. PhaseInv(o)'
    BY <1>1, <1>2, QuietKeys DEF PhaseInv
  <1> QED BY <1>1, <1>2, <1>3, QuietKeys DEF OrderInv

LEMMA WhenTold ==
  ASSUME IInv, NEW o \in Orders, phase[o] = "told"
  PROVE  /\ calls[o] # 0
         /\ TrueOf(o, result[o])
         /\ IsUnknownOutcome(result[o]) => inUse(o) \in doubted
         /\ SettlesKey(o) => Dead(o, key[o])
  <1>1. OrderInv(o)
    BY DEF IInv
  <1> QED BY <1>1 DEF OrderInv, PhaseInv, TrueOf, SettlesKey

LEMMA FinishStep ==
  ASSUME IInv, NEW o \in Orders, Finish(o)
  PROVE  OrderInv(o)'
  <1>1. calls[o] # 0 /\ charged[inUse(o)] = 1
    BY WhenTold DEF Finish, Goto, TrueOf
  <1> QED BY <1>1, DecisionStep DEF Finish, Goto

LEMMA AcceptRefusalStep ==
  ASSUME IInv, NEW o \in Orders, AcceptRefusal(o)
  PROVE  OrderInv(o)'
  <1>1. calls[o] # 0 /\ Dead(o, key[o])
    BY WhenTold DEF AcceptRefusal, Goto
  <1> QED BY <1>1, DecisionStep DEF AcceptRefusal, Goto

LEMMA AskStep ==
  ASSUME IInv, NEW o \in Orders, Ask(o)
  PROVE  OrderInv(o)'
  <1>1. calls[o] # 0 /\ inUse(o) \in doubted
    <2>1. CASE phase[o] = "told"
      <3>1. result[o] # NoError /\ ~ SettlesKey(o)
        BY <2>1 DEF Ask
      <3> QED BY <2>1, <3>1, WhenTold DEF SettlesKey, IsSettledRefusal
    <2>2. CASE phase[o] = "ready"
      <3>1. inUse(o) \in doubted
        BY <2>2 DEF Ask
      <3> QED BY <3>1 DEF IInv, OrderInv, PhaseInv
    <2> QED BY <2>1, <2>2 DEF Ask
  <1> QED BY <1>1, DecisionStep DEF Ask, Goto

(* A new key: nothing was sent under it, nothing more will be charged      *)
(* under the old one.                                                      *)
LEMMA TakeNewKeyStep ==
  ASSUME IInv, NEW o \in Orders, TakeNewKey(o)
  PROVE  OrderInv(o)'
  <1>1. TypeOK /\ OrderInv(o) /\ key[o] \in 1..MaxKeys /\ MaxKeys \in Nat /\ clock \in Nat
        /\ calls[o] # 0 /\ Dead(o, key[o])
    BY Types, WhenTold DEF IInv, TakeNewKey, Goto
  <1>2. /\ key[o] < MaxKeys /\ key'[o] = key[o] + 1 /\ key'[o] \in 1..MaxKeys
        /\ firstSent'[o] = NotSent /\ phase'[o] = "ready"
        /\ UNCHANGED <<calls, doubted, stage, request, known, charged, clock>>
    BY <1>1 DEF TakeNewKey, Goto, CallerOnly, wireVars, providerVars, TypeOK
  <1>3. \A j \in 1..MaxKeys : /\ Untouched(o, j) <=> Untouched(o, j)'
                              /\ Dead(o, j) <=> Dead(o, j)'
                              /\ KeyInv(o, j) <=> KeyInv(o, j)'
    BY <1>2 DEF Untouched, Dead, KeyInv, Underway, OnWire, Held
  <1>4. KeysInv(o)'
    <2>1. \A j \in 1..MaxKeys : j < key'[o] => j < key[o] \/ j = key[o]
      BY <1>1, <1>2
    <2>2. \A j \in 1..MaxKeys : j > key'[o] => j > key[o]
      BY <1>1, <1>2
    <2> QED BY <1>1, <1>2, <1>3, <2>1, <2>2 DEF OrderInv, KeysInv
  <1>5. Untouched(o, key[o])'
    <2>1. \A j \in 1..MaxKeys : j = key'[o] => Untouched(o, j)'
      BY <1>1, <1>2, <1>3 DEF OrderInv, KeysInv
    <2> QED BY <1>2, <2>1 DEF Untouched, Underway, OnWire, Held
  <1>6. inUse(o)' = <<o, key'[o]>>
    BY DEF inUse
  <1>7. WindowInv(o)'
    <2>1. (known[inUse(o)].state)' = "unused" /\ (charged[inUse(o)])' = 0
      BY <1>5, <1>6 DEF Untouched
    <2>2. NotSent <= clock'
      BY <1>1, <1>2 DEF NotSent
    <2> QED BY <1>2, <1>5, <2>1, <2>2 DEF WindowInv
  <1>8. PhaseInv(o)'
    BY <1>1, <1>2 DEF PhaseInv
  <1> QED BY <1>4, <1>7, <1>8 DEF OrderInv

-----------------------------------------------------------------------------
(***************************************************************************)
(* Calls.                                                                  *)
(***************************************************************************)
LEMMA OnlyCurrentCharged ==
  ASSUME TypeOK, NEW o \in Orders, OrderInv(o), HasCharge(o)
  PROVE  charged[inUse(o)] = 1
  <1>1. PICK k \in Keys : k[1] = o /\ charged[k] > 0
    BY DEF HasCharge
  <1>2. PICK j \in 1..MaxKeys : k = <<o, j>>
    BY <1>1 DEF Keys
  <1>3. /\ key[o] \in 1..MaxKeys /\ inUse(o) = <<o, key[o]>> /\ MaxKeys \in Nat
        /\ charged[<<o, j>>] \in Nat /\ charged[<<o, j>>] # 0
    BY <1>1, <1>2, Types
  <1>4. ~ Dead(o, j) /\ ~ Untouched(o, j)
    BY <1>3 DEF Dead, Untouched
  <1>5. j = key[o]
    BY <1>3, <1>4 DEF OrderInv, KeysInv
  <1>6. charged[<<o, j>>] \in {0, 1}
    BY DEF OrderInv, KeysInv, KeyInv
  <1> QED BY <1>3, <1>5, <1>6

(* A key is used within its window, so nothing sent under it can arrive    *)
(* after it was forgotten.                                                 *)
LEMMA SendStep ==
  ASSUME IInv, NEW o \in Orders, NEW built, Send(o, built), InWindow(o),
         phase' = [phase EXCEPT ![o] = "calling"],
         phase[o] = "ready" \/ inUse(o) \in doubted
  PROVE  OrderInv(o)'
  <1> DEFINE new == <<o, calls[o] + 1>>
  <1>1. TypeOK /\ OrderInv(o)
    BY DEF IInv
  <1>2. /\ key[o] \in 1..MaxKeys /\ calls[o] \in 0..MaxCalls /\ calls[o] < MaxCalls
        /\ MaxKeys \in Nat /\ MaxCalls \in Nat /\ clock \in Nat
        /\ inUse(o) = <<o, key[o]>> /\ KeyLife \in Nat
        /\ firstSent[o] = NotSent \/ firstSent[o] \in Nat
        /\ NotSent = -1
    BY <1>1, Types DEF Send
  <1>3. /\ UNCHANGED <<key, doubted, answer, clock, known, charged>>
        /\ calls'[o] = calls[o] + 1 /\ phase'[o] = "calling"
        /\ firstSent'[o] = IF firstSent[o] = NotSent THEN clock ELSE firstSent[o]
    BY <1>1 DEF Send, providerVars, TypeOK
  <1>4. calls[o] + 1 \in 1..MaxCalls /\ new \in Calls
    BY <1>2 DEF Calls
  <1>5. \A n \in 1..MaxCalls :
          /\ stage'[<<o, n>>] = IF n = calls[o] + 1 THEN "wire" ELSE stage[<<o, n>>]
          /\ request'[<<o, n>>] = IF n = calls[o] + 1 THEN [key |-> key[o], payload |-> built]
                                  ELSE request[<<o, n>>]
    <2>1. \A n \in 1..MaxCalls : <<o, n>> \in Calls
      BY DEF Calls
    <2> QED BY <1>1, <2>1 DEF Send, TypeOK
  <1>6. [key |-> key[o], payload |-> built].key = key[o]
    OBVIOUS
  <1>7. \A n \in 1..MaxCalls, j \in 1..MaxKeys :
          /\ OnWire(o, n, j)' <=> IF n = calls[o] + 1 THEN j = key[o] ELSE OnWire(o, n, j)
          /\ Held(o, n, j)' => Held(o, n, j) /\ n # calls[o] + 1
    BY <1>5, <1>6 DEF OnWire, Held
  <1> HIDE DEF new
  <1>8. ASSUME NEW j \in 1..MaxKeys, j # key[o]
        PROVE  /\ Untouched(o, j) => Untouched(o, j)'
               /\ Dead(o, j) => Dead(o, j)'
               /\ KeyInv(o, j) => KeyInv(o, j)'
    BY <1>3, <1>7, <1>8 DEF Untouched, Dead, KeyInv, Underway
  <1>9. /\ KeyInv(o, key[o]) /\ WindowInv(o) /\ PhaseInv(o)
    BY <1>1, <1>2 DEF OrderInv, KeysInv
  <1>10. known[inUse(o)].since \in Nat
    BY <1>1, <1>2, Types
  <1>11. /\ ~ (known[inUse(o)].state = "unused" /\ charged[inUse(o)] = 1)
         /\ ~ (known[inUse(o)].state # "unused" /\ clock >= known[inUse(o)].since + KeyLife)
    <2>1. CASE firstSent[o] = NotSent
      BY <2>1, <1>2, <1>9 DEF WindowInv, Untouched
    <2>2. CASE firstSent[o] \in Nat /\ clock < firstSent[o] + KeyLife
      <3>1. ~ (clock >= firstSent[o] + KeyLife)
        BY <1>2, <2>2
      <3>2. known[inUse(o)].state # "unused" => firstSent[o] <= known[inUse(o)].since
        BY <1>9 DEF WindowInv
      <3> QED BY <1>2, <1>9, <1>10, <2>2, <3>1, <3>2 DEF WindowInv
    <2> QED BY <1>2, <2>1, <2>2 DEF InWindow
  <1>12. \A j \in 1..MaxKeys : j = key[o] => KeyInv(o, j)'
    BY <1>2, <1>3, <1>7, <1>9, <1>11 DEF KeyInv
  <1>13. KeysInv(o)'
    BY <1>1, <1>2, <1>3, <1>5, <1>6, <1>8, <1>12 DEF OrderInv, KeysInv
  <1>14. inUse(o)' = inUse(o) /\ current(o)' = <<o, calls[o] + 1>>
    BY <1>3 DEF inUse, current
  <1>15. WindowInv(o)'
    <2>1. firstSent'[o] # NotSent /\ firstSent'[o] <= clock
      BY <1>2, <1>3, <1>9 DEF WindowInv
    <2>2. firstSent[o] = NotSent =>
            known[inUse(o)].state = "unused" /\ charged[inUse(o)] = 0
      BY <1>2, <1>9 DEF WindowInv, Untouched
    <2> QED BY <1>3, <1>9, <1>14, <2>1, <2>2 DEF WindowInv
  <1>16. inUse(o) \notin doubted => Untouched(o, key[o])
    BY <1>9 DEF PhaseInv, WindowInv
  <1>17. stage'[<<o, calls[o] + 1>>] = "wire" /\ (request'[<<o, calls[o] + 1>>]).key = key[o]
    BY <1>4, <1>5, <1>6
  <1>18. CallingInv(o)'
    <2>1. inUse(o) \notin doubted =>
            \A n \in 1..MaxCalls, j \in 1..MaxKeys :
              j = key[o] /\ Underway(o, n, j)' => n = calls[o] + 1
      BY <1>2, <1>7, <1>16 DEF Untouched, Underway
    <2>2. inUse(o) \notin doubted =>
            \A n \in 1..MaxCalls : Underway(o, n, key[o])' => n = calls[o] + 1
      BY <1>2, <1>3, <2>1 DEF Underway, OnWire, Held
    <2>3. inUse(o) \notin doubted => known[inUse(o)].state = "unused" /\ charged[inUse(o)] = 0
      BY <1>2, <1>16 DEF Untouched
    <2> QED BY <1>3, <1>14, <1>17, <2>2, <2>3 DEF CallingInv
  <1>19. PhaseInv(o)'
    BY <1>2, <1>3, <1>18 DEF PhaseInv
  <1> QED BY <1>13, <1>15, <1>19 DEF OrderInv

LEMMA CallStep ==
  ASSUME IInv, NEW o \in Orders, Call(o)
  PROVE  OrderInv(o)'
BY SendStep DEF Call, Goto

LEMMA ResendLaterStep ==
  ASSUME IInv, NEW o \in Orders, ResendLater(o)
  PROVE  OrderInv(o)'
  <1>1. inUse(o) \in doubted
    BY WhenTold DEF ResendLater, Goto, TrueOf
  <1> QED BY <1>1, SendStep DEF ResendLater, Goto

LEMMA LearnStep ==
  ASSUME IInv, NEW o \in Orders, Learn(o)
  PROVE  OrderInv(o)'
  <1>1. phase[o] = "asking" /\ calls[o] # 0 /\ inUse(o) \in doubted
    BY DEF Learn, Goto, IInv, OrderInv, PhaseInv
  <1>2. CASE /\ HasCharge(o) /\ Goto(o, {"asking"}, "done")
             /\ UNCHANGED <<key, payload, firstSent, calls, result, doubted>> /\ CallerOnly
    BY <1>1, <1>2, OnlyCurrentCharged, DecisionStep DEF Goto, IInv
  <1>3. CASE /\ InWindow(o) /\ Goto(o, {"asking"}, "calling")
             /\ \E built \in Payloads : Send(o, built)
    BY <1>1, <1>3, SendStep DEF Goto
  <1>4. CASE /\ Goto(o, {"asking"}, "gaveUp")
             /\ UNCHANGED <<key, payload, firstSent, calls, result, doubted>> /\ CallerOnly
    BY <1>1, <1>4, DecisionStep DEF Goto
  <1> QED BY <1>2, <1>3, <1>4 DEF Learn

LEMMA LeaveIsQuiet ==
  ASSUME IInv, NEW o \in Orders, Leave(o), UNCHANGED <<key, clock, known, charged>>
  PROVE  Quiet(o)
  <1>1. \A n \in 1..MaxCalls :
          /\ stage'[<<o, n>>] \in {"wire", "held"} => UNCHANGED stage[<<o, n>>]
          /\ UNCHANGED request[<<o, n>>]
    <2>1. \A n \in 1..MaxCalls : <<o, n>> \in Calls
      BY DEF Calls
    <2> QED BY <2>1 DEF Leave, IInv, TypeOK
  <1> QED BY <1>1 DEF Quiet, SameKeys, OnWire, Held, IInv, OrderInv, KeysInv

LEMMA ReturnsStep ==
  ASSUME IInv, NEW o \in Orders, NEW err, Returns(o, err), TrueOf(o, err)
  PROVE  OrderInv(o)'
  <1>1. /\ TypeOK /\ OrderInv(o) /\ ResultInv /\ calls[o] # 0
    BY DEF IInv, OrderInv, PhaseInv, Returns, Goto
  <1>2. /\ UNCHANGED <<key, firstSent, calls, clock, known, charged>>
        /\ phase'[o] = "told" /\ result'[o] = err
    BY <1>1 DEF Returns, Goto, providerVars, TypeOK, ResultInv
  <1>3. Quiet(o)
    BY <1>2, LeaveIsQuiet DEF Returns
  <1>4. /\ inUse(o) \in doubted => inUse(o) \in doubted'
        /\ IsUnknownOutcome(err) => inUse(o) \in doubted'
    BY DEF Returns
  <1>5. \A e : e = err => TrueOf(o, e)'
    BY <1>1, <1>3, <1>4, QuietTruth
  <1>6. TrueOf(o, result[o])'
    BY <1>2, <1>5 DEF TrueOf
  <1>7. PhaseInv(o)'
    BY <1>1, <1>2, <1>3, <1>4, <1>6, QuietKeys DEF PhaseInv
  <1> QED BY <1>1, <1>2, <1>3, <1>7, QuietKeys DEF OrderInv

LEMMA ReturnStep ==
  ASSUME IInv, NEW o \in Orders, Return(o)
  PROVE  OrderInv(o)'
  <1>1. TrueOf(o, Verdict(answer[current(o)]))
    BY DEF Return, IInv, OrderInv, PhaseInv, CallingInv
  <1> QED BY <1>1, ReturnsStep DEF Return, Verdict

LEMMA DeadlineStep ==
  ASSUME IInv, NEW o \in Orders, Deadline(o)
  PROVE  OrderInv(o)'
  <1>1. TrueOf(o, Error("UnknownOutcome", 0, NoText))
    BY Unknowns, UnknownIsTrue DEF Kinds
  <1> QED BY <1>1, ReturnsStep DEF Deadline

(* What is left is the stored key, in doubt. *)
LEMMA CrashStep ==
  ASSUME IInv, NEW o \in Orders, Crash(o)
  PROVE  OrderInv(o)'
  <1>1. /\ TypeOK /\ OrderInv(o) /\ calls[o] # 0
    <2>1. calls[o] \in Nat /\ calls[o] > 0
      BY Types DEF IInv, Crash
    <2> QED BY <2>1 DEF IInv
  <1>2. /\ UNCHANGED <<key, firstSent, calls, clock, known, charged>>
        /\ phase'[o] = "ready"
    BY <1>1 DEF Crash, Goto, providerVars, TypeOK
  <1>3. Quiet(o)
    BY <1>2, LeaveIsQuiet DEF Crash
  <1>4. inUse(o) \in doubted'
    BY DEF Crash
  <1>5. PhaseInv(o)'
    BY <1>1, <1>2, <1>3, <1>4, QuietKeys DEF PhaseInv
  <1> QED BY <1>1, <1>2, <1>3, <1>5, QuietKeys DEF OrderInv

-----------------------------------------------------------------------------
(***************************************************************************)
(* Answers and losses.                                                     *)
(***************************************************************************)
LEMMA QuietStep ==
  ASSUME IInv, NEW o \in Orders, SameKeys(o), SameCaller(o), UNCHANGED clock,
         \A n \in 1..MaxCalls :
           stage'[<<o, n>>] \in {"wire", "held"} =>
             UNCHANGED <<stage[<<o, n>>], request[<<o, n>>]>>,
         (phase[o] = "calling" /\ stage[current(o)] = "answered"
            => TrueOf(o, Verdict(answer[current(o)])))'
  PROVE  OrderInv(o)'
  <1>1. TypeOK /\ OrderInv(o)
    BY DEF IInv
  <1>2. /\ key[o] \in 1..MaxKeys /\ calls[o] \in 0..MaxCalls
        /\ inUse(o) = <<o, key[o]>> /\ current(o) = <<o, calls[o]>>
    BY <1>1, Types
  <1>3. Quiet(o)
    BY <1>1 DEF Quiet, SameCaller, OnWire, Held, OrderInv, KeysInv
  <1>4. /\ inUse(o)' = inUse(o) /\ current(o)' = current(o)
        /\ (inUse(o) \in doubted)' <=> inUse(o) \in doubted
    BY <1>2 DEF SameCaller, inUse, current
  <1>5. \A err : TrueOf(o, err) => TrueOf(o, err)'
    BY <1>1, <1>3, <1>4, QuietTruth
  <1>6. phase[o] = "calling" => CallingInv(o)'
    <2>1. SUFFICES ASSUME phase[o] = "calling" PROVE CallingInv(o)'
      OBVIOUS
    <2>2. CallingInv(o) /\ calls[o] \in 1..MaxCalls
      BY <1>1, <1>2, <2>1 DEF OrderInv, PhaseInv
    <2>3. (stage[current(o)])' \in {"wire", "held"} =>
            UNCHANGED <<stage[current(o)], request[current(o)]>>
      BY <1>2, <1>4, <2>2
    <2>4. \A n \in 1..MaxCalls : Underway(o, n, key[o])' => Underway(o, n, key[o])
      BY <1>2, <1>3 DEF Quiet, Underway, OnWire, Held
    <2>5. UNCHANGED <<key[o], calls[o], phase[o], known[inUse(o)], charged[inUse(o)]>>
      BY <1>1, <1>3, QuietKeys DEF SameCaller
    <2> QED BY <1>4, <2>1, <2>2, <2>3, <2>4, <2>5 DEF CallingInv
  <1>7. PhaseInv(o)'
    BY <1>1, <1>2, <1>3, <1>4, <1>5, <1>6, QuietKeys
    DEF OrderInv, PhaseInv, SameCaller, WindowInv
  <1> QED BY <1>1, <1>3, <1>7, QuietKeys DEF OrderInv, SameCaller

LEMMA WireStep ==
  ASSUME IInv, NEW c \in Calls, NEW n \in 1..MaxCalls, c = <<c[1], n>>, c[1] \in Orders,
         UNCHANGED <<callerVars, providerVars, clock>>,
         stage[c] \in {"wire", "held"},
         NEW next \in {"answered", "gone"},
         stage' = [stage EXCEPT ![c] = next],
         request' = [request EXCEPT ![c] = NoRequest],
         \A d \in Calls : d # c => UNCHANGED answer[d],
         (Awaited(c) /\ stage[c] = "answered" => TrueOf(c[1], Verdict(answer[c])))'
  PROVE  \A o \in Orders : OrderInv(o)'
  <1>1. TypeOK
    BY DEF IInv
  <1>2. ASSUME NEW o \in Orders
        PROVE  /\ SameKeys(o) /\ SameCaller(o)
               /\ \A m \in 1..MaxCalls :
                    /\ <<o, m>> \in Calls
                    /\ <<o, m>> # c => /\ stage'[<<o, m>>] = stage[<<o, m>>]
                                       /\ request'[<<o, m>>] = request[<<o, m>>]
                                       /\ answer'[<<o, m>>] = answer[<<o, m>>]
                    /\ stage'[<<o, m>>] \in {"wire", "held"} =>
                         UNCHANGED <<stage[<<o, m>>], request[<<o, m>>]>>
    <2>1. \A m \in 1..MaxCalls : <<o, m>> \in Calls
      BY DEF Calls
    <2> QED BY <1>1, <2>1 DEF SameKeys, SameCaller, callerVars, providerVars, TypeOK
  <1>3. ASSUME NEW o \in Orders, o # c[1]
        PROVE  OrderInv(o)'
    <2>1. SameCalls(o)
      BY <1>2, <1>3 DEF SameCalls
    <2> QED BY <1>1, <1>2, <2>1, Frame DEF IInv
  <1>4. ASSUME NEW o \in Orders, o = c[1]
        PROVE  OrderInv(o)'
    <2>1. OrderInv(o) /\ calls[o] \in 0..MaxCalls /\ current(o) = <<o, calls[o]>>
      BY <1>1, Types DEF IInv
    <2>2. UNCHANGED <<phase, calls, key, doubted>> /\ current(o)' = current(o)
          /\ inUse(o)' = inUse(o)
      BY DEF callerVars, current, inUse
    <2>3. CASE current(o) = c
      BY <1>2, <1>4, <2>2, <2>3, QuietStep DEF Awaited
    <2>4. CASE current(o) # c /\ phase[o] = "calling"
      <3>1. calls[o] \in 1..MaxCalls
        BY <2>1, <2>4 DEF OrderInv, PhaseInv
      <3>2. UNCHANGED <<stage[current(o)], answer[current(o)]>>
        BY <1>2, <2>1, <2>2, <2>4, <3>1
      <3>3. stage[current(o)] = "answered" => TrueOf(o, Verdict(answer[current(o)]))
        BY <2>1, <2>4 DEF OrderInv, PhaseInv, CallingInv
      <3>4. Quiet(o)
        BY <1>2, <2>1, <2>2 DEF Quiet, OnWire, Held, OrderInv, KeysInv
      <3>5. \A err : TrueOf(o, err) => TrueOf(o, err)'
        BY <1>1, <2>1, <2>2, <3>4, QuietTruth
      <3>6. (stage[current(o)] = "answered" => TrueOf(o, Verdict(answer[current(o)])))'
        BY <2>2, <3>2, <3>3, <3>5 DEF TrueOf
      <3> QED BY <1>2, <3>6, QuietStep
    <2>5. CASE phase[o] # "calling"
      BY <1>2, <2>2, <2>5, QuietStep
    <2> QED BY <2>3, <2>4, <2>5
  <1> QED BY <1>3, <1>4

LEMMA CallShape ==
  ASSUME NEW c \in Calls
  PROVE  c[1] \in Orders /\ c[2] \in 1..MaxCalls /\ c = <<c[1], c[2]>>
BY DEF Calls

LEMMA AnsweredStep ==
  ASSUME IInv, NEW c \in Calls, NEW given, Answered(c, given), UNCHANGED providerVars,
         \A err : Awaited(c) /\ err = Verdict(given) => TrueOf(c[1], err)'
  PROVE  \A o \in Orders : OrderInv(o)'
  <1>1. /\ c[1] \in Orders /\ c[2] \in 1..MaxCalls /\ c = <<c[1], c[2]>>
        /\ TypeOK
    BY CallShape DEF IInv
  <1>2. /\ stage[c] \in {"wire", "held"}
        /\ UNCHANGED <<callerVars, providerVars, clock>>
        /\ request' = [request EXCEPT ![c] = NoRequest]
        /\ \A d \in Calls : d # c => UNCHANGED answer[d]
        /\ Awaited(c) => answer'[c] = given
    BY <1>1 DEF Answered, To, TypeOK
  <1>3. PICK next \in {"answered", "gone"} : stage' = [stage EXCEPT ![c] = next]
    BY DEF Answered, To
  <1>4. Awaited(c)' <=> Awaited(c)
    BY <1>2 DEF callerVars, Awaited, current
  <1>5. (Awaited(c) => TrueOf(c[1], Verdict(answer[c])))'
    BY <1>2, <1>4 DEF TrueOf
  <1> QED BY <1>1, <1>2, <1>3, <1>5, WireStep

LEMMA LoseStep ==
  ASSUME IInv, NEW c \in Calls, Lose(c)
  PROVE  \A o \in Orders : OrderInv(o)'
  <1>1. c[1] \in Orders /\ c[2] \in 1..MaxCalls /\ c = <<c[1], c[2]>>
    BY CallShape
  <1>2. stage[c] = "wire" /\ stage' = [stage EXCEPT ![c] = "gone"]
    BY DEF Lose, To
  <1>3. UNCHANGED <<callerVars, providerVars, clock, answer>>
        /\ request' = [request EXCEPT ![c] = NoRequest]
    BY DEF Lose
  <1> DEFINE next == "gone"
  <1>4. next \in {"answered", "gone"} /\ stage' = [stage EXCEPT ![c] = next]
    BY <1>2
  <1>5. (Awaited(c) /\ stage[c] = "answered" => TrueOf(c[1], Verdict(answer[c])))'
    BY <1>2 DEF IInv, TypeOK
  <1> HIDE DEF next
  <1> QED BY <1>1, <1>2, <1>3, <1>4, <1>5, WireStep

LEMMA AwaitedCall ==
  ASSUME IInv, NEW c \in Calls, Awaited(c)
  PROVE  /\ c[1] \in Orders /\ c = current(c[1]) /\ CallingInv(c[1])
         /\ OrderInv(c[1]) /\ key[c[1]] \in 1..MaxKeys
         /\ c = <<c[1], calls[c[1]]>>
         /\ stage[c] \in {"wire", "held"} => keyOf(c) = inUse(c[1])
  <1>1. c[1] \in Orders /\ OrderInv(c[1])
    BY CallShape DEF IInv
  <1>2. key[c[1]] \in 1..MaxKeys /\ CallingInv(c[1]) /\ c = current(c[1])
    BY <1>1, Types DEF IInv, OrderInv, PhaseInv, Awaited
  <1> QED BY <1>1, <1>2 DEF CallingInv, keyOf, inUse, current

LEMMA AnsweredIsQuiet ==
  ASSUME IInv, NEW c \in Calls, NEW given, Answered(c, given), UNCHANGED providerVars,
         NEW o \in Orders
  PROVE  Quiet(o) /\ (inUse(o) \in doubted => inUse(o) \in doubted')
  <1>1. \A n \in 1..MaxCalls :
          stage'[<<o, n>>] \in {"wire", "held"} =>
            UNCHANGED <<stage[<<o, n>>], request[<<o, n>>]>>
    <2>1. \A n \in 1..MaxCalls : <<o, n>> \in Calls
      BY DEF Calls
    <2> QED BY <2>1 DEF Answered, To, IInv, TypeOK
  <1>2. UNCHANGED <<key, doubted, clock, known, charged>>
    BY DEF Answered, callerVars, providerVars
  <1> QED BY <1>1, <1>2 DEF Quiet, SameKeys, OnWire, Held, IInv, OrderInv, KeysInv

LEMMA UnknownStep ==
  ASSUME IInv, NEW c \in Calls, NEW given, Answered(c, given), UNCHANGED providerVars,
         given.status \in Nat, IsUnknownOutcome(Verdict(given)), Verdict(given) # NoError
  PROVE  \A o \in Orders : OrderInv(o)'
  <1>1. ASSUME NEW o \in Orders, NEW err, err = Verdict(given)
        PROVE  TrueOf(o, err)'
    <2>1. err.kind \in Kinds \cup {"none"} /\ IsUnknownOutcome(err) /\ err # NoError
      BY <1>1, VerdictKinds
    <2> QED BY <2>1, UnknownIsTrue
  <1> QED BY <1>1, CallShape, AnsweredStep

(* A refusal of a request is the last word on a key that is not in doubt:  *)
(* it was the only request under it.                                       *)
LEMMA RefusedStep ==
  ASSUME IInv, NEW c \in Calls, NEW given, Answered(c, given), UNCHANGED providerVars,
         stage[c] = "wire",
         given.status \in Nat, Verdict(given) # NoError, Verdict(given).kind # "Declined"
  PROVE  \A o \in Orders : OrderInv(o)'
  <1>1. ASSUME Awaited(c), inUse(c[1]) \notin doubted
        PROVE  Dead(c[1], key[c[1]])'
    <2>1. /\ CallingInv(c[1]) /\ c = <<c[1], calls[c[1]]>> /\ c[1] \in Orders
          /\ key[c[1]] \in 1..MaxKeys /\ c = current(c[1])
      BY <1>1, AwaitedCall
    <2>2. UNCHANGED <<key, known, charged>> /\ stage'[c] \notin {"wire", "held"}
      BY DEF Answered, To, callerVars, providerVars, IInv, TypeOK
    <2>3. known[inUse(c[1])].state = "unused" /\ charged[inUse(c[1])] = 0
      BY <1>1, <2>1 DEF CallingInv
    <2>4. \A n \in 1..MaxCalls : OnWire(c[1], n, key[c[1]])' => OnWire(c[1], n, key[c[1]])
      BY <2>1, <2>2, AnsweredIsQuiet DEF Quiet, OnWire
    <2>5. \A n \in 1..MaxCalls : ~ OnWire(c[1], n, key[c[1]])'
      BY <1>1, <2>1, <2>2, <2>4 DEF CallingInv, Underway, OnWire
    <2> QED BY <2>2, <2>3, <2>5 DEF Dead, inUse
  <1>2. ASSUME NEW err, Awaited(c), err = Verdict(given)
        PROVE  TrueOf(c[1], err)'
    <2>1. UNCHANGED <<key, doubted>>
      BY DEF Answered, callerVars
    <2> QED BY <1>1, <1>2, <2>1, VerdictKinds DEF TrueOf, inUse
  <1> QED BY <1>2, AnsweredStep

(* The result of the key's request is true of the key. *)
LEMMA SavedStep ==
  ASSUME IInv, NEW c \in Calls, NEW given, Answered(c, given), UNCHANGED providerVars,
         known[keyOf(c)].state = "done", given = SavedAnswer(known[keyOf(c)].code)
  PROVE  \A o \in Orders : OrderInv(o)'
  <1>1. ASSUME NEW err, Awaited(c), err = Verdict(given)
        PROVE  TrueOf(c[1], err)'
    <2>1. /\ c[1] \in Orders /\ OrderInv(c[1]) /\ key[c[1]] \in 1..MaxKeys
          /\ keyOf(c) = inUse(c[1])
      BY <1>1, AwaitedCall DEF Answered, To
    <2>2. /\ inUse(c[1]) = <<c[1], key[c[1]]>> /\ KeyInv(c[1], key[c[1]])
      BY <2>1 DEF OrderInv, KeysInv, inUse
    <2>3. /\ known[keyOf(c)].code \in SavedCodes
          /\ charged[inUse(c[1])] \in {0, 1}
          /\ charged[inUse(c[1])] = 1 <=> known[keyOf(c)].code = CodeSuccess
          /\ known[inUse(c[1])].state = "done"
      BY <2>1, <2>2 DEF KeyInv
    <2>4. TrueOf(c[1], err)
      <3> DEFINE code == known[keyOf(c)].code
      <3>1. /\ code = CodeSuccess => err = NoError
            /\ code # CodeSuccess => err # NoError
            /\ given.status \in Nat
        BY <1>1, <2>3, SavedVerdicts
      <3>2. /\ err.kind \in Kinds \cup {"none"}
            /\ err.code = CodeIdempotencyInProgress => IsUnknownOutcome(err)
        BY <1>1, <3>1, VerdictKinds
      <3>3. ~ IsSettledRefusal(NoError)
        BY DEF IsSettledRefusal
      <3>4. err # NoError => Dead(c[1], key[c[1]])
        BY <2>2, <2>3, <3>1 DEF Dead
      <3> QED BY <2>3, <3>1, <3>2, <3>3, <3>4 DEF TrueOf
    <2> QED BY <2>1, <2>4, AnsweredIsQuiet, QuietTruth DEF IInv
  <1> QED BY <1>1, AnsweredStep

LEMMA GarbleStep ==
  ASSUME IInv, NEW c \in Calls, Garble(c)
  PROVE  \A o \in Orders : OrderInv(o)'
  <1>1. PICK given \in Garbled : Answered(c, given)
    BY DEF Garble
  <1> QED BY <1>1, GarbledVerdict, AnswersAssumption, UnknownStep DEF Garble

LEMMA RefuseStep ==
  ASSUME IInv, NEW c \in Calls, Refuse(c)
  PROVE  \A o \in Orders : OrderInv(o)'
  <1>1. ASSUME NEW r \in Refusals, Reply(c, r)
        PROVE  \A o \in Orders : OrderInv(o)'
    BY <1>1, RefusalVerdict, AnswersAssumption, RefusedStep DEF Refuse, Reply
  <1>2. CASE Reply(c, Says(400, InvalidRequestCode))
    <2>1. Says(400, InvalidRequestCode).status \in Nat
      BY SaysFacts
    <2>2. /\ Verdict(Says(400, InvalidRequestCode)) # NoError
          /\ Verdict(Says(400, InvalidRequestCode)).kind # "Declined"
      BY RequestRefusals
    <2> QED BY <1>2, <2>1, <2>2, RefusedStep DEF Refuse, Reply
  <1> QED BY <1>1, <1>2 DEF Refuse

LEMMA ConflictStep ==
  ASSUME IInv, NEW c \in Calls, UNCHANGED providerVars,
         NEW code \in {CodeIdempotencyInProgress, CodeIdempotencyUnknownOutcome,
                      CodePaymentUnknownOutcome},
         Reply(c, Says(409, code))
  PROVE  \A o \in Orders : OrderInv(o)'
  <1>1. Says(409, code).status \in Nat
    BY SaysFacts
  <1> QED BY <1>1, ConflictVerdicts, UnknownStep DEF Reply

LEMMA AnswerKnownStep ==
  ASSUME IInv, NEW c \in Calls, AnswerKnown(c)
  PROVE  \A o \in Orders : OrderInv(o)'
  <1>1. CASE Reply(c, Says(422, CodeIdempotencyConflict))
    <2>1. Says(422, CodeIdempotencyConflict).status \in Nat
      BY SaysFacts
    <2>2. /\ Verdict(Says(422, CodeIdempotencyConflict)) # NoError
          /\ Verdict(Says(422, CodeIdempotencyConflict)).kind # "Declined"
      BY RequestRefusals
    <2> QED BY <1>1, <2>1, <2>2, RefusedStep DEF AnswerKnown, Reply
  <1>2. CASE known[keyOf(c)].state = "done" /\ Reply(c, SavedAnswer(known[keyOf(c)].code))
    BY <1>2, SavedStep DEF AnswerKnown, Reply
  <1>3. known[keyOf(c)].state \in {"processing", "undetermined", "done"}
    <2>1. c[1] \in Orders /\ c[2] \in 1..MaxCalls /\ c = <<c[1], c[2]>>
      BY CallShape
    <2>2. request[c].key \in 1..MaxKeys
      BY <2>1, KeyedChargesAssumption DEF IInv, TypeOK, OrderInv, KeysInv, AnswerKnown
    <2> QED BY <2>1, <2>2, Types DEF AnswerKnown, IInv, keyOf
  <1> QED BY <1>1, <1>2, <1>3, ConflictStep DEF AnswerKnown

LEMMA AnswerHeldStep ==
  ASSUME IInv, NEW c \in Calls, AnswerHeld(c)
  PROVE  \A o \in Orders : OrderInv(o)'
  <1>1. CASE known[keyOf(c)].state = "done" /\ Reply(c, SavedAnswer(known[keyOf(c)].code))
    BY <1>1, SavedStep DEF AnswerHeld, Reply
  <1> QED BY <1>1, ConflictStep DEF AnswerHeld

-----------------------------------------------------------------------------
(***************************************************************************)
(* The provider's work on a key, and time.                                 *)
(***************************************************************************)
LEMMA KeyShape ==
  ASSUME NEW k \in Keys
  PROVE  k[1] \in Orders /\ k[2] \in 1..MaxKeys /\ k = <<k[1], k[2]>>
BY DEF Keys

LEMMA OtherKeys ==
  ASSUME IInv, NEW k \in Keys, UNCHANGED <<callerVars, wireVars, clock>>,
         \A l \in Keys : l # k => UNCHANGED <<known[l], charged[l]>>,
         NEW o \in Orders, o # k[1]
  PROVE  OrderInv(o)'
  <1>1. \A j \in 1..MaxKeys : <<o, j>> \in Keys /\ <<o, j>> # k
    BY KeyShape DEF Keys
  <1>2. SameKeys(o) /\ SameCalls(o) /\ SameCaller(o)
    BY <1>1 DEF SameKeys, SameCalls, SameCaller, callerVars, wireVars
  <1> QED BY <1>2, Frame DEF IInv

(* Only the key in use is worked on. *)
LEMMA WorkIsCurrent ==
  ASSUME IInv, NEW o \in Orders, NEW j \in 1..MaxKeys,
         \/ known[<<o, j>>].state \in {"processing", "undetermined"}
         \/ known[<<o, j>>].state = "unused" /\ \E n \in 1..MaxCalls : OnWire(o, n, j)
  PROVE  j = key[o] /\ ~ Dead(o, j) /\ ~ Untouched(o, j) /\ charged[<<o, j>>] = 0
  <1>1. KeyInv(o, j) /\ KeysInv(o)
    BY DEF IInv, OrderInv, KeysInv
  <1>2. charged[<<o, j>>] = 0
    BY <1>1 DEF KeyInv
  <1>3. ~ Dead(o, j) /\ ~ Untouched(o, j)
    BY DEF Dead, Untouched, Underway
  <1>4. key[o] \in 1..MaxKeys /\ MaxKeys \in Nat
    BY Types DEF IInv
  <1> QED BY <1>1, <1>2, <1>3, <1>4 DEF KeysInv

(* The key in use is worked on.  Nothing that was known to be charged, or  *)
(* known to be settled, is: neither was known of it.                       *)
LEMMA WorkStep ==
  ASSUME IInv, NEW k \in Keys, UNCHANGED <<callerVars, wireVars, clock>>,
         \A l \in Keys : l # k => UNCHANGED <<known[l], charged[l]>>,
         known[k].state \in {"processing", "undetermined"},
         known'[k].since = known[k].since,
         \/ known'[k].state = "undetermined" /\ charged'[k] = charged[k]
         \/ /\ known'[k].state = "done" /\ known'[k].code \in SavedCodes
            /\ charged'[k] = IF known'[k].code = CodeSuccess THEN charged[k] + 1 ELSE charged[k]
  PROVE  \A o \in Orders : OrderInv(o)'
  <1>1. SUFFICES ASSUME NEW o \in Orders, o = k[1] PROVE OrderInv(o)'
    BY OtherKeys
  <1>2. PICK j \in 1..MaxKeys : k = <<o, j>>
    BY <1>1, KeyShape
  <1>3. j = key[o] /\ ~ Dead(o, j) /\ ~ Untouched(o, j) /\ charged[k] = 0 /\ k = inUse(o)
    BY <1>2, WorkIsCurrent DEF inUse
  <1>4. OrderInv(o) /\ UNCHANGED <<phase, key, firstSent, calls, result, doubted, stage,
                                   request, answer, clock>>
    BY DEF IInv, callerVars, wireVars
  <1>5. ASSUME NEW i \in 1..MaxKeys, i # j
        PROVE  /\ UNCHANGED <<known[<<o, i>>], charged[<<o, i>>]>>
               /\ Dead(o, i) <=> Dead(o, i)'
               /\ Untouched(o, i) <=> Untouched(o, i)'
               /\ KeyInv(o, i) <=> KeyInv(o, i)'
    <2>1. UNCHANGED <<known[<<o, i>>], charged[<<o, i>>]>>
      BY <1>2, <1>5 DEF Keys
    <2> QED BY <1>4, <2>1 DEF Dead, Untouched, KeyInv, Underway, OnWire, Held
  <1>6. charged'[k] \in {0, 1}
    BY <1>3
  <1>7. KeyInv(o, j) /\ known[k].state # "unused" /\ known'[k].state # "unused"
    BY <1>4 DEF OrderInv, KeysInv
  <1>8. KeyInv(o, j)'
    BY <1>2, <1>3, <1>4, <1>6, <1>7 DEF KeyInv, OnWire, Held
  <1>9. KeysInv(o)'
    <2>1. \A i \in 1..MaxKeys : i < key[o] \/ i > key[o] => i # j
      BY <1>3
    <2>2. \A n \in 1..MaxCalls :
            stage'[<<o, n>>] \in {"wire", "held"} => request'[<<o, n>>].key # 0
      BY <1>4 DEF OrderInv, KeysInv
    <2> QED BY <1>4, <1>5, <1>8, <2>1, <2>2 DEF OrderInv, KeysInv
  <1>10. inUse(o)' = inUse(o) /\ current(o)' = current(o)
    BY <1>4 DEF inUse, current
  <1>11. firstSent[o] # NotSent /\ WindowInv(o)'
    BY <1>3, <1>4, <1>7, <1>10 DEF OrderInv, WindowInv
  <1>12. ~ Dead(o, key[o]) /\ charged[inUse(o)] # 1
    BY <1>3
  <1>13. \A err : TrueOf(o, err) => TrueOf(o, err)'
    BY <1>4, <1>10, <1>12 DEF TrueOf
  <1>14. CallingInv(o) => CallingInv(o)'
    BY <1>3, <1>4, <1>7, <1>10, <1>13 DEF CallingInv, Underway, OnWire, Held
  <1>15. PhaseInv(o)'
    BY <1>4, <1>10, <1>12, <1>13, <1>14 DEF OrderInv, PhaseInv
  <1> QED BY <1>9, <1>11, <1>15 DEF OrderInv

LEMMA SettleStep ==
  ASSUME IInv, NEW k \in Keys, Settle(k)
  PROVE  \A o \in Orders : OrderInv(o)'
  <1>1. PICK code \in SavedCodes :
          /\ known' = [known EXCEPT ![k].state = "done", ![k].code = code]
          /\ charged' = [charged EXCEPT ![k] = IF code = CodeSuccess THEN @ + 1 ELSE @]
    BY DEF Settle, SavedCodes
  <1>2. /\ known'[k].state = "done" /\ known'[k].code = code
        /\ known'[k].since = known[k].since
        /\ charged'[k] = IF code = CodeSuccess THEN charged[k] + 1 ELSE charged[k]
        /\ \A l \in Keys : l # k => UNCHANGED <<known[l], charged[l]>>
    BY <1>1 DEF IInv, TypeOK
  <1> QED BY <1>2, WorkStep DEF Settle

LEMMA InterruptStep ==
  ASSUME IInv, NEW k \in Keys, Interrupt(k)
  PROVE  \A o \in Orders : OrderInv(o)'
  <1>1. /\ known'[k].state = "undetermined" /\ known'[k].since = known[k].since
        /\ UNCHANGED charged
        /\ \A l \in Keys : l # k => UNCHANGED known[l]
    BY DEF Interrupt, IInv, TypeOK
  <1> QED BY <1>1, WorkStep DEF Interrupt

(* Nothing under a forgotten key can still arrive. *)
LEMMA ForgetStep ==
  ASSUME IInv, NEW k \in Keys, Forget(k)
  PROVE  \A o \in Orders : OrderInv(o)'
  <1>1. /\ UNCHANGED <<callerVars, wireVars, clock, charged>>
        /\ known'[k].state = "unused"
        /\ \A l \in Keys : l # k => UNCHANGED known[l]
    BY DEF Forget, IInv, TypeOK, Unused
  <1>2. SUFFICES ASSUME NEW o \in Orders, o = k[1] PROVE OrderInv(o)'
    BY <1>1, OtherKeys
  <1>3. PICK j \in 1..MaxKeys : k = <<o, j>>
    BY <1>2, KeyShape
  <1>4. OrderInv(o) /\ UNCHANGED <<phase, key, firstSent, calls, result, doubted, stage,
                                   request, answer, clock>>
    BY <1>1 DEF IInv, callerVars, wireVars
  <1>5. ASSUME NEW i \in 1..MaxKeys, i # j
        PROVE  /\ Dead(o, i) => Dead(o, i)'
               /\ Untouched(o, i) => Untouched(o, i)'
               /\ KeyInv(o, i) => KeyInv(o, i)'
    <2>1. UNCHANGED <<known[<<o, i>>], charged[<<o, i>>]>>
      BY <1>1, <1>3, <1>5 DEF Keys
    <2> QED BY <1>4, <2>1 DEF Dead, Untouched, KeyInv, Underway, OnWire, Held
  <1>6. /\ known[k].state = "done" /\ clock >= known[k].since + KeyLife
        /\ KeyInv(o, j) /\ charged[k] \in {0, 1}
    BY <1>3, <1>4 DEF Forget, OrderInv, KeysInv, KeyInv
  <1>7. \A n \in 1..MaxCalls : ~ OnWire(o, n, j) /\ ~ Held(o, n, j)
    <2>1. \A n \in 1..MaxCalls : Held(o, n, j) => keyOf(<<o, n>>) = k
      BY <1>3 DEF Held, keyOf
    <2>2. \A n \in 1..MaxCalls : <<o, n>> \in Calls
      BY DEF Calls
    <2> QED BY <1>3, <1>6, <2>1, <2>2 DEF Forget, Held, KeyInv
  <1>8. KeyInv(o, j)'
    BY <1>1, <1>3, <1>4, <1>6, <1>7 DEF KeyInv, OnWire, Held
  <1>9. ~ Untouched(o, j) /\ (Dead(o, j) => Dead(o, j)')
    BY <1>1, <1>3, <1>4, <1>6, <1>7 DEF Untouched, Dead, OnWire
  <1>10. KeysInv(o)'
    BY <1>4, <1>5, <1>8, <1>9 DEF OrderInv, KeysInv
  <1>11. /\ inUse(o)' = inUse(o) /\ current(o)' = current(o)
         /\ key[o] \in 1..MaxKeys /\ inUse(o) = <<o, key[o]>>
         /\ clock \in Nat /\ KeyLife \in Nat /\ NotSent = -1
         /\ firstSent[o] = NotSent \/ firstSent[o] \in Nat
         /\ known[k].since \in Nat
    <2>1. known[k].since \in Nat
      BY <1>3, Types DEF IInv
    <2> QED BY <1>4, <2>1, Types DEF inUse, current, IInv
  <1>12. Dead(o, key[o]) => Dead(o, key[o])'
    <2>1. \A i \in 1..MaxKeys : i = key[o] /\ Dead(o, i) => Dead(o, i)'
      BY <1>5, <1>9
    <2> QED BY <1>4, <1>11, <2>1 DEF Dead, OnWire
  <1>13. WindowInv(o)'
    <2>1. CASE key[o] = j
      <3>1. inUse(o) = k /\ WindowInv(o)
        BY <1>3, <1>4, <1>11, <2>1 DEF OrderInv
      <3>2. firstSent[o] # NotSent /\ firstSent[o] <= known[k].since
        BY <1>6, <1>9, <2>1, <3>1 DEF WindowInv
      <3>3. clock >= firstSent[o] + KeyLife
        BY <1>6, <1>11, <3>2
      <3> QED BY <1>1, <1>4, <1>11, <3>1, <3>2, <3>3 DEF WindowInv
    <2>2. CASE key[o] # j
      <3>1. inUse(o) # k /\ inUse(o) \in Keys
        BY <1>3, <1>11, <2>2 DEF Keys
      <3>2. UNCHANGED <<known[inUse(o)], charged[inUse(o)]>>
        BY <1>1, <1>11, <3>1
      <3>3. Untouched(o, key[o]) => Untouched(o, key[o])'
        <4>1. \A i \in 1..MaxKeys : i = key[o] /\ Untouched(o, i) => Untouched(o, i)'
          BY <1>5, <2>2
        <4> QED BY <1>4, <1>11, <4>1 DEF Untouched, Underway, OnWire, Held
      <3> QED BY <1>4, <1>11, <3>2, <3>3 DEF OrderInv, WindowInv
    <2> QED BY <2>1, <2>2
  <1>14. UNCHANGED charged[inUse(o)]
    BY <1>1, <1>11
  <1>15. \A err : TrueOf(o, err) => TrueOf(o, err)'
    BY <1>4, <1>11, <1>12, <1>14 DEF TrueOf
  <1>16. CallingInv(o) => CallingInv(o)'
    <2>1. known[inUse(o)].state = "unused" => (known[inUse(o)].state)' = "unused"
      <3>1. inUse(o) \in Keys
        BY <1>11 DEF Keys
      <3> QED BY <1>1, <1>11, <3>1
    <2> QED BY <1>4, <1>11, <1>14, <1>15, <2>1 DEF CallingInv, Underway, OnWire, Held
  <1>17. PhaseInv(o)'
    BY <1>4, <1>11, <1>12, <1>14, <1>15, <1>16 DEF OrderInv, PhaseInv
  <1> QED BY <1>10, <1>13, <1>17 DEF OrderInv

(* Only the first request under a key is accepted, and only under the key  *)
(* in use.                                                                 *)
LEMMA AcceptStep ==
  ASSUME IInv, NEW c \in Calls, Accept(c)
  PROVE  \A o \in Orders : OrderInv(o)'
  <1>1. /\ c[1] \in Orders /\ c[2] \in 1..MaxCalls /\ c = <<c[1], c[2]>>
        /\ TypeOK /\ OrderInv(c[1])
    BY CallShape DEF IInv
  <1> DEFINE k == keyOf(c)
  <1>2. request[c].key \in 1..MaxKeys /\ stage[c] = "wire"
    BY <1>1, KeyedChargesAssumption DEF IInv, TypeOK, OrderInv, KeysInv, Accept, To
  <1>3. PICK j \in 1..MaxKeys : k = <<c[1], j>> /\ OnWire(c[1], c[2], j)
    BY <1>1, <1>2 DEF keyOf, OnWire
  <1>4. k \in Keys /\ known[k].state = "unused"
    BY <1>1, <1>3 DEF Keys, Accept
  <1> HIDE DEF k
  <1>5. j = key[c[1]] /\ ~ Dead(c[1], j) /\ ~ Untouched(c[1], j) /\ charged[k] = 0
    BY <1>1, <1>3, <1>4, WorkIsCurrent
  <1>6. /\ UNCHANGED <<callerVars, request, answer, clock, charged>>
        /\ known'[k].state = "processing" /\ known'[k].since = clock
        /\ \A l \in Keys : l # k => UNCHANGED known[l]
        /\ \A d \in Calls : stage'[d] = IF d = c THEN "held" ELSE stage[d]
    BY <1>1, <1>4 DEF Accept, To, TypeOK, k
  <1>7. ASSUME NEW o \in Orders, o # c[1]
        PROVE  OrderInv(o)'
    <2>1. \A i \in 1..MaxKeys : <<o, i>> \in Keys /\ <<o, i>> # k
      BY <1>3, <1>7 DEF Keys
    <2>2. \A n \in 1..MaxCalls : <<o, n>> \in Calls /\ <<o, n>> # c
      BY <1>1, <1>7 DEF Calls
    <2>3. SameKeys(o) /\ SameCalls(o) /\ SameCaller(o)
      BY <1>6, <2>1, <2>2 DEF SameKeys, SameCalls, SameCaller, callerVars
    <2> QED BY <1>1, <1>6, <2>3, Frame DEF IInv
  <1>8. ASSUME NEW o \in Orders, o = c[1]
        PROVE  OrderInv(o)'
    <2>1. OrderInv(o) /\ UNCHANGED <<phase, key, firstSent, calls, result, doubted, request,
                                     answer, clock, charged>>
      BY <1>6 DEF IInv, callerVars
    <2>2. \A n \in 1..MaxCalls, i \in 1..MaxKeys :
            /\ OnWire(o, n, i)' => OnWire(o, n, i)
            /\ Held(o, n, i)' => Held(o, n, i) \/ (i = j /\ n = c[2])
            /\ Underway(o, n, i)' => Underway(o, n, i)
      <3>1. \A n \in 1..MaxCalls : <<o, n>> \in Calls /\ (<<o, n>> = c <=> n = c[2])
        BY <1>1, <1>8 DEF Calls
      <3> QED BY <1>1, <1>2, <1>3, <1>6, <1>8, <2>1, <3>1 DEF OnWire, Held, Underway
    <2>3. ASSUME NEW i \in 1..MaxKeys, i # j
          PROVE  /\ Dead(o, i) => Dead(o, i)'
                 /\ Untouched(o, i) => Untouched(o, i)'
                 /\ KeyInv(o, i) => KeyInv(o, i)'
      <3>1. UNCHANGED <<known[<<o, i>>], charged[<<o, i>>]>>
        BY <1>3, <1>6, <2>3 DEF Keys
      <3> QED BY <2>1, <2>2, <2>3, <3>1 DEF Dead, Untouched, KeyInv
    <2>4. clock \in Nat /\ KeyLife \in Nat /\ KeyLife > 0 /\ ~ (clock >= clock + KeyLife)
      BY <1>1, Types
    <2>5. KeyInv(o, j)'
      BY <1>3, <1>5, <1>6, <1>8, <2>1, <2>4 DEF KeyInv
    <2>6. \A n \in 1..MaxCalls :
            stage'[<<o, n>>] \in {"wire", "held"} => request'[<<o, n>>].key # 0
      <3>1. \A n \in 1..MaxCalls : <<o, n>> \in Calls
        BY DEF Calls
      <3> QED BY <1>2, <1>6, <2>1, <3>1, KeyedChargesAssumption DEF OrderInv, KeysInv
    <2>7. KeysInv(o)'
      BY <1>5, <1>8, <2>1, <2>3, <2>5, <2>6, <1>1, Types DEF OrderInv, KeysInv
    <2>8. inUse(o)' = inUse(o) /\ current(o)' = current(o) /\ k = inUse(o)
          /\ calls[o] \in 0..MaxCalls /\ key[o] = j /\ current(o) = <<o, calls[o]>>
      BY <1>1, <1>3, <1>5, <1>8, <2>1, Types DEF inUse, current
    <2>9. WindowInv(o)'
      BY <1>5, <1>6, <1>8, <2>1, <2>8 DEF OrderInv, WindowInv
    <2>10. \A err : TrueOf(o, err) => TrueOf(o, err)'
      BY <1>5, <1>8, <2>1, <2>8 DEF TrueOf
    <2>11. phase[o] = "calling" => CallingInv(o)'
      <3>1. SUFFICES ASSUME phase[o] = "calling" PROVE CallingInv(o)'
        OBVIOUS
      <3>2. CallingInv(o) /\ calls[o] \in 1..MaxCalls /\ current(o) \in Calls
        BY <2>1, <2>8, <3>1 DEF OrderInv, PhaseInv, Calls
      <3>3. (stage[current(o)])' = IF current(o) = c THEN "held" ELSE stage[current(o)]
        BY <1>6, <2>8, <3>2
      <3>4. inUse(o) \notin doubted => current(o) = c
        BY <1>1, <1>3, <1>8, <2>8, <3>2 DEF CallingInv, Underway
      <3>5. \A n \in 1..MaxCalls : Underway(o, n, key[o])' => Underway(o, n, key[o])
        BY <2>1, <2>2, <2>8 DEF Underway, OnWire, Held
      <3>6. current(o) = c => request[c].key = key[o]
        BY <1>2, <3>2 DEF CallingInv
      <3> QED BY <2>1, <2>8, <2>10, <3>2, <3>3, <3>4, <3>5, <3>6 DEF CallingInv
    <2>12. PhaseInv(o)'
      BY <1>5, <1>8, <2>1, <2>8, <2>10, <2>11 DEF OrderInv, PhaseInv
    <2> QED BY <2>7, <2>9, <2>12 DEF OrderInv
  <1> QED BY <1>7, <1>8

(* A day passes for keys, not for requests on the wire. *)
LEMMA TickStep ==
  ASSUME IInv, Tick, NEW o \in Orders
  PROVE  OrderInv(o)'
  <1>1. /\ TypeOK /\ OrderInv(o) /\ clock \in Nat /\ clock' = clock + 1
        /\ KeyLife \in Nat /\ key[o] \in 1..MaxKeys
        /\ firstSent[o] = NotSent \/ firstSent[o] \in Nat
        /\ NotSent = -1 /\ inUse(o) = <<o, key[o]>>
    BY Types DEF IInv, Tick
  <1>2. UNCHANGED <<phase, key, firstSent, calls, result, doubted, stage, request, answer,
                    known, charged>>
    BY DEF Tick, callerVars, wireVars, providerVars
  <1>3. \A n \in 1..MaxCalls, j \in 1..MaxKeys : ~ OnWire(o, n, j)
    BY DEF Tick, OnWire, Calls
  <1>4. \A j \in 1..MaxKeys : /\ Dead(o, j) <=> Dead(o, j)'
                              /\ Untouched(o, j) <=> Untouched(o, j)'
                              /\ KeyInv(o, j) => KeyInv(o, j)'
    BY <1>2, <1>3 DEF Dead, Untouched, KeyInv, Underway, OnWire, Held
  <1>5. KeysInv(o)'
    BY <1>1, <1>2, <1>4 DEF OrderInv, KeysInv
  <1>6. inUse(o)' = inUse(o) /\ current(o)' = current(o)
    BY <1>2 DEF inUse, current
  <1>7. Dead(o, key[o]) <=> Dead(o, key[o])'
    BY <1>2 DEF Dead, OnWire
  <1>8. WindowInv(o)'
    <2>1. Untouched(o, key[o]) => Untouched(o, key[o])'
      BY <1>2 DEF Untouched, Underway, OnWire, Held
    <2>2. /\ firstSent[o] <= clock => firstSent[o] <= clock'
          /\ clock >= firstSent[o] + KeyLife => clock' >= firstSent[o] + KeyLife
      BY <1>1
    <2> QED BY <1>1, <1>2, <1>6, <2>1, <2>2 DEF OrderInv, WindowInv
  <1>9. \A err : TrueOf(o, err) <=> TrueOf(o, err)'
    BY <1>2, <1>6, <1>7 DEF TrueOf
  <1>10. CallingInv(o) => CallingInv(o)'
    BY <1>2, <1>6, <1>9 DEF CallingInv, Underway, OnWire, Held
  <1>11. PhaseInv(o)'
    BY <1>1, <1>2, <1>6, <1>7, <1>9, <1>10 DEF OrderInv, PhaseInv
  <1> QED BY <1>5, <1>8, <1>11 DEF OrderInv

-----------------------------------------------------------------------------
(***************************************************************************)
(* Types, and the orders a step is not about.                              *)
(***************************************************************************)
LEMMA CallerTypes ==
  ASSUME TypeOK, ResultInv, NEW o \in Orders, UNCHANGED <<clock, faults, known, charged>>,
         NEW to \in {"ready", "calling", "told", "asking", "done", "refused", "gaveUp"},
         NEW at, at \in 1..MaxKeys,
         NEW first, first \in {NotSent} \cup 0..MaxTime,
         NEW made, made \in 0..MaxCalls,
         NEW built, built \in Payloads \cup {"none"},
         NEW err, err.kind \in Kinds \cup {"none"},
         phase' = [phase EXCEPT ![o] = to],
         key' = [key EXCEPT ![o] = at],
         firstSent' = [firstSent EXCEPT ![o] = first],
         calls' = [calls EXCEPT ![o] = made],
         payload' = [payload EXCEPT ![o] = built],
         result' = [result EXCEPT ![o] = err],
         doubted' \in {doubted, doubted \cup {inUse(o)}},
         stage' \in [Calls -> {"unsent", "wire", "held", "answered", "gone"}],
         request' \in [Calls -> [key : 0..MaxKeys, payload : Payloads \cup {"none"}]],
         answer' \in [Calls -> Answers]
  PROVE  TypeOK' /\ ResultInv'
  <1>1. result' = [p \in Orders |-> IF p = o THEN err ELSE result[p]]
    BY DEF ResultInv
  <1>2. ResultInv'
    BY <1>1 DEF ResultInv
  <1>3. \A p \in Orders : result'[p].kind \in Kinds \cup {"none"}
    BY <1>1 DEF TypeOK
  <1>4. inUse(o) \in Keys
    BY DEF TypeOK, inUse, Keys
  <1>5. doubted' \subseteq Keys
    BY <1>4 DEF TypeOK
  <1>6. /\ phase' \in [Orders -> {"ready", "calling", "told", "asking", "done", "refused",
                                  "gaveUp"}]
        /\ key' \in [Orders -> 1..MaxKeys] /\ calls' \in [Orders -> 0..MaxCalls]
        /\ firstSent' \in [Orders -> {NotSent} \cup 0..MaxTime]
        /\ payload' \in [Orders -> Payloads \cup {"none"}]
    BY DEF TypeOK
  <1> QED BY <1>2, <1>3, <1>5, <1>6 DEF TypeOK

LEMMA CallerElsewhere ==
  ASSUME IInv, NEW o \in Orders, NEW p \in Orders, p # o,
         UNCHANGED <<clock, known, charged, key[p], phase[p], firstSent[p], calls[p], result[p]>>,
         doubted' \in {doubted, doubted \cup {inUse(o)}},
         NEW m,
         \A c \in Calls : c # <<o, m>> => UNCHANGED <<stage[c], request[c], answer[c]>>
  PROVE  OrderInv(p)'
  <1>1. \A n \in 1..MaxCalls : <<p, n>> \in Calls /\ <<p, n>> # <<o, m>>
    BY DEF Calls
  <1>2. \A j \in 1..MaxKeys : <<p, j>> # inUse(o)
    BY DEF inUse
  <1>3. SameKeys(p) /\ SameCalls(p) /\ SameCaller(p)
    BY <1>1, <1>2 DEF SameKeys, SameCalls, SameCaller
  <1> QED BY <1>3, Frame DEF IInv

LEMMA DecisionRest ==
  ASSUME IInv, NEW o \in Orders, CallerOnly, UNCHANGED <<payload, calls, doubted>>,
         NEW to \in {"ready", "done", "refused", "gaveUp", "asking"},
         phase' = [phase EXCEPT ![o] = to],
         NEW at, at \in 1..MaxKeys, key' = [key EXCEPT ![o] = at],
         NEW first, first \in {NotSent} \cup 0..MaxTime,
         firstSent' = [firstSent EXCEPT ![o] = first],
         NEW err, err \in {result[o], NoError}, result' = [result EXCEPT ![o] = err]
  PROVE  /\ TypeOK' /\ ResultInv'
         /\ \A p \in Orders : p # o => OrderInv(p)'
  <1>1. TypeOK /\ ResultInv
    BY DEF IInv
  <1>2. UNCHANGED <<clock, faults, known, charged, stage, request, answer>>
    BY DEF CallerOnly, wireVars, providerVars
  <1>3. err.kind \in Kinds \cup {"none"}
    BY <1>1 DEF TypeOK, NoError, Error
  <1>4. /\ calls' = [calls EXCEPT ![o] = calls[o]] /\ calls[o] \in 0..MaxCalls
        /\ payload' = [payload EXCEPT ![o] = payload[o]]
        /\ payload[o] \in Payloads \cup {"none"}
    BY <1>1 DEF TypeOK
  <1>5. /\ stage' \in [Calls -> {"unsent", "wire", "held", "answered", "gone"}]
        /\ request' \in [Calls -> [key : 0..MaxKeys, payload : Payloads \cup {"none"}]]
        /\ answer' \in [Calls -> Answers]
    BY <1>1, <1>2 DEF TypeOK
  <1>6. TypeOK' /\ ResultInv'
    <2> DEFINE made  == calls[o]
               built == payload[o]
    <2>1. /\ made \in 0..MaxCalls /\ calls' = [calls EXCEPT ![o] = made]
          /\ built \in Payloads \cup {"none"} /\ payload' = [payload EXCEPT ![o] = built]
          /\ doubted' \in {doubted, doubted \cup {inUse(o)}}
          /\ UNCHANGED <<clock, faults, known, charged>>
      BY <1>2, <1>4
    <2>2. to \in {"ready", "calling", "told", "asking", "done", "refused", "gaveUp"}
      OBVIOUS
    <2> HIDE DEF made, built
    <2> QED BY <1>1, <1>3, <1>5, <2>1, <2>2, CallerTypes
  <1>7. ASSUME NEW p \in Orders, p # o
        PROVE  OrderInv(p)'
    <2>1. UNCHANGED <<key[p], phase[p], firstSent[p], calls[p], result[p]>>
      BY <1>1, <1>7 DEF TypeOK, ResultInv
    <2> QED BY <1>2, <1>7, <2>1, CallerElsewhere
  <1> QED BY <1>6, <1>7

LEMMA SendRest ==
  ASSUME IInv, NEW o \in Orders, NEW built \in Payloads \cup {"none"}, Send(o, built),
         phase' = [phase EXCEPT ![o] = "calling"]
  PROVE  /\ TypeOK' /\ ResultInv'
         /\ \A p \in Orders : p # o => OrderInv(p)'
  <1> DEFINE c == <<o, calls[o] + 1>>
  <1>1. TypeOK /\ ResultInv /\ calls[o] + 1 \in 1..MaxCalls /\ c \in Calls
    BY KeyedChargesAssumption DEF IInv, TypeOK, Send, Calls
  <1>2. UNCHANGED <<key, doubted, answer, clock, faults, known, charged>>
    BY DEF Send, providerVars
  <1>3. /\ stage' = [stage EXCEPT ![c] = "wire"]
        /\ request' = [request EXCEPT ![c] = [key |-> key[o], payload |-> built]]
    BY DEF Send
  <1>4. [key |-> key[o], payload |-> built] \in [key : 0..MaxKeys, payload : Payloads \cup {"none"}]
    BY <1>1, KeyedChargesAssumption DEF TypeOK
  <1> HIDE DEF c
  <1>5. /\ stage' \in [Calls -> {"unsent", "wire", "held", "answered", "gone"}]
        /\ request' \in [Calls -> [key : 0..MaxKeys, payload : Payloads \cup {"none"}]]
        /\ answer' \in [Calls -> Answers]
    BY <1>1, <1>2, <1>3, <1>4 DEF TypeOK
  <1> DEFINE first == IF firstSent[o] = NotSent THEN clock ELSE firstSent[o]
  <1>6. /\ first \in {NotSent} \cup 0..MaxTime
        /\ firstSent' = [firstSent EXCEPT ![o] = first]
        /\ key' = [key EXCEPT ![o] = key[o]] /\ key[o] \in 1..MaxKeys
        /\ calls' = [calls EXCEPT ![o] = calls[o] + 1] /\ calls[o] + 1 \in 0..MaxCalls
        /\ payload' = [payload EXCEPT ![o] = built]
        /\ result' = [result EXCEPT ![o] = NoError]
    BY <1>1, <1>2, KeyedChargesAssumption DEF Send, TypeOK
  <1> HIDE DEF first
  <1>7. NoError.kind \in Kinds \cup {"none"}
    BY DEF NoError, Error
  <1>8. TypeOK' /\ ResultInv'
    <2> DEFINE made == calls[o] + 1
               at   == key[o]
    <2>1. /\ at \in 1..MaxKeys /\ key' = [key EXCEPT ![o] = at]
          /\ made \in 0..MaxCalls /\ calls' = [calls EXCEPT ![o] = made]
          /\ doubted' \in {doubted, doubted \cup {inUse(o)}}
      BY <1>2, <1>6
    <2> HIDE DEF made, at
    <2>2. /\ TypeOK /\ ResultInv /\ o \in Orders /\ UNCHANGED <<clock, faults, known, charged>>
          /\ first \in {NotSent} \cup 0..MaxTime /\ built \in Payloads \cup {"none"}
          /\ firstSent' = [firstSent EXCEPT ![o] = first]
          /\ phase' = [phase EXCEPT ![o] = "calling"]
          /\ payload' = [payload EXCEPT ![o] = built]
          /\ result' = [result EXCEPT ![o] = NoError]
      BY <1>1, <1>2, <1>6
    <2> QED BY ONLY <1>5, <1>7, <2>1, <2>2, CallerTypes
  <1>9. ASSUME NEW p \in Orders, p # o
        PROVE  OrderInv(p)'
    <2>1. UNCHANGED <<key[p], phase[p], firstSent[p], calls[p], result[p]>>
      BY <1>1, <1>2, <1>6, <1>9 DEF TypeOK, ResultInv
    <2>2. \A d \in Calls : d # c => UNCHANGED <<stage[d], request[d], answer[d]>>
      BY <1>1, <1>2, <1>3 DEF TypeOK
    <2> QED BY <1>2, <1>9, <2>1, <2>2, CallerElsewhere DEF c
  <1> QED BY <1>8, <1>9

LEMMA LeaveRest ==
  ASSUME IInv, NEW o \in Orders, Leave(o), calls[o] # 0,
         UNCHANGED <<key, payload, firstSent, calls, clock, known, charged>>,
         faults' \in 0..MaxFaults,
         doubted' \in {doubted, doubted \cup {inUse(o)}},
         NEW to \in {"ready", "told"}, phase' = [phase EXCEPT ![o] = to],
         NEW err, err.kind \in Kinds \cup {"none"}, result' = [result EXCEPT ![o] = err]
  PROVE  /\ TypeOK' /\ ResultInv'
         /\ \A p \in Orders : p # o => OrderInv(p)'
  <1>1. TypeOK /\ ResultInv /\ calls[o] \in 1..MaxCalls /\ current(o) \in Calls
        /\ current(o) = <<o, calls[o]>>
    BY KeyedChargesAssumption DEF IInv, TypeOK, current, Calls
  <1>2. NoAnswer \in Answers
    BY DEF Answers
  <1>3. /\ stage' \in [Calls -> {"unsent", "wire", "held", "answered", "gone"}]
        /\ request' \in [Calls -> [key : 0..MaxKeys, payload : Payloads \cup {"none"}]]
        /\ answer' \in [Calls -> Answers]
    BY <1>1, <1>2 DEF Leave, TypeOK
  <1>4. result' = [p \in Orders |-> IF p = o THEN err ELSE result[p]]
    BY <1>1 DEF ResultInv
  <1>5. ResultInv' /\ \A p \in Orders : result'[p].kind \in Kinds \cup {"none"}
    BY <1>1, <1>4 DEF ResultInv, TypeOK
  <1>6. doubted' \subseteq Keys
    BY <1>1 DEF TypeOK, inUse, Keys
  <1>7. TypeOK'
    BY <1>1, <1>3, <1>5, <1>6 DEF TypeOK
  <1>8. ASSUME NEW p \in Orders, p # o
        PROVE  OrderInv(p)'
    <2>1. UNCHANGED <<key[p], phase[p], firstSent[p], calls[p], result[p]>>
      BY <1>1, <1>4, <1>8 DEF TypeOK
    <2>2. \A d \in Calls : d # <<o, calls[o]>> => UNCHANGED <<stage[d], request[d], answer[d]>>
      BY <1>1 DEF Leave, TypeOK
    <2> QED BY <1>8, <2>1, <2>2, CallerElsewhere
  <1> QED BY <1>5, <1>7, <1>8

(* What a decision leaves as it was. *)
LEMMA DecideRest ==
  ASSUME IInv, NEW o \in Orders, Decide(o)
  PROVE  /\ TypeOK' /\ ResultInv'
         /\ \A p \in Orders : p # o => OrderInv(p)'
  <1>1. /\ TypeOK /\ ResultInv /\ key[o] \in 1..MaxKeys /\ MaxKeys \in Nat
        /\ firstSent[o] \in {NotSent} \cup 0..MaxTime
        /\ UNCHANGED key => key' = [key EXCEPT ![o] = key[o]]
        /\ UNCHANGED firstSent => firstSent' = [firstSent EXCEPT ![o] = firstSent[o]]
        /\ UNCHANGED result => result' = [result EXCEPT ![o] = result[o]]
        /\ payload[o] \in Payloads \cup {"none"}
    BY KeyedChargesAssumption DEF IInv, TypeOK, ResultInv
  <1>2. ASSUME NEW to \in {"done", "refused", "gaveUp", "asking"},
               phase' = [phase EXCEPT ![o] = to], CallerOnly,
               UNCHANGED <<key, payload, firstSent, calls, doubted>>,
               UNCHANGED result \/ result' = [result EXCEPT ![o] = NoError]
        PROVE  /\ TypeOK' /\ ResultInv'
               /\ \A p \in Orders : p # o => OrderInv(p)'
    BY <1>1, <1>2, DecisionRest
  <1>3. CASE Finish(o) \/ AcceptRefusal(o) \/ Ask(o)
    BY <1>2, <1>3 DEF Finish, AcceptRefusal, Ask, Goto
  <1>4. CASE TakeNewKey(o)
    <2>1. /\ key[o] + 1 \in 1..MaxKeys /\ key' = [key EXCEPT ![o] = key[o] + 1]
          /\ firstSent' = [firstSent EXCEPT ![o] = NotSent]
          /\ phase' = [phase EXCEPT ![o] = "ready"]
          /\ result' = [result EXCEPT ![o] = NoError]
          /\ UNCHANGED <<payload, calls, doubted>> /\ CallerOnly
      BY <1>1, <1>4 DEF TakeNewKey, Goto
    <2> QED BY <1>1, <2>1, DecisionRest
  <1>5. ASSUME NEW built \in Payloads \cup {"none"}, Send(o, built),
               phase' = [phase EXCEPT ![o] = "calling"]
        PROVE  /\ TypeOK' /\ ResultInv'
               /\ \A p \in Orders : p # o => OrderInv(p)'
    BY <1>5, SendRest
  <1>6. CASE Call(o) \/ ResendLater(o)
    BY <1>1, <1>5, <1>6 DEF Call, ResendLater, Goto
  <1>7. CASE Learn(o)
    BY <1>2, <1>5, <1>7 DEF Learn, Goto
  <1> QED BY <1>3, <1>4, <1>6, <1>7 DEF Decide

LEMMA CallEndsRest ==
  ASSUME IInv, NEW o \in Orders, Return(o) \/ Deadline(o) \/ Crash(o)
  PROVE  /\ TypeOK' /\ ResultInv'
         /\ \A p \in Orders : p # o => OrderInv(p)'
  <1>1. /\ TypeOK /\ calls[o] # 0
        /\ phase[o] = "calling" => current(o) \in Calls
    <2>1. TypeOK /\ OrderInv(o) /\ calls[o] \in 0..MaxCalls /\ MaxCalls \in Nat
      BY Types DEF IInv
    <2>2. calls[o] # 0
      BY <2>1 DEF Return, Deadline, Returns, Crash, Goto, OrderInv, PhaseInv
    <2> QED BY <2>1, <2>2 DEF current, Calls
  <1>2. ASSUME NEW err, err.kind \in Kinds \cup {"none"}, Returns(o, err)
        PROVE  /\ TypeOK' /\ ResultInv'
               /\ \A p \in Orders : p # o => OrderInv(p)'
    <2>1. /\ UNCHANGED <<key, payload, firstSent, calls, clock, known, charged>>
          /\ faults' \in 0..MaxFaults /\ Leave(o)
          /\ phase' = [phase EXCEPT ![o] = "told"]
          /\ result' = [result EXCEPT ![o] = err]
          /\ doubted' \in {doubted, doubted \cup {inUse(o)}}
      BY <1>1, <1>2 DEF Returns, Goto, providerVars, TypeOK
    <2> QED BY <1>1, <1>2, <2>1, LeaveRest
  <1>3. CASE Return(o)
    <2>1. answer[current(o)].status \in Nat
      BY <1>1, <1>3, AnswerStatuses DEF Return, TypeOK
    <2>2. Verdict(answer[current(o)]).kind \in Kinds \cup {"none"}
      BY <2>1, VerdictKinds
    <2> QED BY <1>2, <1>3, <2>2 DEF Return, Verdict
  <1>4. CASE Deadline(o)
    <2>1. Error("UnknownOutcome", 0, NoText).kind \in Kinds \cup {"none"}
      BY DEF Error, Kinds
    <2> QED BY <1>2, <1>4, <2>1 DEF Deadline
  <1>5. CASE Crash(o)
    <2>1. NoError.kind \in Kinds \cup {"none"}
      BY DEF NoError, Error
    <2>2. /\ UNCHANGED <<key, payload, firstSent, calls, clock, known, charged>>
          /\ faults' \in 0..MaxFaults /\ Leave(o)
          /\ phase' = [phase EXCEPT ![o] = "ready"]
          /\ result' = [result EXCEPT ![o] = NoError]
          /\ doubted' \in {doubted, doubted \cup {inUse(o)}}
      BY <1>1, <1>5, KeyedChargesAssumption DEF Crash, Fault, Goto, providerVars, TypeOK
    <2> QED BY <1>1, <2>1, <2>2, LeaveRest
  <1> QED BY <1>3, <1>4, <1>5

LEMMA AnsweredTypes ==
  ASSUME TypeOK, ResultInv, NEW c \in Calls, NEW given \in Answers, Answered(c, given),
         UNCHANGED providerVars, faults' \in 0..MaxFaults
  PROVE  TypeOK' /\ ResultInv'
  <1>1. NoRequest \in [key : 0..MaxKeys, payload : Payloads \cup {"none"}]
    BY KeyedChargesAssumption DEF NoRequest
  <1>2. /\ UNCHANGED <<callerVars, providerVars, clock>>
        /\ stage' \in [Calls -> {"unsent", "wire", "held", "answered", "gone"}]
        /\ request' \in [Calls -> [key : 0..MaxKeys, payload : Payloads \cup {"none"}]]
        /\ answer' \in [Calls -> Answers]
    BY <1>1 DEF Answered, To, TypeOK
  <1> QED BY <1>2 DEF TypeOK, ResultInv, callerVars, providerVars

LEMMA ReplyTypes ==
  ASSUME TypeOK, ResultInv, NEW c \in Calls, NEW given \in Answers, Reply(c, given),
         UNCHANGED providerVars
  PROVE  TypeOK' /\ ResultInv'
BY AnsweredTypes DEF Reply, TypeOK

LEMMA ProviderReplyTypes ==
  ASSUME IInv, NEW c \in Calls, Refuse(c) \/ AnswerKnown(c) \/ AnswerHeld(c)
  PROVE  TypeOK' /\ ResultInv'
  <1>1. TypeOK /\ ResultInv /\ UNCHANGED providerVars
    BY DEF IInv, Refuse, AnswerKnown, AnswerHeld
  <1>2. /\ \A r \in Refusals : r \in Answers
        /\ Says(400, InvalidRequestCode) \in Answers
        /\ Says(422, CodeIdempotencyConflict) \in Answers
        /\ Says(409, CodeIdempotencyInProgress) \in Answers
        /\ Says(409, CodeIdempotencyUnknownOutcome) \in Answers
        /\ Says(409, CodePaymentUnknownOutcome) \in Answers
        /\ \A code \in SavedCodes : SavedAnswer(code) \in Answers
    BY DEF Answers
  <1>3. ASSUME stage[c] \in {"wire", "held"}
        PROVE  /\ known[keyOf(c)].state \in {"unused", "processing", "undetermined", "done"}
               /\ known[keyOf(c)].state = "done" => known[keyOf(c)].code \in SavedCodes
    <2>1. /\ c[1] \in Orders /\ c[2] \in 1..MaxCalls /\ c = <<c[1], c[2]>>
          /\ OrderInv(c[1])
      BY CallShape DEF IInv
    <2>2. request[c].key \in 1..MaxKeys
      BY <1>3, <2>1, KeyedChargesAssumption DEF IInv, TypeOK, OrderInv, KeysInv
    <2> QED BY <1>1, <2>1, <2>2, Types DEF keyOf, OrderInv, KeysInv, KeyInv
  <1>4. CASE Refuse(c)
    BY <1>1, <1>2, <1>4, ReplyTypes DEF Refuse
  <1>5. CASE AnswerKnown(c)
    <2>1. known[keyOf(c)].state \in {"processing", "undetermined", "done"}
      BY <1>3, <1>5 DEF AnswerKnown
    <2>2. \/ Reply(c, Says(422, CodeIdempotencyConflict))
          \/ Reply(c, Says(409, CodeIdempotencyInProgress))
          \/ Reply(c, Says(409, CodeIdempotencyUnknownOutcome))
          \/ known[keyOf(c)].state = "done" /\ Reply(c, SavedAnswer(known[keyOf(c)].code))
      BY <1>5, <2>1 DEF AnswerKnown
    <2> QED BY <1>1, <1>2, <1>3, <1>5, <2>2, ReplyTypes DEF AnswerKnown
  <1>6. CASE AnswerHeld(c)
    BY <1>1, <1>2, <1>3, <1>6, ReplyTypes DEF AnswerHeld
  <1> QED BY <1>4, <1>5, <1>6

LEMMA NetworkTypes ==
  ASSUME IInv, Network
  PROVE  TypeOK' /\ ResultInv'
  <1>1. TypeOK /\ ResultInv
    BY DEF IInv
  <1>2. CASE Tick
    <2>1. /\ clock' \in 0..MaxTime
          /\ UNCHANGED <<callerVars, wireVars, faults, providerVars>>
      BY <1>1, <1>2, KeyedChargesAssumption DEF Tick, TypeOK
    <2> QED BY <1>1, <2>1 DEF TypeOK, ResultInv, callerVars, wireVars, providerVars
  <1>3. ASSUME Fault PROVE faults' \in 0..MaxFaults
    BY <1>1, <1>3, KeyedChargesAssumption DEF Fault, TypeOK
  <1>4. ASSUME NEW c \in Calls, Lose(c) PROVE TypeOK' /\ ResultInv'
    <2>1. NoRequest \in [key : 0..MaxKeys, payload : Payloads \cup {"none"}]
      BY KeyedChargesAssumption DEF NoRequest
    <2>2. /\ UNCHANGED <<callerVars, answer, clock, providerVars>>
          /\ faults' \in 0..MaxFaults
          /\ stage' \in [Calls -> {"unsent", "wire", "held", "answered", "gone"}]
          /\ request' \in [Calls -> [key : 0..MaxKeys, payload : Payloads \cup {"none"}]]
      BY <1>1, <1>3, <1>4, <2>1 DEF Lose, To, TypeOK
    <2> QED BY <1>1, <2>2 DEF TypeOK, ResultInv, callerVars, providerVars
  <1>5. ASSUME NEW c \in Calls, Garble(c) PROVE TypeOK' /\ ResultInv'
    <2>1. Garbled \subseteq Answers
      BY DEF Answers
    <2> QED BY <1>1, <1>3, <1>5, <2>1, AnsweredTypes DEF Garble
  <1> QED BY <1>2, <1>4, <1>5 DEF Network

LEMMA WorkTypes ==
  ASSUME IInv, NEW k \in Keys, Settle(k) \/ Interrupt(k) \/ Forget(k)
  PROVE  TypeOK' /\ ResultInv'
  <1> DEFINE Entries == [state : {"unused", "processing", "undetermined", "done"},
                         payload : Payloads \cup {"none"}, since : 0..MaxTime,
                         code : SavedCodes \cup {NoText}]
  <1>1. TypeOK /\ ResultInv /\ known \in [Keys -> Entries] /\ charged \in [Keys -> Nat]
    BY DEF IInv, TypeOK
  <1>2. UNCHANGED <<callerVars, wireVars, clock>>
    BY DEF Settle, Interrupt, Forget
  <1>3. faults' \in 0..MaxFaults
    BY <1>1, KeyedChargesAssumption DEF Settle, Interrupt, Forget, Fault, TypeOK
  <1>4. CASE Settle(k)
    <2>1. PICK code \in SavedCodes :
            /\ known' = [known EXCEPT ![k].state = "done", ![k].code = code]
            /\ charged' = [charged EXCEPT ![k] = IF code = CodeSuccess THEN @ + 1 ELSE @]
      BY <1>4 DEF Settle, SavedCodes
    <2>2. known' \in [Keys -> Entries] /\ charged' \in [Keys -> Nat]
      <3> DEFINE entry == [known[k] EXCEPT !.state = "done", !.code = code]
      <3>1. known' = [known EXCEPT ![k] = entry]
        BY <1>1, <2>1
      <3>2. known[k] \in Entries /\ entry \in Entries
        BY <1>1
      <3>3. charged[k] \in Nat /\ charged[k] + 1 \in Nat
        BY <1>1
      <3>4. charged' \in [Keys -> Nat]
        BY <1>1, <2>1, <3>3
      <3> HIDE DEF entry, Entries
      <3> QED BY <1>1, <3>1, <3>2, <3>4
    <2> QED BY <1>1, <1>2, <1>3, <2>2 DEF TypeOK, ResultInv, callerVars, wireVars
  <1>5. CASE Interrupt(k)
    <2>1. known' \in [Keys -> Entries] /\ charged' \in [Keys -> Nat]
      BY <1>1, <1>5 DEF Interrupt
    <2> QED BY <1>1, <1>2, <1>3, <2>1 DEF TypeOK, ResultInv, callerVars, wireVars
  <1>6. CASE Forget(k)
    <2>1. Unused \in Entries
      BY KeyedChargesAssumption DEF Unused
    <2>2. known' \in [Keys -> Entries] /\ charged' \in [Keys -> Nat]
      BY <1>1, <1>6, <2>1 DEF Forget
    <2> QED BY <1>1, <1>2, <1>3, <2>2 DEF TypeOK, ResultInv, callerVars, wireVars
  <1> QED BY <1>4, <1>5, <1>6

LEMMA AcceptTypes ==
  ASSUME IInv, NEW c \in Calls, Accept(c)
  PROVE  TypeOK' /\ ResultInv'
  <1> DEFINE Entries == [state : {"unused", "processing", "undetermined", "done"},
                         payload : Payloads \cup {"none"}, since : 0..MaxTime,
                         code : SavedCodes \cup {NoText}]
             entry == [state |-> "processing", payload |-> request[c].payload,
                       since |-> clock, code |-> NoText]
  <1>1. TypeOK /\ ResultInv /\ known \in [Keys -> Entries]
    BY DEF IInv, TypeOK
  <1>2. entry \in Entries
    BY <1>1 DEF TypeOK
  <1>3. known' = [known EXCEPT ![keyOf(c)] = entry]
    BY DEF Accept
  <1> HIDE DEF entry
  <1>4. known' \in [Keys -> Entries]
    BY <1>1, <1>2, <1>3
  <1>5. /\ UNCHANGED <<callerVars, request, answer, clock, faults, charged>>
        /\ stage' \in [Calls -> {"unsent", "wire", "held", "answered", "gone"}]
    BY <1>1 DEF Accept, To, TypeOK
  <1> QED BY <1>1, <1>4, <1>5 DEF TypeOK, ResultInv, callerVars

-----------------------------------------------------------------------------
(***************************************************************************)
(* The invariant is inductive.                                             *)
(***************************************************************************)
LEMMA InitInv ==
  ASSUME Init
  PROVE  IInv
  <1>1. TypeOK
    <2>1. NoAnswer \in Answers /\ NoError.kind = "none"
      BY DEF Answers, NoError, Error
    <2>2. NoRequest \in [key : 0..MaxKeys, payload : Payloads \cup {"none"}]
      BY KeyedChargesAssumption DEF NoRequest
    <2>3. Unused \in [state : {"unused", "processing", "undetermined", "done"},
                      payload : Payloads \cup {"none"}, since : 0..MaxTime,
                      code : SavedCodes \cup {NoText}]
      BY KeyedChargesAssumption DEF Unused
    <2> QED BY <2>1, <2>2, <2>3, KeyedChargesAssumption DEF Init, TypeOK
  <1>2. ResultInv
    BY DEF Init, ResultInv
  <1>3. ASSUME NEW o \in Orders
        PROVE  OrderInv(o)
    <2>1. /\ \A j \in 1..MaxKeys : known[<<o, j>>] = Unused /\ charged[<<o, j>>] = 0
          /\ \A n \in 1..MaxCalls : stage[<<o, n>>] = "unsent"
      BY DEF Init, Keys, Calls
    <2>2. Unused.state = "unused"
      BY DEF Unused
    <2>3. \A j \in 1..MaxKeys : Untouched(o, j) /\ KeyInv(o, j)
      BY <2>1, <2>2 DEF Untouched, KeyInv, Underway, OnWire, Held
    <2>4. /\ key[o] = 1 /\ 1 \in 1..MaxKeys /\ firstSent[o] = NotSent /\ clock = 0
          /\ phase[o] = "ready" /\ doubted = {}
      BY KeyedChargesAssumption DEF Init
    <2>5. KeysInv(o)
      BY <2>1, <2>3, <2>4 DEF KeysInv
    <2>6. WindowInv(o)
      BY <2>1, <2>2, <2>3, <2>4 DEF WindowInv, inUse, NotSent
    <2>7. PhaseInv(o)
      BY <2>4 DEF PhaseInv
    <2> QED BY <2>5, <2>6, <2>7 DEF OrderInv
  <1> QED BY <1>1, <1>2, <1>3 DEF IInv

LEMMA NextInv ==
  ASSUME IInv, [Next]_chargeVars
  PROVE  IInv'
  <1>1. ASSUME NEW o \in Orders, Decide(o)
        PROVE  IInv'
    <2>1. OrderInv(o)'
      BY <1>1, CallStep, FinishStep, ResendLaterStep, TakeNewKeyStep, AcceptRefusalStep,
         AskStep, LearnStep DEF Decide
    <2> QED BY <1>1, <2>1, DecideRest DEF IInv
  <1>2. ASSUME NEW o \in Orders, Return(o) \/ Deadline(o) \/ Crash(o)
        PROVE  IInv'
    <2>1. OrderInv(o)'
      BY <1>2, ReturnStep, DeadlineStep, CrashStep
    <2> QED BY <1>2, <2>1, CallEndsRest DEF IInv
  <1>3. CASE Network
    BY <1>3, NetworkTypes, TickStep, LoseStep, GarbleStep DEF Network, IInv
  <1>4. CASE Provider
    <2>1. ASSUME NEW c \in Calls, Refuse(c) \/ AnswerKnown(c) \/ AnswerHeld(c)
          PROVE  IInv'
      BY <2>1, ProviderReplyTypes, RefuseStep, AnswerKnownStep, AnswerHeldStep DEF IInv
    <2>2. ASSUME NEW c \in Calls, Accept(c)
          PROVE  IInv'
      BY <2>2, AcceptTypes, AcceptStep DEF IInv
    <2>3. ASSUME NEW k \in Keys, Settle(k) \/ Interrupt(k) \/ Forget(k)
          PROVE  IInv'
      BY <2>3, WorkTypes, SettleStep, InterruptStep, ForgetStep DEF IInv
    <2> QED BY <1>4, <2>1, <2>2, <2>3 DEF Provider
  <1>5. CASE UNCHANGED chargeVars
    <2>1. UNCHANGED <<phase, key, payload, firstSent, calls, result, doubted, stage, request,
                      answer, clock, faults, known, charged>>
      BY <1>5 DEF chargeVars, callerVars, wireVars, providerVars
    <2>2. TypeOK' /\ ResultInv'
      BY <2>1 DEF IInv, TypeOK, ResultInv
    <2>3. \A o \in Orders : OrderInv(o)'
      BY <2>1, Frame DEF IInv, SameKeys, SameCalls, SameCaller
    <2> QED BY <2>2, <2>3 DEF IInv
  <1> QED BY <1>1, <1>2, <1>3, <1>4, <1>5 DEF Next

LEMMA InvHolds == Spec => []IInv
  <1> QED BY InitInv, NextInv, PTL DEF Spec

(* The caller, the network and the provider keep to their types: whatever  *)
(* is answered, respond makes an error of a documented kind of it.         *)
THEOREM TypeCorrect == Spec => []TypeOK
  <1>1. IInv => TypeOK
    BY DEF IInv
  <1> QED BY <1>1, InvHolds, PTL

(* Whatever it took, resends, crashes, requests built anew, new keys, keys *)
(* that expire, an order is paid once at most.                             *)
THEOREM OrdersAreChargedOnce == Spec => []ChargedOnce
  <1>1. IInv => ChargedOnce
    <2>1. SUFFICES ASSUME IInv, NEW o \in Orders, NEW j \in 1..MaxKeys, NEW k \in 1..MaxKeys
                   PROVE  /\ charged[<<o, j>>] \in {0, 1}
                          /\ charged[<<o, j>>] > 0 /\ charged[<<o, k>>] > 0 => j = k
      BY DEF ChargedOnce
    <2>2. \A i \in 1..MaxKeys : charged[<<o, i>>] \in {0, 1} /\ (charged[<<o, i>>] > 0 => i = key[o])
      <3>1. SUFFICES ASSUME NEW i \in 1..MaxKeys
                     PROVE  /\ charged[<<o, i>>] \in {0, 1}
                            /\ charged[<<o, i>>] > 0 => i = key[o]
        OBVIOUS
      <3>2. OrderInv(o) /\ key[o] \in 1..MaxKeys /\ MaxKeys \in Nat
        BY <2>1, Types DEF IInv
      <3>3. charged[<<o, i>>] \in {0, 1}
        BY <3>2 DEF OrderInv, KeysInv, KeyInv
      <3>4. i # key[o] => charged[<<o, i>>] = 0
        BY <3>2 DEF OrderInv, KeysInv, Dead, Untouched
      <3> QED BY <3>3, <3>4
    <2> QED BY <2>2
  <1> QED BY <1>1, InvHolds, PTL

-----------------------------------------------------------------------------
(***************************************************************************)
(* Over all its calls and keys, an order is one write of the ledger.       *)
(***************************************************************************)
books == [o \in Orders |-> Told(o)]

paid == {o \in Orders : HasCharge(o)}

LEMMA UnpaidUntilSettled ==
  ASSUME TypeOK, NEW o \in Orders, OrderInv(o)
  PROVE  HasCharge(o) <=> charged[inUse(o)] = 1
  <1>1. inUse(o) \in Keys /\ inUse(o)[1] = o
    BY Types DEF inUse
  <1> QED BY <1>1, OnlyCurrentCharged DEF HasCharge

LEMMA SamePaid ==
  ASSUME UNCHANGED charged
  PROVE  UNCHANGED paid
BY DEF paid, HasCharge

(* What an order moving on, with or without a call, is in its books. *)
LEMMA BooksMove ==
  ASSUME TypeOK, NEW o \in Orders, NEW to, phase' = [phase EXCEPT ![o] = to],
         NEW made, calls' = [calls EXCEPT ![o] = made]
  PROVE  /\ books' = [books EXCEPT ![o] = Told(o)']
         /\ phase'[o] = to /\ calls'[o] = made
  <1>1. \A p \in Orders : p # o => UNCHANGED Told(p)
    BY DEF Told, TypeOK
  <1>2. phase'[o] = to /\ calls'[o] = made
    BY DEF TypeOK
  <1>3. \A p \in Orders : books'[p] = IF p = o THEN Told(o)' ELSE books[p]
    BY <1>1 DEF books, Told
  <1>4. books' = [p \in Orders |-> books'[p]] /\ books = [p \in Orders |-> books[p]]
    BY DEF books
  <1> QED BY <1>2, <1>3, <1>4

(* A step between two places that are the same to the books. *)
LEMMA BooksStay ==
  ASSUME TypeOK, NEW o \in Orders, UNCHANGED charged, phase[o] # "ready" \/ calls[o] # 0,
         phase[o] \notin {"done", "refused", "gaveUp"},
         NEW to \in {"ready", "calling", "told", "asking"},
         phase' = [phase EXCEPT ![o] = to],
         NEW made \in Nat, calls' = [calls EXCEPT ![o] = made], to # "ready" \/ made # 0
  PROVE  UNCHANGED <<books, paid>>
  <1>1. /\ books' = [books EXCEPT ![o] = Told(o)']
        /\ phase'[o] = to /\ calls'[o] = made
    BY BooksMove
  <1>2. Told(o) = "waiting" /\ Told(o)' = "waiting"
    BY <1>1 DEF Told
  <1>3. books = [books EXCEPT ![o] = "waiting"]
    BY <1>2 DEF books
  <1> QED BY <1>1, <1>2, <1>3, SamePaid

LEMMA BooksIdle ==
  ASSUME UNCHANGED <<phase, calls, charged>>
  PROVE  UNCHANGED <<books, paid>>
BY SamePaid DEF books, Told

LEMMA DecideRefines ==
  ASSUME IInv, NEW o \in Orders, Decide(o)
  PROVE  Ledger!LedgerNext \/ UNCHANGED <<books, paid>>
  <1>1. /\ TypeOK /\ OrderInv(o) /\ calls[o] \in Nat /\ calls[o] + 1 \in Nat
        /\ calls[o] + 1 # 0
        /\ UNCHANGED calls => calls' = [calls EXCEPT ![o] = calls[o]]
        /\ calls[o] = 0 => phase[o] = "ready" /\ inUse(o) \notin doubted
    <2>1. calls[o] \in Nat
      BY Types DEF IInv
    <2> QED BY <2>1 DEF IInv, TypeOK, OrderInv, PhaseInv
  <1>2. ASSUME NEW built, Send(o, built)
        PROVE  UNCHANGED charged /\ calls' = [calls EXCEPT ![o] = calls[o] + 1]
    BY <1>2 DEF Send, providerVars
  <1>3. ASSUME NEW to \in {"done", "refused", "gaveUp"}, phase' = [phase EXCEPT ![o] = to],
               phase[o] \in {"told", "asking"}, CallerOnly, UNCHANGED calls
        PROVE  /\ UNCHANGED paid /\ books[o] = "waiting"
               /\ books' = [books EXCEPT ![o] = IF to = "gaveUp" THEN "unknown" ELSE to]
    <2>1. /\ books' = [books EXCEPT ![o] = Told(o)']
          /\ phase'[o] = to
      <3>1. /\ TypeOK /\ phase' = [phase EXCEPT ![o] = to]
            /\ calls' = [calls EXCEPT ![o] = calls[o]]
        BY <1>1, <1>3
      <3> QED BY <3>1, BooksMove
    <2>2. Told(o) = "waiting" /\ Told(o)' = IF to = "gaveUp" THEN "unknown" ELSE to
      BY <1>3, <2>1 DEF Told
    <2> QED BY <1>3, <2>1, <2>2, SamePaid DEF CallerOnly, providerVars, books
  <1>4. CASE Call(o)
    <2>1. /\ phase[o] = "ready" /\ phase' = [phase EXCEPT ![o] = "calling"]
          /\ UNCHANGED charged /\ calls' = [calls EXCEPT ![o] = calls[o] + 1]
      BY <1>2, <1>4 DEF Call, Goto
    <2>2. CASE calls[o] # 0
      BY <1>1, <2>1, <2>2, BooksStay
    <2>3. CASE calls[o] = 0
      <3>1. books' = [books EXCEPT ![o] = Told(o)'] /\ phase'[o] = "calling"
        BY <1>1, <2>1, BooksMove
      <3>2. Told(o) = "nothing" /\ Told(o)' = "waiting" /\ books[o] = Told(o)
        BY <2>1, <2>3, <3>1 DEF Told, books
      <3>3. UNCHANGED paid
        BY <2>1, SamePaid
      <3> QED BY <3>1, <3>2, <3>3
          DEF Ledger!LedgerNext, Ledger!Submit, Ledger!Tell, books, paid
    <2> QED BY <2>2, <2>3
  <1>5. CASE Finish(o) \/ (Learn(o) /\ HasCharge(o))
    <2>1. /\ phase[o] \in {"told", "asking"} /\ phase' = [phase EXCEPT ![o] = "done"]
          /\ CallerOnly /\ UNCHANGED calls
      BY <1>5 DEF Finish, Learn, Goto
    <2>2. HasCharge(o)
      BY <1>1, <1>5, WhenTold, UnpaidUntilSettled DEF Finish, Goto, TrueOf
    <2>3. o \in paid
      BY <2>2 DEF paid
    <2>4. /\ UNCHANGED paid /\ books[o] = "waiting"
          /\ books' = [books EXCEPT ![o] = "done"]
      BY <1>3, <2>1
    <2> QED BY <2>3, <2>4 DEF Ledger!LedgerNext, Ledger!Confirm, Ledger!Tell, books, paid
  <1>6. CASE AcceptRefusal(o)
    <2>1. /\ phase[o] = "told" /\ phase' = [phase EXCEPT ![o] = "refused"]
          /\ CallerOnly /\ UNCHANGED calls
      BY <1>6 DEF AcceptRefusal, Goto
    <2>2. ~ HasCharge(o)
      <3>1. Dead(o, key[o])
        BY <1>6, <2>1, WhenTold DEF AcceptRefusal
      <3>2. charged[inUse(o)] # 1
        BY <3>1 DEF Dead, inUse
      <3> QED BY <1>1, <3>2, UnpaidUntilSettled
    <2>3. o \notin paid
      BY <2>2 DEF paid
    <2>4. /\ UNCHANGED paid /\ books[o] = "waiting"
          /\ books' = [books EXCEPT ![o] = "refused"]
      BY <1>3, <2>1
    <2> QED BY <2>3, <2>4 DEF Ledger!LedgerNext, Ledger!Refuse, Ledger!Tell, books, paid
  <1>7. CASE ResendLater(o) \/ TakeNewKey(o) \/ Ask(o)
    <2>1. PICK to \in {"ready", "calling", "told", "asking"} : phase' = [phase EXCEPT ![o] = to]
      BY <1>7 DEF ResendLater, TakeNewKey, Ask, Goto
    <2>2. /\ UNCHANGED charged
          /\ calls' = [calls EXCEPT ![o] = calls[o]] \/ calls' = [calls EXCEPT ![o] = calls[o] + 1]
      BY <1>1, <1>2, <1>7 DEF ResendLater, TakeNewKey, Ask, CallerOnly, providerVars
    <2>3. phase[o] \in {"told", "ready"} /\ calls[o] # 0
      BY <1>1, <1>7 DEF ResendLater, TakeNewKey, Ask, Goto
    <2> QED BY <1>1, <2>1, <2>2, <2>3, BooksStay
  <1>8. CASE Learn(o) /\ ~ HasCharge(o)
    <2>1. CASE phase' = [phase EXCEPT ![o] = "calling"] /\ \E built \in Payloads : Send(o, built)
      BY <1>1, <1>2, <1>8, <2>1, BooksStay DEF Learn, Goto
    <2>2. CASE phase' = [phase EXCEPT ![o] = "gaveUp"] /\ CallerOnly /\ UNCHANGED calls
      <3>1. /\ UNCHANGED paid /\ books[o] = "waiting"
            /\ books' = [books EXCEPT ![o] = "unknown"]
        BY <1>3, <1>8, <2>2 DEF Learn, Goto
      <3> QED BY <3>1 DEF Ledger!LedgerNext, Ledger!GiveUp, Ledger!Tell, books, paid
    <2> QED BY <1>8, <2>1, <2>2 DEF Learn, Goto
  <1> QED BY <1>4, <1>5, <1>6, <1>7, <1>8 DEF Decide

(* The end of a call decides nothing. *)
LEMMA CallEndRefines ==
  ASSUME IInv, NEW o \in Orders, Return(o) \/ Deadline(o) \/ Crash(o)
  PROVE  UNCHANGED <<books, paid>>
  <1>1. TypeOK /\ OrderInv(o) /\ calls[o] \in Nat
    BY Types DEF IInv
  <1>2. /\ UNCHANGED charged /\ calls' = [calls EXCEPT ![o] = calls[o]]
        /\ phase[o] \in {"calling", "told", "asking"}
    BY <1>1 DEF Return, Deadline, Returns, Crash, Goto, providerVars, TypeOK
  <1>3. PICK to \in {"ready", "told"} : phase' = [phase EXCEPT ![o] = to]
    BY DEF Return, Deadline, Returns, Crash, Goto
  <1>4. calls[o] # 0
    BY <1>1, <1>2 DEF OrderInv, PhaseInv
  <1> QED BY <1>1, <1>2, <1>3, <1>4, BooksStay

(* Money moves for an order that waits, or whose caller gave up. *)
LEMMA SettleRefines ==
  ASSUME IInv, NEW k \in Keys, Settle(k)
  PROVE  Ledger!LedgerNext \/ UNCHANGED <<books, paid>>
  <1>1. /\ k[1] \in Orders /\ k[2] \in 1..MaxKeys /\ k = <<k[1], k[2]>>
        /\ TypeOK /\ OrderInv(k[1])
    BY KeyShape DEF IInv
  <1>2. UNCHANGED <<phase, calls>> /\ UNCHANGED books
    BY DEF Settle, callerVars, books, Told
  <1>3. /\ k = inUse(k[1]) /\ charged[k] = 0 /\ ~ Dead(k[1], key[k[1]])
        /\ ~ Untouched(k[1], key[k[1]])
    BY <1>1, WorkIsCurrent DEF Settle, inUse
  <1>4. k[1] \notin paid
    BY <1>1, <1>3, UnpaidUntilSettled DEF paid
  <1>5. books[k[1]] \in {"waiting", "unknown"}
    <2>1. phase[k[1]] \notin {"done", "refused"} /\ (phase[k[1]] = "ready" => calls[k[1]] # 0)
      BY <1>1, <1>3 DEF OrderInv, PhaseInv, WindowInv
    <2> QED BY <1>1, <2>1 DEF books, Told
  <1>6. CASE UNCHANGED charged
    BY <1>2, <1>6, SamePaid
  <1>7. CASE charged' = [charged EXCEPT ![k] = charged[k] + 1]
    <2>1. charged'[k] > 0 /\ \A l \in Keys : l # k => charged'[l] = charged[l]
      BY <1>1, <1>3, <1>7 DEF TypeOK
    <2>2. \A p \in Orders : HasCharge(p)' <=> HasCharge(p) \/ p = k[1]
      BY <1>3, <2>1 DEF HasCharge
    <2>3. paid' = paid \cup {k[1]}
      BY <1>1, <2>2 DEF paid
    <2> QED BY <1>1, <1>2, <1>4, <1>5, <2>3 DEF Ledger!LedgerNext, Ledger!TakeEffect, books, paid
  <1>8. (UNCHANGED charged) \/ charged' = [charged EXCEPT ![k] = charged[k] + 1]
    BY <1>1 DEF Settle, TypeOK
  <1> QED BY <1>6, <1>7, <1>8

LEMMA NextRefines ==
  ASSUME IInv, [Next]_chargeVars
  PROVE  Ledger!LedgerNext \/ UNCHANGED <<books, paid>>
  <1>1. ASSUME UNCHANGED <<callerVars, providerVars>> \/ UNCHANGED <<callerVars, charged>>
        PROVE  UNCHANGED <<books, paid>>
    BY <1>1, BooksIdle DEF callerVars, providerVars
  <1>2. CASE Network
    BY <1>1, <1>2 DEF Network, Tick, Lose, Garble, Answered
  <1>3. ASSUME NEW c \in Calls, Refuse(c) \/ Accept(c) \/ AnswerKnown(c) \/ AnswerHeld(c)
        PROVE  UNCHANGED <<books, paid>>
    <2>1. UNCHANGED callerVars /\ UNCHANGED charged
      BY <1>3 DEF Refuse, Accept, AnswerKnown, AnswerHeld, Reply, Answered, providerVars
    <2> QED BY <1>1, <2>1
  <1>4. ASSUME NEW k \in Keys, Interrupt(k) \/ Forget(k)
        PROVE  UNCHANGED <<books, paid>>
    BY <1>1, <1>4 DEF Interrupt, Forget
  <1>5. CASE UNCHANGED chargeVars
    BY <1>1, <1>5 DEF chargeVars
  <1> QED BY <1>2, <1>3, <1>4, <1>5, DecideRefines, CallEndRefines, SettleRefines
      DEF Next, Provider

(* An order is submitted with its first request, confirmed or refused by   *)
(* the caller's decision, given up when its key's window has closed over   *)
(* silence; it is paid once, and never once it was called refused.         *)
THEOREM OrdersImplementLedger == Spec => OrderIsOneWrite
  <1>1. Init => Ledger!LedgerInit
    <2> SUFFICES ASSUME Init PROVE Ledger!LedgerInit
      OBVIOUS
    <2>1. \A o \in Orders : Told(o) = "nothing" /\ ~ HasCharge(o)
      BY DEF Init, Told, HasCharge
    <2> QED BY <2>1 DEF Ledger!LedgerInit
  <1>2. IInv /\ [Next]_chargeVars => [Ledger!LedgerNext]_(Ledger!ledger)
    <2> SUFFICES ASSUME IInv, [Next]_chargeVars
                 PROVE  Ledger!LedgerNext \/ UNCHANGED <<books, paid>>
      BY DEF Ledger!ledger, books, paid
    <2> QED BY NextRefines
  <1> QED BY <1>1, <1>2, InvHolds, PTL DEF Spec, OrderIsOneWrite, Ledger!LedgerSpec
=============================================================================
