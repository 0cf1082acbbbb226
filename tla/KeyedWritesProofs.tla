------------------------- MODULE KeyedWritesProofs -------------------------
(***************************************************************************)
(* A refund moves its money once, and over all its calls and keys it is    *)
(* one write of the ledger, for any number of refunds, keys, calls and     *)
(* faults, and whatever the provider and the gateway may answer within     *)
(* AnswersAssumption.                                                      *)
(***************************************************************************)
EXTENDS KeyedWrites, FiniteSetTheorems, TLAPS

Mine(i) == <<i, key[i]>>
Last(i) == <<i, calls[i], 1>>

(* The client cannot say yet what became of the refund. *)
Doubtful(err) == err.Kind \in {"UnknownOutcome", "InProgress", "RateLimited"}
Refusing(err) == err.Kind # "none" /\ ~ Doubtful(err) /\ ~ AsksForNewKey(err)

(* An answer that sends the caller on to a new key, or says that all is    *)
(* well, agrees with the state of the key it was asked about.              *)
Agrees(err, state) ==
  /\ AsksForNewKey(err) => state = "failed"
  /\ err.Kind = "none" => state = "done"

(* Each call's request was sent once, under a key its caller had taken,    *)
(* and what came back for it is still true.                                *)
MessageInv(m) == stage[m] # "unsent" =>
  /\ m[3] = 1 /\ m[2] <= calls[m[1]]
  /\ sentKey[<<m[1], m[2]>>] \in 1..key[m[1]]
  /\ stage[m] = "held" => keyState[KeyOf(m)] # "unused"
  /\ stage[m] = "answered" => Agrees(respond("POST", answer[m]), keyState[KeyOf(m)])

(* A key is used once its caller has taken it, and the caller takes the    *)
(* next one only when the refund under this one has failed.                *)
KeyInv(k) ==
  /\ keyState[k] # "unused" => k[2] <= key[k[1]] /\ calls[k[1]] > 0
  /\ k[2] < key[k[1]] => keyState[k] = "failed"
  /\ refunded[k] = IF keyState[k] = "done" THEN 1 ELSE 0

CallerInv(i) ==
  /\ \A n \in 1..MaxCalls : sentKey[<<i, n>>] <= key[i]
  /\ phase[i] = "start" => calls[i] = 0
  /\ phase[i] = "calling" => sends[i] = 1 /\ calls[i] > 0
  /\ phase[i] \notin {"start", "told"} => key[i] # NoKey
  /\ calls[i] > 0 => key[i] # NoKey /\ sentKey[<<i, calls[i]>>] = key[i]
  /\ key[i] # NoKey /\ phase[i] # "start" => calls[i] > 0
  /\ phase[i] = "done" => keyState[Mine(i)] = "done"

ResultInv(i) == phase[i] \in {"told", "querying"} =>
  /\ key[i] = NoKey => result[i].Kind = "InvalidInput" /\ result[i].Errno = NoErrno
  /\ key[i] # NoKey =>
       /\ Agrees(result[i], keyState[Mine(i)])
       /\ Doubtful(result[i]) => Mine(i) \in doubted
       /\ result[i].Kind = "none" => result[i] = NoError

(* With no call under its key left in doubt, a caller has made one call    *)
(* under it: a refusal of that one is the last word on the key.            *)
SoleInv(i) == phase[i] # "start" /\ key[i] # NoKey /\ Mine(i) \notin doubted =>
  /\ \A n \in 1..MaxCalls : n < calls[i] => sentKey[<<i, n>>] # key[i]
  /\ stage[Last(i)] = "wire" => keyState[Mine(i)] = "unused"
  /\ stage[Last(i)] = "answered" /\ Refusing(respond("POST", answer[Last(i)])) =>
       keyState[Mine(i)] = "unused"
  /\ phase[i] # "calling" => stage[Last(i)] \in {"answered", "lost"}
  /\ phase[i] \in {"told", "querying"} /\ Refusing(result[i]) => keyState[Mine(i)] = "unused"
  /\ phase[i] = "stopped" => keyState[Mine(i)] \in {"unused", "failed"}

IInv ==
  /\ TypeOK
  /\ \A m \in Messages : MessageInv(m)
  /\ \A k \in Keys : KeyInv(k)
  /\ \A i \in Refunds : CallerInv(i) /\ ResultInv(i) /\ SoleInv(i)
  /\ KindsAreDocumented

-----------------------------------------------------------------------------
(***************************************************************************)
(* What the client makes of one response.                                  *)
(***************************************************************************)
LEMMA EmptyErrno ==
  /\ NoErrno # ErrnoRefundRejected /\ NoErrno # ErrnoRefundKeyFailed
  /\ NoErrno # ErrnoChargeInProgress /\ NoErrno # ErrnoRefundInProgress
  <1>2. NoErrno # ErrnoRefundRejected
    BY Zenon DEF NoErrno, ErrnoRefundRejected
  <1>3. NoErrno # ErrnoRefundKeyFailed
    BY Zenon DEF NoErrno, ErrnoRefundKeyFailed
  <1>4. NoErrno # ErrnoChargeInProgress
    BY Zenon DEF NoErrno, ErrnoChargeInProgress
  <1>5. NoErrno # ErrnoRefundInProgress
    BY Zenon DEF NoErrno, ErrnoRefundInProgress
  <1> QED
    BY <1>2, <1>3, <1>4, <1>5

LEMMA RefusalKinds ==
  ASSUME NEW status \in Nat, NEW errno
  PROVE  /\ refusalKind(status, errno) \in Kinds \ {"RateLimited"}
         /\ refusalKind(status, errno) = "Declined" => errno = ErrnoRefundRejected
         /\ errno = NoErrno => refusalKind(status, errno) = "UnknownOutcome"
  <1>1. \A st \in DOMAIN kindOfStatus : kindOfStatus[st] \in Kinds \ {"Declined", "RateLimited"}
    BY DEF kindOfStatus, Kinds
  <1>2. clientErrorKind(status, errno) \in Kinds \ {"Declined", "RateLimited"}
    BY <1>1 DEF clientErrorKind, Kinds
  <1>3. refusalKind(status, errno) \in Kinds \ {"RateLimited"}
    BY <1>2 DEF refusalKind, Kinds
  <1>4. refusalKind(status, errno) = "Declined" => errno = ErrnoRefundRejected
    BY <1>2 DEF refusalKind
  <1>5. errno = NoErrno => refusalKind(status, errno) = "UnknownOutcome"
    BY EmptyErrno DEF refusalKind, decisiveErrnos
  <1> QED
    BY <1>3, <1>4, <1>5

(* The errno a response is read with. *)
errnoOf(r) == IF r.body = "object" /\ r.status \notin 200..299 THEN r.errno ELSE NoErrno

LEMMA RespondCases ==
  ASSUME NEW r, r.status \in Nat
  PROVE  \/ respond("POST", r) = Error("UnknownOutcome", r.status, NoErrno)
         \/ respond("POST", r) = Error("UnknownOutcome", r.status, errnoOf(r)) /\ r.status < 400
         \/ respond("POST", r) = rateLimited("POST", errnoOf(r))
         \/ /\ respond("POST", r) = NoError
            /\ r.status \in 200..299 /\ r.body = "object"
         \/ /\ respond("POST", r) = Error(refusalKind(r.status, errnoOf(r)), r.status, errnoOf(r))
            /\ r.status >= 400
  BY DEF respond, classify, errnoOf

LEMMA ErrorFields ==
  ASSUME NEW kind, NEW status, NEW errno
  PROVE  /\ Error(kind, status, errno).Kind = kind
         /\ Error(kind, status, errno).HTTPStatus = status
         /\ Error(kind, status, errno).Errno = errno
  BY DEF Error

LEMMA RateLimitedFields ==
  ASSUME NEW errno, NEW e, e = rateLimited("POST", errno)
  PROVE  e.Kind = "RateLimited" /\ e.Errno = errno /\ e.HTTPStatus = 429 /\ e.joinsUnknown
  BY DEF rateLimited, Error

LEMMA ErrorTypes ==
  ASSUME NEW kind \in Kinds \cup {"none"}, NEW status \in Nat, NEW errno \in Errnos
  PROVE  /\ Error(kind, status, errno) \in Errors
         /\ rateLimited("POST", errno) \in Errors
  <1>1. NoKey \in 0..MaxKeys
    BY KeyedWritesAssumption DEF NoKey
  <1>2. rateLimited("POST", errno) =
          [Kind |-> "RateLimited", HTTPStatus |-> 429, Errno |-> errno,
           IdempotencyKey |-> NoKey, joinsUnknown |-> ("POST" # "GET")]
    BY DEF rateLimited, Error
  <1>3. [Kind |-> "RateLimited", HTTPStatus |-> 429, Errno |-> errno,
         IdempotencyKey |-> NoKey, joinsUnknown |-> ("POST" # "GET")] \in Errors
    BY <1>1 DEF Errors, Kinds
  <1>4. Error(kind, status, errno) \in Errors
    BY <1>1 DEF Error, Errors
  <1> QED
    BY <1>2, <1>3, <1>4

LEMMA OpenKinds ==
  ASSUME NEW e
  PROVE  /\ e.Kind = "UnknownOutcome" => IsUnknownOutcome(e)
         /\ e.Kind = "RateLimited" /\ e.joinsUnknown => IsUnknownOutcome(e)
         /\ e.Kind = "InProgress" => IsInProgress(e)
  BY DEF IsUnknownOutcome, IsInProgress, Is

(* Only SA026 and SA027 ask for a new key, only a success is one, and the  *)
(* errors that leave the outcome open are those a caller can ask for.      *)
LEMMA Verdicts ==
  ASSUME NEW r \in Answers, r.status \in Nat, NEW e, e = respond("POST", r)
  PROVE  /\ e \in Errors
         /\ e.Errno \in {NoErrno, r.errno}
         /\ AsksForNewKey(e) => r.errno \in {ErrnoRefundKeyFailed, ErrnoRefundRejected}
         /\ e.Kind = "none" => e = NoError /\ r.status \in 200..299 /\ r.body = "object"
         /\ Doubtful(e) => IsUnknownOutcome(e) \/ IsInProgress(e)
         /\ r.errno = NoErrno /\ e.Kind # "none" => Doubtful(e)
  <1>0. /\ errnoOf(r) \in {NoErrno, r.errno} \cap Errnos
        /\ NoErrno \in {NoErrno, r.errno} \cap Errnos
    BY DEF errnoOf, Errnos
  <1>1. ASSUME NEW errno \in {NoErrno, r.errno} \cap Errnos,
               e = Error("UnknownOutcome", r.status, errno)
        PROVE  e \in Errors /\ e.Kind = "UnknownOutcome" /\ e.Errno = errno
    <2>1. e \in Errors
      BY <1>1, ErrorTypes DEF Kinds
    <2> QED
      BY <1>1, <2>1, ErrorFields
  <1>3. ASSUME e = rateLimited("POST", errnoOf(r))
        PROVE  e \in Errors /\ e.Kind = "RateLimited" /\ e.joinsUnknown /\ e.Errno = errnoOf(r)
    BY <1>0, <1>3, ErrorTypes, RateLimitedFields
  <1>4. ASSUME e = NoError
        PROVE  e \in Errors /\ e.Kind = "none" /\ e.Errno = NoErrno
    <2>1. e = Error("none", 0, NoErrno)
      BY <1>4 DEF NoError
    <2>2. e \in Errors
      BY <1>0, <2>1, ErrorTypes
    <2> QED
      BY <2>1, <2>2, ErrorFields
  <1>5. CASE e = Error(refusalKind(r.status, errnoOf(r)), r.status, errnoOf(r))
    <2>1. /\ e.Kind = refusalKind(r.status, errnoOf(r)) /\ e.Errno = errnoOf(r)
      BY <1>5, ErrorFields
    <2>2. e.Kind \in Kinds /\ e.Kind # "none"
      BY <2>1, RefusalKinds DEF Kinds
    <2>3. e \in Errors
      BY <1>0, <1>5, RefusalKinds, ErrorTypes
    <2>4. e.Kind = "Declined" => r.errno = ErrnoRefundRejected
      BY <1>0, <2>1, RefusalKinds
    <2>5. r.errno = NoErrno => e.Kind = "UnknownOutcome"
      BY <1>0, <2>1, RefusalKinds
    <2>6. e.Kind # "RateLimited"
      BY <2>1, RefusalKinds
    <2> QED
      BY <1>0, <2>1, <2>2, <2>3, <2>4, <2>5, <2>6, EmptyErrno, OpenKinds
         DEF Doubtful, AsksForNewKey
  <1>6. \/ \E errno \in {NoErrno, r.errno} \cap Errnos : e = Error("UnknownOutcome", r.status, errno)
        \/ e = rateLimited("POST", errnoOf(r))
        \/ e = NoError /\ r.status \in 200..299 /\ r.body = "object"
        \/ e = Error(refusalKind(r.status, errnoOf(r)), r.status, errnoOf(r))
    BY <1>0, RespondCases
  <1> QED
    BY <1>0, <1>1, <1>3, <1>4, <1>5, <1>6, EmptyErrno, OpenKinds
       DEF Doubtful, AsksForNewKey
-----------------------------------------------------------------------------
(***************************************************************************)
(* What each kind of answer tells the caller.                              *)
(***************************************************************************)
LEMMA ErrnosDiffer ==
  /\ ErrnoRefundInProgress \notin {ErrnoRefundKeyFailed, ErrnoRefundRejected}
  /\ ErrnoRefundUndetermined \notin decisiveErrnos \cup {ErrnoRefundKeyFailed}
  /\ ErrnoRefundKeyFailed \notin decisiveErrnos
  /\ ErrnoRefundRejected \notin {ErrnoChargeInProgress, ErrnoRefundInProgress}
  BY DEF decisiveErrnos, ErrnoRefundInProgress, ErrnoRefundKeyFailed, ErrnoRefundRejected,
         ErrnoRefundUndetermined, ErrnoChargeInProgress

LEMMA ReplyStates == DOMAIN Replies = {"processing", "undetermined", "done", "failed"}
  BY DEF Replies

LEMMA AnswerTypes ==
  /\ \A r \in Answers : r.status \in Nat
  /\ Rejected \in Answers /\ NoAnswer \in Answers
  /\ \A s \in DOMAIN Replies : Replies[s] \in Answers
  /\ Refusals \subseteq Answers /\ Garbled \subseteq Answers
  <1>1. \A s \in DOMAIN Replies : Replies[s].status \in Nat
    BY ReplyStates DEF Replies, Response
  <1>2. Rejected.status \in Nat /\ NoAnswer.status \in Nat
    BY DEF Rejected, NoAnswer, Response
  <1> QED
    BY <1>1, <1>2, AnswersAssumption DEF Answers

(* What a gateway answers leaves the outcome open. *)
LEMMA GarbledVerdict ==
  ASSUME NEW r \in Garbled, NEW e, e = respond("POST", r)
  PROVE  Doubtful(e) /\ e.Kind # "none" /\ ~ AsksForNewKey(e) /\ ~ Refusing(e)
  <1>1. r \in Answers /\ r.status \in Nat /\ r.errno = NoErrno
    BY AnswerTypes, AnswersAssumption
  <1>2. e.Kind # "none"
    BY <1>1, Verdicts, AnswersAssumption
  <1>3. Doubtful(e) /\ ~ AsksForNewKey(e)
    BY <1>1, <1>2, Verdicts, EmptyErrno
  <1> QED
    BY <1>2, <1>3 DEF Refusing

(* A refusal without a look at the key neither asks for a new one nor      *)
(* reads as a success.                                                     *)
LEMMA RefusalVerdict ==
  ASSUME NEW r \in Refusals, NEW e, e = respond("POST", r)
  PROVE  ~ AsksForNewKey(e) /\ e.Kind # "none"
  <1>1. r \in Answers /\ r.status \in Nat /\ r.status >= 400
    BY AnswerTypes, AnswersAssumption
  <1>2. r.status \notin 200..299
    BY <1>1
  <1> QED
    BY <1>1, <1>2, Verdicts, AnswersAssumption

(* The reply for a key agrees with its state, and none that is still open  *)
(* reads as a refusal.                                                     *)
LEMMA ReplyVerdicts ==
  ASSUME NEW state \in DOMAIN Replies, NEW e, e = respond("POST", Replies[state])
  PROVE  Agrees(e, state) /\ ~ Refusing(e)
  <1> DEFINE r == Replies[state]
  <1>1. r \in Answers /\ r.status \in Nat
    BY AnswerTypes
  <1>2. CASE state = "processing"
    <2>1. r.status = 409 /\ r.errno = ErrnoRefundInProgress /\ r.body = "object"
      BY <1>2 DEF Replies, Response
    <2>2. e = Error("InProgress", 409, ErrnoRefundInProgress)
      <3>1. refusalKind(409, ErrnoRefundInProgress) = "InProgress"
        BY ErrnosDiffer DEF refusalKind, decisiveErrnos
      <3> QED BY <2>1, <3>1 DEF respond, classify
    <2>3. e.Kind = "InProgress" /\ ~ AsksForNewKey(e)
      BY <1>1, <2>1, <2>2, ErrorFields, Verdicts, ErrnosDiffer
    <2> QED BY <2>3 DEF Agrees, Refusing, Doubtful
  <1>3. CASE state = "undetermined"
    <2>1. r.status = 503 /\ r.errno = ErrnoRefundUndetermined /\ r.body = "object"
      BY <1>3 DEF Replies, Response
    <2>2. e = Error("UnknownOutcome", 503, ErrnoRefundUndetermined)
      BY <2>1, ErrnosDiffer DEF respond, classify, refusalKind, decisiveErrnos
    <2>3. e.Kind = "UnknownOutcome" /\ e.Errno = ErrnoRefundUndetermined
      BY <2>2, ErrorFields
    <2> QED BY <2>3, ErrnosDiffer DEF Agrees, Refusing, Doubtful, AsksForNewKey
  <1>4. CASE state = "done"
    <2>1. r.status = 200 /\ r.errno = NoErrno /\ r.body = "object"
      BY <1>4 DEF Replies, Response
    <2>2. e = Error("none", 0, NoErrno)
      BY <2>1 DEF respond, classify, NoError
    <2>3. e.Kind = "none" /\ e.Errno = NoErrno
      BY <2>2, ErrorFields
    <2> QED BY <1>4, <2>3, EmptyErrno DEF Agrees, Refusing, AsksForNewKey
  <1>5. CASE state = "failed"
    <2>1. r.status = 409 /\ r.errno = ErrnoRefundKeyFailed /\ r.body = "object"
      BY <1>5 DEF Replies, Response
    <2>2. e = Error(refusalKind(409, ErrnoRefundKeyFailed), 409, ErrnoRefundKeyFailed)
      BY <2>1 DEF respond, classify
    <2>3. e.Errno = ErrnoRefundKeyFailed /\ e.Kind # "none"
      BY <1>1, <2>1, <2>2, ErrorFields, Verdicts
    <2> QED BY <1>5, <2>3 DEF Agrees, Refusing, AsksForNewKey
  <1> QED
    BY <1>2, <1>3, <1>4, <1>5, ReplyStates

LEMMA RejectedVerdict ==
  ASSUME NEW e, e = respond("POST", Rejected)
  PROVE  Agrees(e, "failed") /\ ~ Refusing(e)
  <1>1. Rejected.status = 502 /\ Rejected.errno = ErrnoRefundRejected /\ Rejected.body = "object"
    BY DEF Rejected, Response
  <1>2. e = Error("Declined", 502, ErrnoRefundRejected)
    <2>1. refusalKind(502, ErrnoRefundRejected) = "Declined"
      BY ErrnosDiffer DEF refusalKind, decisiveErrnos
    <2> QED BY <1>1, <2>1 DEF respond, classify
  <1>3. e.Kind = "Declined"
    BY <1>2, ErrorFields
  <1> QED
    BY <1>3 DEF Agrees, Refusing, AsksForNewKey

(* finish changes the key of an error and nothing else. *)
LEMMA FinishKeeps ==
  ASSUME NEW e \in Errors, NEW k \in 0..MaxKeys
  PROVE  /\ finish(k, e) \in Errors
         /\ finish(k, e).Kind = e.Kind
         /\ finish(k, e).Errno = e.Errno
         /\ finish(k, e).HTTPStatus = e.HTTPStatus
         /\ e = NoError => finish(k, e) = NoError
  BY DEF finish, Errors
-----------------------------------------------------------------------------
(***************************************************************************)
(* The table of errnos.                                                    *)
(***************************************************************************)
(* A row says of its errnos what the client makes of them. *)
RowHolds(row) ==
  /\ row.HTTPStatus >= 400 /\ row.HTTPStatus # 429
  /\ NoErrno \notin row.errnos
  /\ \A errno \in row.errnos : refusalKind(row.HTTPStatus, errno) = row.Kind

LEMMA RowFields ==
  ASSUME NEW status, NEW kind, NEW errnos, NEW row, row = Row(status, kind, errnos)
  PROVE  row.HTTPStatus = status /\ row.Kind = kind /\ row.errnos = errnos
  BY DEF Row

LEMMA KindsOfStatus ==
  /\ 400 \in DOMAIN kindOfStatus /\ kindOfStatus[400] = "InvalidRequest"
  /\ 422 \in DOMAIN kindOfStatus /\ kindOfStatus[422] = "InvalidRequest"
  /\ 401 \in DOMAIN kindOfStatus /\ kindOfStatus[401] = "Unauthorized"
  /\ 403 \in DOMAIN kindOfStatus /\ kindOfStatus[403] = "Forbidden"
  /\ 404 \in DOMAIN kindOfStatus /\ kindOfStatus[404] = "NotFound"
  /\ 409 \in DOMAIN kindOfStatus /\ kindOfStatus[409] = "Conflict"
  BY DEF kindOfStatus

(* An errno with no meaning of its own goes by its status. *)
LEMMA OrdinaryErrnos ==
  ASSUME NEW status \in DOMAIN kindOfStatus, NEW errno,
         errno \notin decisiveErrnos \cup {NoErrno, ErrnoRecoveryLinkState, ErrnoPaymentSuspended}
  PROVE  refusalKind(status, errno) = kindOfStatus[status]
  <1>1. status < 500 /\ status \in Nat
    BY DEF kindOfStatus
  <1>2. clientErrorKind(status, errno) = kindOfStatus[status]
    BY DEF clientErrorKind
  <1> QED
    BY <1>1, <1>2 DEF refusalKind, decisiveErrnos

specialErrnos == decisiveErrnos \cup {NoErrno, ErrnoRecoveryLinkState, ErrnoPaymentSuspended}

LEMMA OrdinaryRows ==
  ASSUME NEW status \in DOMAIN kindOfStatus, NEW errnos, errnos \cap specialErrnos = {},
         NEW row, row = Row(status, kindOfStatus[status], errnos)
  PROVE  RowHolds(row)
  <1>1. status >= 400 /\ status # 429
    BY DEF kindOfStatus
  <1>2. \A errno \in errnos : refusalKind(status, errno) = kindOfStatus[status]
    BY OrdinaryErrnos DEF specialErrnos
  <1> QED
    BY <1>1, <1>2, RowFields DEF RowHolds, specialErrnos

(* The rows whose errnos say more, or whose status says less. *)
LEMMA SpecialKinds ==
  /\ refusalKind(400, ErrnoRecoveryLinkState) = "Conflict"
  /\ refusalKind(422, ErrnoPaymentSuspended) = "Forbidden"
  /\ refusalKind(409, ErrnoChargeInProgress) = "InProgress"
  /\ refusalKind(409, ErrnoRefundInProgress) = "InProgress"
  /\ refusalKind(502, ErrnoRefundRejected) = "Declined"
  /\ refusalKind(503, ErrnoRefundUndetermined) = "UnknownOutcome"
  /\ refusalKind(503, "SA010") = "UnknownOutcome"
  /\ NoErrno \notin {ErrnoRecoveryLinkState, ErrnoPaymentSuspended, ErrnoChargeInProgress,
                    ErrnoRefundInProgress, ErrnoRefundRejected, ErrnoRefundUndetermined, "SA010"}
  <1> USE DEF decisiveErrnos, NoErrno, ErrnoRecoveryLinkState, ErrnoPaymentSuspended,
              ErrnoRefundRejected, ErrnoChargeInProgress, ErrnoRefundInProgress,
              ErrnoRefundUndetermined
  <1>1. /\ refusalKind(400, ErrnoRecoveryLinkState) = "Conflict"
        /\ refusalKind(422, ErrnoPaymentSuspended) = "Forbidden"
    BY DEF refusalKind, clientErrorKind
  <1>2. /\ refusalKind(409, ErrnoChargeInProgress) = "InProgress"
        /\ refusalKind(409, ErrnoRefundInProgress) = "InProgress"
        /\ refusalKind(502, ErrnoRefundRejected) = "Declined"
    BY DEF refusalKind
  <1>3. /\ refusalKind(503, ErrnoRefundUndetermined) = "UnknownOutcome"
        /\ refusalKind(503, "SA010") = "UnknownOutcome"
    BY DEF refusalKind
  <1> QED
    BY <1>1, <1>2, <1>3

LEMMA CommonRows == \A row \in commonErrnos : RowHolds(row)
  <1>1. /\ {"X006", "X019", "X028"} \cap specialErrnos = {}
        /\ {"X022"} \cap specialErrnos = {} /\ {"X023", "M002"} \cap specialErrnos = {}
        /\ {"X011"} \cap specialErrnos = {}
    BY DEF specialErrnos, decisiveErrnos, NoErrno, ErrnoRecoveryLinkState, ErrnoPaymentSuspended,
           ErrnoRefundRejected, ErrnoChargeInProgress, ErrnoRefundInProgress
  <1>2. /\ RowHolds(Row(400, "InvalidRequest", {"X006", "X019", "X028"}))
        /\ RowHolds(Row(401, "Unauthorized",   {"X022"}))
        /\ RowHolds(Row(403, "Forbidden",      {"X023", "M002"}))
        /\ RowHolds(Row(404, "NotFound",       {"X011"}))
    BY <1>1, OrdinaryRows, KindsOfStatus
  <1>3. RowHolds(Row(400, "Conflict", {ErrnoRecoveryLinkState}))
    BY RowFields, SpecialKinds DEF RowHolds
  <1>4. RowHolds(Row(422, "Forbidden", {ErrnoPaymentSuspended}))
    BY RowFields, SpecialKinds DEF RowHolds
  <1> QED
    BY <1>2, <1>3, <1>4 DEF commonErrnos

LEMMA SubscriptionRows == \A row \in subscriptionErrnos : RowHolds(row)
  <1> DEFINE conflicts == {"SA002", "SA003", "SA004", "SA005", "SA006", "SA008", "SA009",
                           "SA013", "SA014", "SA016"}
  <1>1. /\ {"SA001", "SA011", "SA045", "SA046"} \cap specialErrnos = {}
        /\ conflicts \cap specialErrnos = {}
        /\ {"SA012", "SA018"} \cap specialErrnos = {}
        /\ {"SA019", "SA047"} \cap specialErrnos = {}
    BY DEF specialErrnos, decisiveErrnos, NoErrno, ErrnoRecoveryLinkState, ErrnoPaymentSuspended,
           ErrnoRefundRejected, ErrnoChargeInProgress, ErrnoRefundInProgress
  <1>2. /\ RowHolds(Row(404, "NotFound",       {"SA001", "SA011", "SA045", "SA046"}))
        /\ RowHolds(Row(409, "Conflict",       conflicts))
        /\ RowHolds(Row(400, "InvalidRequest", {"SA012", "SA018"}))
        /\ RowHolds(Row(422, "InvalidRequest", {"SA019", "SA047"}))
    BY <1>1, OrdinaryRows, KindsOfStatus
  <1>3. RowHolds(Row(409, "InProgress", {ErrnoChargeInProgress}))
    BY RowFields, SpecialKinds DEF RowHolds
  <1>4. RowHolds(Row(503, "UnknownOutcome", {"SA010"}))
    BY RowFields, SpecialKinds DEF RowHolds
  <1> QED
    BY <1>2, <1>3, <1>4 DEF subscriptionErrnos

LEMMA RefundRows == \A row \in refundErrnos : RowHolds(row)
  <1> DEFINE conflicts == {"SA007", "SA021", "SA022", "SA023", "SA024", ErrnoRefundKeyFailed}
  <1>1. conflicts \cap specialErrnos = {}
    BY DEF ErrnoRefundKeyFailed, specialErrnos, decisiveErrnos, NoErrno, ErrnoRecoveryLinkState, ErrnoPaymentSuspended,
           ErrnoRefundRejected, ErrnoChargeInProgress, ErrnoRefundInProgress
  <1>2. RowHolds(Row(409, "Conflict", conflicts))
    BY <1>1, OrdinaryRows, KindsOfStatus
  <1>3. RowHolds(Row(409, "InProgress", {ErrnoRefundInProgress}))
    BY RowFields, SpecialKinds DEF RowHolds
  <1>4. RowHolds(Row(502, "Declined", {ErrnoRefundRejected}))
    BY RowFields, SpecialKinds DEF RowHolds
  <1>5. RowHolds(Row(503, "UnknownOutcome", {ErrnoRefundUndetermined}))
    BY RowFields, SpecialKinds DEF RowHolds
  <1> QED
    BY <1>2, <1>3, <1>4, <1>5 DEF refundErrnos

LEMMA KeyAndDeliveryRows == \A row \in keyAndDeliveryErrnos : RowHolds(row)
  <1>1. /\ {"SA034", "SA040", "SA041"} \cap specialErrnos = {}
        /\ {"SA030"} \cap specialErrnos = {}
        /\ {"SA031", "SA032", "SA033", "SA035", "SA044"} \cap specialErrnos = {}
    BY DEF specialErrnos, decisiveErrnos, NoErrno, ErrnoRecoveryLinkState, ErrnoPaymentSuspended,
           ErrnoRefundRejected, ErrnoChargeInProgress, ErrnoRefundInProgress
  <1>2. /\ RowHolds(Row(400, "InvalidRequest", {"SA034", "SA040", "SA041"}))
        /\ RowHolds(Row(404, "NotFound",       {"SA030"}))
        /\ RowHolds(Row(409, "Conflict", {"SA031", "SA032", "SA033", "SA035", "SA044"}))
    BY <1>1, OrdinaryRows, KindsOfStatus
  <1> QED
    BY <1>2 DEF keyAndDeliveryErrnos

Documented(e) ==
  \A row \in LookupErrno(e.Errno) : e.HTTPStatus = row.HTTPStatus => e.Kind = row.Kind

LEMMA VerdictsAreDocumented ==
  ASSUME NEW r, r.status \in Nat, NEW e, e = respond("POST", r)
  PROVE  Documented(e)
  <1> SUFFICES ASSUME NEW row \in errnoCatalog, e.Errno \in row.errnos,
                      e.HTTPStatus = row.HTTPStatus
               PROVE  e.Kind = row.Kind
    BY DEF Documented, LookupErrno
  <1>1. RowHolds(row)
    BY CommonRows, SubscriptionRows, RefundRows, KeyAndDeliveryRows DEF errnoCatalog
  <1>2. e.Errno # NoErrno /\ e.HTTPStatus >= 400 /\ e.HTTPStatus # 429
    BY <1>1 DEF RowHolds
  <1>3. e # NoError
    BY <1>2, ErrorFields DEF NoError
  <1>4. e = Error(refusalKind(r.status, errnoOf(r)), r.status, errnoOf(r))
    BY <1>2, <1>3, RespondCases, ErrorFields, RateLimitedFields
  <1>5. e.Kind = refusalKind(e.HTTPStatus, e.Errno)
    BY <1>4, ErrorFields
  <1> QED
    BY <1>1, <1>5 DEF RowHolds
-----------------------------------------------------------------------------
(***************************************************************************)
(* The invariant.                                                          *)
(***************************************************************************)
LEMMA Indexes ==
  /\ \A m \in Messages :
       /\ m[1] \in Refunds /\ m[2] \in 1..MaxCalls /\ m[3] \in 1..MaxSends
       /\ m = <<m[1], m[2], m[3]>> /\ <<m[1], m[2]>> \in Refunds \X (1..MaxCalls)
  /\ \A i \in Refunds, n \in 1..MaxCalls :
       <<i, n, 1>> \in Messages /\ <<i, n>> \in Refunds \X (1..MaxCalls)
  /\ \A i \in Refunds, n \in 1..MaxKeys : <<i, n>> \in Keys
  /\ \A k \in Keys : k[1] \in Refunds /\ k[2] \in 1..MaxKeys /\ k = <<k[1], k[2]>>
  BY KeyedWritesAssumption DEF Messages, Keys

LEMMA Bounds == MaxKeys \in Nat /\ MaxCalls \in Nat /\ MaxSends \in Nat /\ MaxFaults \in Nat
                  /\ MaxKeys >= 1 /\ MaxCalls >= 1 /\ MaxSends >= 1
  BY KeyedWritesAssumption

LEMMA NumberTypes ==
  ASSUME TypeOK, NEW i \in Refunds
  PROVE  /\ key[i] \in Nat /\ key[i] <= MaxKeys
         /\ calls[i] \in Nat /\ calls[i] <= MaxCalls /\ sends[i] \in Nat
         /\ \A n \in 1..MaxCalls : sentKey[<<i, n>>] \in Nat
  BY Indexes, Bounds DEF TypeOK

LEMMA NoErrorTypes ==
  /\ NoError \in Errors /\ newValidationError \in Errors /\ transportFailure \in Errors
  /\ Documented(NoError) /\ Documented(newValidationError) /\ Documented(transportFailure)
  <1>1. /\ NoError \in Errors /\ newValidationError \in Errors /\ transportFailure \in Errors
    BY ErrorTypes DEF NoError, newValidationError, transportFailure, Kinds, Errnos
  <1>2. \A row \in errnoCatalog : RowHolds(row)
    BY CommonRows, SubscriptionRows, RefundRows, KeyAndDeliveryRows DEF errnoCatalog
  <1>3. LookupErrno(NoErrno) = {}
    BY <1>2 DEF LookupErrno, RowHolds
  <1> QED
    BY <1>1, <1>3, ErrorFields DEF Documented, NoError, newValidationError, transportFailure

LEMMA InitInv == Init => IInv
  <1> SUFFICES ASSUME Init PROVE IInv
    OBVIOUS
  <1>1. TypeOK
    BY NoErrorTypes, AnswerTypes, Bounds DEF Init, TypeOK, NoKey
  <1>2. \A m \in Messages : MessageInv(m)
    BY DEF Init, MessageInv
  <1>3. \A k \in Keys : KeyInv(k)
    BY Indexes DEF Init, KeyInv, NoKey
  <1>4. ASSUME NEW i \in Refunds PROVE CallerInv(i) /\ ResultInv(i) /\ SoleInv(i)
    BY Indexes DEF Init, CallerInv, ResultInv, SoleInv, NoKey
  <1>5. KindsAreDocumented
    BY NoErrorTypes DEF Init, KindsAreDocumented, Documented
  <1> QED
    BY <1>1, <1>2, <1>3, <1>4, <1>5 DEF IInv

(* A call is sent: Call, Resend, and a new call after a query.             *)
LEMMA SendStep ==
  ASSUME IInv, NEW i \in Refunds, NEW k \in 1..MaxKeys, Send(i, k),
         phase' = [phase EXCEPT ![i] = "calling"], key' = [key EXCEPT ![i] = k],
         \/ k = key[i] /\ (phase[i] = "start" \/ Mine(i) \in doubted)
         \/ k = key[i] + 1 /\ key[i] # NoKey /\ keyState[Mine(i)] = "failed"
  PROVE  IInv'
  <1> DEFINE n == calls[i] + 1
             sent == <<i, n, 1>>
  <1> USE Bounds
  <1>t. TypeOK
    BY DEF IInv
  <1>n. \A j \in Refunds : /\ key[j] \in Nat /\ calls[j] \in Nat /\ calls[j] <= MaxCalls
                            /\ \A l \in 1..MaxCalls : sentKey[<<j, l>>] \in Nat
    BY <1>t, NumberTypes
  <1>1. /\ n \in 1..MaxCalls /\ sent \in Messages /\ <<i, n>> \in Refunds \X (1..MaxCalls)
        /\ key[i] \in Nat /\ k \in Nat /\ k >= key[i] /\ <<i, k>> \in Keys
    BY Indexes, <1>n DEF Send
  <1>2. TypeOK'
    BY <1>1, <1>t, Indexes DEF TypeOK, Send, providerVars
  <1>3. /\ \A m \in Messages : stage'[m] = IF m = sent THEN "wire" ELSE stage[m]
        /\ \A c \in Refunds \X (1..MaxCalls) : sentKey'[c] = IF c = <<i, n>> THEN k ELSE sentKey[c]
        /\ \A j \in Refunds : key'[j] = IF j = i THEN k ELSE key[j]
        /\ \A j \in Refunds : calls'[j] = IF j = i THEN n ELSE calls[j]
        /\ \A j \in Refunds : sends'[j] = IF j = i THEN 1 ELSE sends[j]
        /\ \A j \in Refunds : phase'[j] = IF j = i THEN "calling" ELSE phase[j]
        /\ result' = result /\ doubted' = doubted /\ answer' = answer
        /\ keyState' = keyState /\ refunded' = refunded
    BY <1>t DEF TypeOK, Send, providerVars
  <1>4. ASSUME NEW m \in Messages PROVE MessageInv(m)'
    <2>1. MessageInv(m) /\ m[1] \in Refunds /\ <<m[1], m[2]>> \in Refunds \X (1..MaxCalls)
      BY Indexes DEF IInv
    <2>2. CASE m = sent
      BY <1>1, <1>3, <2>1, <2>2 DEF MessageInv
    <2>3. CASE m # sent /\ stage[m] = "unsent"
      BY <1>3, <2>3 DEF MessageInv
    <2>4. CASE m # sent /\ stage[m] # "unsent"
      <3>1. <<m[1], m[2]>> # <<i, n>>
        BY <2>1, <2>4, Indexes, <1>n DEF MessageInv
      <3>2. sentKey'[<<m[1], m[2]>>] = sentKey[<<m[1], m[2]>>] /\ KeyOf(m)' = KeyOf(m)
        BY <1>3, <2>1, <3>1 DEF KeyOf
      <3>3. key[m[1]] <= key'[m[1]] /\ calls[m[1]] <= calls'[m[1]]
        BY <1>1, <1>3, <2>1, <1>n
      <3> QED
        BY <1>3, <2>1, <2>4, <3>2, <3>3, <1>n, Indexes DEF MessageInv
    <2> QED
      BY <2>2, <2>3, <2>4
  <1>5. ASSUME NEW j \in Keys PROVE KeyInv(j)'
    <2>1. KeyInv(j) /\ j[1] \in Refunds /\ j[2] \in 1..MaxKeys /\ j = <<j[1], j[2]>>
      BY Indexes DEF IInv
    <2>2. calls'[j[1]] >= calls[j[1]] /\ key'[j[1]] >= key[j[1]]
      BY <1>1, <1>3, <2>1, <1>n
    <2>3. j[2] < key'[j[1]] => j[2] < key[j[1]] \/ (j = Mine(i) /\ keyState[Mine(i)] = "failed")
      <3>1. ASSUME j[1] = i, k = key[i] + 1, j[2] < k, ~ (j[2] < key[i]) PROVE j = Mine(i)
        <4>1. j[2] = key[i]
          BY <1>1, <2>1, <3>1, <1>n
        <4> QED BY <2>1, <3>1, <4>1 DEF Mine
      <3>2. key'[j[1]] = IF j[1] = i THEN k ELSE key[j[1]]
        BY <1>3, <2>1
      <3>3. CASE k = key[i]
        BY <3>2, <3>3
      <3>4. CASE k = key[i] + 1 /\ keyState[Mine(i)] = "failed"
        BY <3>1, <3>2, <3>4
      <3> QED BY <3>3, <3>4
    <2> QED
      BY <1>1, <1>3, <2>1, <2>2, <2>3, <1>n DEF KeyInv
  <1>6. ASSUME NEW j \in Refunds PROVE CallerInv(j)' /\ ResultInv(j)' /\ SoleInv(j)'
    <2>1. CallerInv(j) /\ ResultInv(j) /\ SoleInv(j)
      BY DEF IInv
    <2>2. CASE j # i
      <3>1. /\ phase'[j] = phase[j] /\ key'[j] = key[j] /\ calls'[j] = calls[j]
            /\ sends'[j] = sends[j] /\ Mine(j)' = Mine(j) /\ Last(j)' = Last(j)
            /\ \A l \in 1..MaxCalls : sentKey'[<<j, l>>] = sentKey[<<j, l>>]
        BY <1>3, <2>2, Indexes DEF Mine, Last
      <3>2. calls[j] > 0 => stage'[Last(j)] = stage[Last(j)] /\ calls[j] \in 1..MaxCalls
        <4>1. calls[j] > 0 => calls[j] \in 1..MaxCalls
          BY <1>n
        <4>2. calls[j] > 0 => Last(j) \in Messages /\ Last(j) # sent
          BY <2>2, <4>1, Indexes DEF Last
        <4> QED BY <1>3, <4>1, <4>2
      <3> QED
        BY <1>3, <2>1, <3>1, <3>2, <1>n DEF CallerInv, ResultInv, SoleInv
    <2>3. CASE j = i
      <3>1. CallerInv(i)'
        BY <1>1, <1>3, <2>1, <2>3, Indexes, <1>n DEF CallerInv, NoKey
      <3>2. ResultInv(i)'
        BY <1>3 DEF ResultInv
      <3>3. ASSUME <<i, k>> \notin doubted PROVE keyState[<<i, k>>] = "unused"
        <4>1. KeyInv(<<i, k>>)
          BY <1>1 DEF IInv
        <4>2. keyState[<<i, k>>] # "unused" => k <= key[i] /\ calls[i] > 0
          BY <4>1 DEF KeyInv
        <4> QED BY <1>1, <2>1, <2>3, <3>3, <4>2, <1>n DEF CallerInv, Mine
      <3>4. ASSUME <<i, k>> \notin doubted, NEW l \in 1..MaxCalls, l < n
            PROVE  sentKey'[<<i, l>>] # k
        BY <1>1, <1>3, <2>1, <2>3, <3>4, Indexes, <1>n DEF CallerInv, Mine
      <3>5. SoleInv(i)'
        BY <1>1, <1>3, <3>3, <3>4 DEF SoleInv, Mine, Last
      <3> QED
        BY <2>3, <3>1, <3>2, <3>5
    <2> QED
      BY <2>2, <2>3
  <1>7. KindsAreDocumented'
    BY <1>3 DEF IInv, KindsAreDocumented
  <1> QED
    BY <1>2, <1>4, <1>5, <1>6, <1>7 DEF IInv
(* A call returns: with what was answered, or with nothing.                *)
LEMMA ReturnStep ==
  ASSUME IInv, NEW i \in Refunds, NEW err \in Errors, Returns(i, err), Documented(err),
         Agrees(err, keyState[Mine(i)]), err.Kind = "none" => err = NoError,
         Doubtful(err) => IsUnknownOutcome(err) \/ IsInProgress(err),
         Mine(i) \notin doubted /\ ~ Doubtful(err) => stage[Last(i)] = "answered",
         Mine(i) \notin doubted /\ Refusing(err) => keyState[Mine(i)] = "unused"
  PROVE  IInv'
  <1> DEFINE told == finish(key[i], err)
  <1>t. TypeOK
    BY DEF IInv
  <1>k. key[i] \in 0..MaxKeys /\ phase[i] = "calling" /\ key[i] # NoKey /\ Mine(i) \in Keys
    <2>1. phase[i] = "calling" /\ key[i] \in 0..MaxKeys
      BY <1>t DEF TypeOK, Returns, Goto
    <2>2. key[i] # NoKey
      BY <2>1 DEF IInv, CallerInv
    <2> QED BY <2>1, <2>2, Indexes, Bounds DEF NoKey, Mine
  <1>r. told \in Errors /\ told.Kind = err.Kind /\ told.Errno = err.Errno
        /\ told.HTTPStatus = err.HTTPStatus /\ (told.Kind = "none" => told = NoError)
    BY <1>k, FinishKeeps
  <1>v. Agrees(told, keyState[Mine(i)]) /\ Documented(told)
        /\ (Doubtful(told) <=> Doubtful(err)) /\ (Refusing(told) <=> Refusing(err))
    BY <1>r DEF Agrees, Documented, Doubtful, Refusing, AsksForNewKey
  <1>3. /\ \A j \in Refunds : phase'[j] = IF j = i THEN "told" ELSE phase[j]
        /\ \A j \in Refunds : result'[j] = IF j = i THEN told ELSE result[j]
        /\ key' = key /\ calls' = calls /\ sends' = sends
        /\ stage' = stage /\ sentKey' = sentKey /\ answer' = answer /\ faults' = faults
        /\ keyState' = keyState /\ refunded' = refunded
    BY <1>t DEF TypeOK, Returns, Goto, networkVars, providerVars
  <1>d. /\ doubted \subseteq doubted' /\ doubted' \subseteq doubted \cup {Mine(i)}
        /\ Doubtful(err) => Mine(i) \in doubted'
    BY DEF Returns, Mine
  <1>2. TypeOK'
    <2>1. phase' \in [Refunds -> {"start", "calling", "told", "querying", "done", "stopped"}]
      BY <1>t DEF TypeOK, Returns, Goto
    <2>2. result' \in [Refunds -> Errors]
      BY <1>t, <1>r DEF TypeOK, Returns
    <2>3. doubted' \subseteq Keys
      BY <1>t, <1>d, <1>k DEF TypeOK
    <2> QED
      BY <1>t, <1>3, <2>1, <2>2, <2>3 DEF TypeOK
  <1>4. ASSUME NEW m \in Messages PROVE MessageInv(m)'
    BY <1>3 DEF IInv, MessageInv, KeyOf
  <1>5. ASSUME NEW k \in Keys PROVE KeyInv(k)'
    BY <1>3 DEF IInv, KeyInv
  <1>6. ASSUME NEW j \in Refunds PROVE CallerInv(j)' /\ ResultInv(j)' /\ SoleInv(j)'
    <2>1. CallerInv(j) /\ ResultInv(j) /\ SoleInv(j)
      BY DEF IInv
    <2>2. Mine(j)' = Mine(j) /\ Last(j)' = Last(j)
      BY <1>3 DEF Mine, Last
    <2>3. CASE j # i
      <3>1. phase'[j] = phase[j] /\ result'[j] = result[j]
        BY <1>3, <2>3
      <3>2. Mine(j) \in doubted <=> Mine(j) \in doubted'
        BY <1>d, <2>3 DEF Mine
      <3> QED
        BY <1>3, <2>1, <2>2, <3>1, <3>2 DEF CallerInv, ResultInv, SoleInv
    <2>4. CASE j = i
      <3>1. phase'[i] = "told" /\ result'[i] = told
        BY <1>3
      <3>2. CallerInv(i)'
        BY <1>3, <1>k, <2>1, <2>2, <2>4, <3>1 DEF CallerInv
      <3>3. ResultInv(i)'
        BY <1>3, <1>k, <1>r, <1>v, <1>d, <2>2, <2>4, <3>1 DEF ResultInv
      <3>4. SoleInv(i)'
        BY <1>3, <1>k, <1>v, <1>d, <2>1, <2>2, <2>4, <3>1 DEF SoleInv
      <3> QED
        BY <2>4, <3>2, <3>3, <3>4
    <2> QED
      BY <2>3, <2>4
  <1>7. KindsAreDocumented'
    BY <1>3, <1>v DEF IInv, KindsAreDocumented, Documented
  <1> QED
    BY <1>2, <1>4, <1>5, <1>6, <1>7 DEF IInv

(* The caller goes on without a call: it ends, or it queries.              *)
LEMMA QuietStep ==
  ASSUME IInv, NEW i \in Refunds, NEW to \in {"querying", "done", "stopped"},
         phase' = [phase EXCEPT ![i] = to], phase[i] \in {"told", "querying"},
         key[i] # NoKey, to = "done" => keyState[Mine(i)] = "done",
         to = "stopped" /\ Mine(i) \notin doubted => keyState[Mine(i)] \in {"unused", "failed"},
         UNCHANGED <<key, calls, sends, result, doubted, networkVars, providerVars>>
  PROVE  IInv'
  <1>t. TypeOK
    BY DEF IInv
  <1>3. /\ \A j \in Refunds : phase'[j] = IF j = i THEN to ELSE phase[j]
        /\ key' = key /\ calls' = calls /\ sends' = sends /\ result' = result
        /\ doubted' = doubted
        /\ stage' = stage /\ sentKey' = sentKey /\ answer' = answer /\ faults' = faults
        /\ keyState' = keyState /\ refunded' = refunded
    BY <1>t DEF TypeOK, networkVars, providerVars
  <1>2. TypeOK'
    BY <1>t, <1>3 DEF TypeOK
  <1>4. ASSUME NEW m \in Messages PROVE MessageInv(m)'
    BY <1>3 DEF IInv, MessageInv, KeyOf
  <1>5. ASSUME NEW k \in Keys PROVE KeyInv(k)'
    BY <1>3 DEF IInv, KeyInv
  <1>6. ASSUME NEW j \in Refunds PROVE CallerInv(j)' /\ ResultInv(j)' /\ SoleInv(j)'
    <2>1. CallerInv(j) /\ ResultInv(j) /\ SoleInv(j)
      BY DEF IInv
    <2>2. Mine(j)' = Mine(j) /\ Last(j)' = Last(j)
      BY <1>3 DEF Mine, Last
    <2>3. CASE j # i
      BY <1>3, <2>1, <2>2, <2>3 DEF CallerInv, ResultInv, SoleInv
    <2>4. CASE j = i
      BY <1>3, <2>1, <2>2, <2>4 DEF CallerInv, ResultInv, SoleInv
    <2> QED
      BY <2>3, <2>4
  <1>7. KindsAreDocumented'
    BY <1>3 DEF IInv, KindsAreDocumented
  <1> QED
    BY <1>2, <1>4, <1>5, <1>6, <1>7 DEF IInv

LEMMA StoreKeyStep ==
  ASSUME IInv, NEW i \in Refunds, StoreKey(i)
  PROVE  IInv'
  <1>t. TypeOK
    BY DEF IInv
  <1>c. CallerInv(i)
    BY DEF IInv
  <1>k. key[i] = NoKey /\ calls[i] = 0
    <2>1. calls[i] \in Nat
      BY <1>t, NumberTypes
    <2> QED BY <1>c, <2>1 DEF StoreKey, CallerInv
  <1>3. /\ \A j \in Refunds : phase'[j] = IF j = i THEN "start" ELSE phase[j]
        /\ \A j \in Refunds : key'[j] = IF j = i THEN 1 ELSE key[j]
        /\ calls' = calls /\ sends' = sends /\ result' = result /\ doubted' = doubted
        /\ stage' = stage /\ sentKey' = sentKey /\ answer' = answer /\ faults' = faults
        /\ keyState' = keyState /\ refunded' = refunded
    BY <1>t DEF TypeOK, StoreKey, networkVars, providerVars
  <1>n. \A j \in Refunds : key[j] \in Nat /\ key[j] <= key'[j]
    BY <1>t, <1>k, <1>3, NumberTypes DEF NoKey
  <1>2. TypeOK'
    BY <1>t, <1>3, Bounds DEF TypeOK, StoreKey
  <1>4. ASSUME NEW m \in Messages PROVE MessageInv(m)'
    <2>1. MessageInv(m) /\ m[1] \in Refunds
      BY Indexes DEF IInv
    <2>2. stage[m] # "unsent" => m[1] # i
      BY <1>k, <2>1, Indexes DEF MessageInv, NoKey
    <2> QED
      BY <1>3, <2>1, <2>2 DEF MessageInv, KeyOf
  <1>5. ASSUME NEW k \in Keys PROVE KeyInv(k)'
    <2>1. KeyInv(k) /\ k[1] \in Refunds /\ k[2] \in 1..MaxKeys
      BY Indexes DEF IInv
    <2> QED
      BY <1>3, <1>k, <1>n, <2>1 DEF KeyInv
  <1>6. ASSUME NEW j \in Refunds PROVE CallerInv(j)' /\ ResultInv(j)' /\ SoleInv(j)'
    <2>1. CallerInv(j) /\ ResultInv(j) /\ SoleInv(j)
      BY DEF IInv
    <2>3. CASE j # i
      <3>1. /\ phase'[j] = phase[j] /\ key'[j] = key[j]
            /\ Mine(j)' = Mine(j) /\ Last(j)' = Last(j)
        BY <1>3, <2>3 DEF Mine, Last
      <3> QED
        BY <1>3, <2>1, <3>1 DEF CallerInv, ResultInv, SoleInv
    <2>4. CASE j = i
      <3>1. phase'[i] = "start" /\ key'[i] = 1
        BY <1>3
      <3>2. \A n \in 1..MaxCalls : sentKey[<<i, n>>] <= 1
        BY <1>c, <1>k, <1>t, NumberTypes DEF CallerInv, NoKey
      <3> QED
        BY <1>3, <1>k, <2>4, <3>1, <3>2 DEF CallerInv, ResultInv, SoleInv
    <2> QED
      BY <2>3, <2>4
  <1>7. KindsAreDocumented'
    BY <1>3 DEF IInv, KindsAreDocumented
  <1> QED
    BY <1>2, <1>4, <1>5, <1>6, <1>7 DEF IInv

LEMMA RefuseToSendStep ==
  ASSUME IInv, NEW i \in Refunds, RefuseToSend(i)
  PROVE  IInv'
  <1>t. TypeOK
    BY DEF IInv
  <1>k. key[i] = NoKey /\ phase[i] = "start"
    BY DEF RefuseToSend, validateIdempotencyKey, Goto
  <1>3. /\ \A j \in Refunds : phase'[j] = IF j = i THEN "told" ELSE phase[j]
        /\ \A j \in Refunds : result'[j] = IF j = i THEN newValidationError ELSE result[j]
        /\ key' = key /\ calls' = calls /\ sends' = sends /\ doubted' = doubted
        /\ stage' = stage /\ sentKey' = sentKey /\ answer' = answer /\ faults' = faults
        /\ keyState' = keyState /\ refunded' = refunded
    BY <1>t DEF TypeOK, RefuseToSend, Goto, networkVars, providerVars
  <1>2. TypeOK'
    BY <1>t, <1>3, NoErrorTypes DEF TypeOK, RefuseToSend, Goto
  <1>4. ASSUME NEW m \in Messages PROVE MessageInv(m)'
    BY <1>3 DEF IInv, MessageInv, KeyOf
  <1>5. ASSUME NEW k \in Keys PROVE KeyInv(k)'
    BY <1>3 DEF IInv, KeyInv
  <1>6. ASSUME NEW j \in Refunds PROVE CallerInv(j)' /\ ResultInv(j)' /\ SoleInv(j)'
    <2>1. CallerInv(j) /\ ResultInv(j) /\ SoleInv(j)
      BY DEF IInv
    <2>2. Mine(j)' = Mine(j) /\ Last(j)' = Last(j)
      BY <1>3 DEF Mine, Last
    <2>3. newValidationError.Kind = "InvalidInput" /\ newValidationError.Errno = NoErrno
      BY ErrorFields DEF newValidationError
    <2>4. CASE j # i
      BY <1>3, <2>1, <2>2, <2>4 DEF CallerInv, ResultInv, SoleInv
    <2>5. CASE j = i
      BY <1>3, <1>k, <2>1, <2>2, <2>3, <2>5 DEF CallerInv, ResultInv, SoleInv
    <2> QED
      BY <2>4, <2>5
  <1>7. KindsAreDocumented'
    BY <1>3, NoErrorTypes DEF IInv, KindsAreDocumented, Documented
  <1> QED
    BY <1>2, <1>4, <1>5, <1>6, <1>7 DEF IInv
(* A message is answered or lost, and no key changes its state.            *)
LEMMA MessageStep ==
  ASSUME IInv, NEW m \in Messages, NEW r \in Answers, NEW from, NEW to \in {"answered", "lost"},
         To(m, from, to), from # "unsent",
         answer' = IF to = "answered" THEN [answer EXCEPT ![m] = r] ELSE answer,
         faults' \in 0..MaxFaults,
         to = "answered" => Agrees(respond("POST", r), keyState[KeyOf(m)]),
         to = "answered" /\ from # "wire" => ~ Refusing(respond("POST", r)),
         UNCHANGED <<callerVars, sentKey, providerVars>>
  PROVE  IInv'
  <1>t. TypeOK
    BY DEF IInv
  <1>3. /\ stage[m] = from
        /\ \A l \in Messages : stage'[l] = IF l = m THEN to ELSE stage[l]
        /\ \A l \in Messages : answer'[l] = IF l = m /\ to = "answered" THEN r ELSE answer[l]
        /\ phase' = phase /\ key' = key /\ calls' = calls /\ sends' = sends
        /\ result' = result /\ doubted' = doubted /\ sentKey' = sentKey
        /\ keyState' = keyState /\ refunded' = refunded
    BY <1>t DEF TypeOK, To, callerVars, providerVars
  <1>2. TypeOK'
    <2>1. answer' \in [Messages -> Answers]
      BY <1>t DEF TypeOK
    <2>2. stage' \in [Messages -> {"unsent", "wire", "held", "answered", "lost"}]
      BY <1>t DEF TypeOK, To
    <2> QED
      BY <1>t, <1>3, <2>1, <2>2 DEF TypeOK
  <1>4. ASSUME NEW l \in Messages PROVE MessageInv(l)'
    <2>1. MessageInv(l) /\ KeyOf(l)' = KeyOf(l)
      BY <1>3 DEF IInv, KeyOf
    <2>2. CASE l = m
      BY <1>3, <2>1, <2>2 DEF MessageInv
    <2>3. CASE l # m
      BY <1>3, <2>1, <2>3 DEF MessageInv
    <2> QED
      BY <2>2, <2>3
  <1>5. ASSUME NEW k \in Keys PROVE KeyInv(k)'
    BY <1>3 DEF IInv, KeyInv
  <1>6. ASSUME NEW j \in Refunds PROVE CallerInv(j)' /\ ResultInv(j)' /\ SoleInv(j)'
    <2>1. CallerInv(j) /\ ResultInv(j) /\ SoleInv(j)
      BY DEF IInv
    <2>2. Mine(j)' = Mine(j) /\ Last(j)' = Last(j)
      BY <1>3 DEF Mine, Last
    <2>3. CallerInv(j)' /\ ResultInv(j)'
      BY <1>3, <2>1, <2>2 DEF CallerInv, ResultInv
    <2>4. SoleInv(j)'
      <3>1. SUFFICES ASSUME phase[j] # "start", key[j] # NoKey, Mine(j) \notin doubted
                     PROVE  SoleInv(j)'
        BY <1>3, <2>2 DEF SoleInv
      <3>2. Last(j) \in Messages /\ KeyOf(Last(j)) = Mine(j)
        <4>1. calls[j] \in 1..MaxCalls /\ sentKey[<<j, calls[j]>>] = key[j]
          BY <1>t, <2>1, <3>1, NumberTypes, Bounds DEF CallerInv
        <4> QED BY <4>1, Indexes DEF Last, KeyOf, Mine
      <3>3. CASE Last(j) # m
        <4>1. stage'[Last(j)] = stage[Last(j)] /\ answer'[Last(j)] = answer[Last(j)]
          BY <1>3, <3>2, <3>3
        <4> QED BY <1>3, <2>1, <2>2, <3>1, <4>1 DEF SoleInv
      <3>4. CASE Last(j) = m
        <4>1. stage'[m] = to /\ (to = "answered" => answer'[m] = r)
          BY <1>3
        <4>2. to = "answered" /\ Refusing(respond("POST", r)) => keyState[Mine(j)] = "unused"
          BY <1>3, <2>1, <3>1, <3>4 DEF SoleInv
        <4> QED BY <1>3, <2>1, <2>2, <3>1, <3>4, <4>1, <4>2 DEF SoleInv
      <3> QED BY <3>3, <3>4
    <2> QED
      BY <2>3, <2>4
  <1>7. KindsAreDocumented'
    BY <1>3 DEF IInv, KindsAreDocumented
  <1> QED
    BY <1>2, <1>4, <1>5, <1>6, <1>7 DEF IInv

(* A key changes its state, to one that fits what it was.                  *)
Moves(was, state) ==
  \/ was = "unused" /\ state = "processing"
  \/ was = "processing" /\ state \in {"undetermined", "done", "failed"}
  \/ was = "undetermined" /\ state \in {"done", "failed"}

(* Start, when m is what meets the key, and Settle, when it is none.       *)
LEMMA KeyStep ==
  ASSUME IInv, NEW k \in Keys, NEW state, Moves(keyState[k], state),
         keyState' = [keyState EXCEPT ![k] = state],
         refunded' = [refunded EXCEPT ![k] = @ + IF state = "done" THEN 1 ELSE 0],
         UNCHANGED <<callerVars, sentKey, answer, faults>>,
         \/ keyState[k] # "unused" /\ stage' = stage
         \/ \E m \in Messages : KeyOf(m) = k /\ To(m, "wire", "held")
  PROVE  IInv'
  <1>t. TypeOK
    BY DEF IInv
  <1>k. k[1] \in Refunds /\ k[2] \in 1..MaxKeys /\ k = <<k[1], k[2]>> /\ KeyInv(k)
    BY Indexes DEF IInv
  <1>s. \A m \in Messages :
          stage'[m] = stage[m] \/ (stage[m] = "wire" /\ stage'[m] = "held" /\ KeyOf(m) = k)
    BY <1>t DEF TypeOK, To
  <1>3. /\ \A j \in Keys : keyState'[j] = IF j = k THEN state ELSE keyState[j]
        /\ \A j \in Keys : refunded'[j] = IF j = k /\ state = "done" THEN refunded[j] + 1
                                         ELSE refunded[j]
        /\ phase' = phase /\ key' = key /\ calls' = calls /\ sends' = sends
        /\ result' = result /\ doubted' = doubted /\ sentKey' = sentKey /\ answer' = answer
        /\ faults' = faults
    BY <1>t DEF TypeOK, callerVars
  <1>2. TypeOK'
    <2>1. keyState' \in [Keys -> {"unused", "processing", "undetermined", "done", "failed"}]
      BY <1>t DEF TypeOK, Moves
    <2>2. refunded' \in [Keys -> Nat]
      BY <1>t DEF TypeOK
    <2>3. stage' \in [Messages -> {"unsent", "wire", "held", "answered", "lost"}]
      BY <1>t DEF TypeOK, To
    <2> QED
      BY <1>t, <1>3, <2>1, <2>2, <2>3 DEF TypeOK
  <1>u. (* The key was met by a message of its caller. *)
        /\ key[k[1]] \in Nat /\ calls[k[1]] \in Nat
        /\ k[2] <= key[k[1]] /\ calls[k[1]] > 0
        /\ ~ (k[2] < key[k[1]])
    <2>1. key[k[1]] \in Nat /\ calls[k[1]] \in Nat
      BY <1>t, <1>k, NumberTypes
    <2>2. keyState[k] # "failed"
      BY DEF Moves
    <2>3. CASE keyState[k] # "unused"
      BY <1>k, <2>1, <2>2, <2>3 DEF KeyInv
    <2>4. CASE keyState[k] = "unused"
      <3>1. PICK m \in Messages : KeyOf(m) = k /\ stage[m] = "wire"
        BY <2>4 DEF To
      <3>2. /\ m[2] <= calls[m[1]] /\ sentKey[<<m[1], m[2]>>] \in 1..key[m[1]]
            /\ m[2] \in 1..MaxCalls /\ k[1] = m[1] /\ k[2] = sentKey[<<m[1], m[2]>>]
        BY <3>1, Indexes DEF IInv, MessageInv, KeyOf
      <3> QED
        BY <1>k, <2>1, <2>2, <3>2 DEF KeyInv
    <2> QED
      BY <2>3, <2>4
  <1>4. ASSUME NEW l \in Messages PROVE MessageInv(l)'
    <2>1. MessageInv(l) /\ KeyOf(l)' = KeyOf(l)
      BY <1>3 DEF IInv, KeyOf
    <2>2. stage[l] # "unsent" => KeyOf(l) \in Keys
      <3>1. l[1] \in Refunds /\ key[l[1]] \in Nat /\ key[l[1]] <= MaxKeys
        BY <1>t, Indexes, NumberTypes
      <3>2. stage[l] # "unsent" => sentKey[<<l[1], l[2]>>] \in 1..MaxKeys
        BY <2>1, <3>1, Bounds DEF MessageInv
      <3> QED BY <3>1, <3>2, Indexes DEF KeyOf
    <2>3. stage[l] # "unsent" /\ keyState[KeyOf(l)] # "unused" => keyState'[KeyOf(l)] # "unused"
      BY <1>3, <2>2 DEF Moves
    <2>4. stage[l] # "unsent" /\ keyState[KeyOf(l)] \in {"done", "failed"} =>
            keyState'[KeyOf(l)] = keyState[KeyOf(l)]
      BY <1>3, <2>2 DEF Moves
    <2>5. CASE stage'[l] = stage[l]
      BY <1>3, <2>1, <2>3, <2>4, <2>5 DEF MessageInv, Agrees
    <2>6. CASE stage[l] = "wire" /\ stage'[l] = "held" /\ KeyOf(l) = k
      <3>1. keyState'[k] # "unused"
        BY <1>3 DEF Moves
      <3> QED BY <1>3, <2>1, <2>6, <3>1 DEF MessageInv
    <2> QED
      BY <1>s, <2>5, <2>6
  <1>5. ASSUME NEW j \in Keys PROVE KeyInv(j)'
    <2>1. KeyInv(j)
      BY DEF IInv
    <2>2. CASE j # k
      BY <1>3, <2>1, <2>2 DEF KeyInv
    <2>3. CASE j = k
      <3>1. keyState'[k] = state /\ refunded'[k] = IF state = "done" THEN 1 ELSE 0
        BY <1>3, <2>1, <2>3 DEF KeyInv, Moves
      <3> QED BY <1>3, <1>u, <2>3, <3>1 DEF KeyInv
    <2> QED
      BY <2>2, <2>3
  <1>6. ASSUME NEW j \in Refunds PROVE CallerInv(j)' /\ ResultInv(j)' /\ SoleInv(j)'
    <2>1. CallerInv(j) /\ ResultInv(j) /\ SoleInv(j)
      BY DEF IInv
    <2>2. Mine(j)' = Mine(j) /\ Last(j)' = Last(j)
      BY <1>3 DEF Mine, Last
    <2>3. key[j] # NoKey => Mine(j) \in Keys
      BY <1>t, NumberTypes, Indexes, Bounds DEF Mine, NoKey
    <2>4. key[j] # NoKey /\ keyState[Mine(j)] \in {"done", "failed"} =>
            keyState'[Mine(j)] = keyState[Mine(j)]
      BY <1>3, <2>3 DEF Moves
    <2>5. CallerInv(j)'
      BY <1>3, <2>1, <2>2, <2>4 DEF CallerInv
    <2>6. ResultInv(j)'
      BY <1>3, <2>1, <2>2, <2>4 DEF ResultInv, Agrees
    <2>7. SoleInv(j)'
      <3>1. SUFFICES ASSUME phase[j] # "start", key[j] # NoKey, Mine(j) \notin doubted
                     PROVE  SoleInv(j)'
        BY <1>3, <2>2 DEF SoleInv
      <3>2. calls[j] \in 1..MaxCalls /\ sentKey[<<j, calls[j]>>] = key[j]
        BY <1>t, <2>1, <3>1, NumberTypes, Bounds DEF CallerInv
      <3>3. Last(j) \in Messages /\ KeyOf(Last(j)) = Mine(j)
        BY <3>2, Indexes DEF Last, KeyOf, Mine
      <3>4. CASE Mine(j) # k
        <4>1. keyState'[Mine(j)] = keyState[Mine(j)] /\ stage'[Last(j)] = stage[Last(j)]
          BY <1>3, <1>s, <2>3, <3>1, <3>3, <3>4
        <4> QED BY <1>3, <2>1, <2>2, <3>1, <4>1 DEF SoleInv
      <3>5. CASE Mine(j) = k /\ keyState[k] # "unused"
        <4>1. stage[Last(j)] # "wire" /\ stage'[Last(j)] = stage[Last(j)]
          BY <1>s, <2>1, <3>1, <3>3, <3>5 DEF SoleInv
        <4>2. keyState[k] # "failed" /\ phase[j] # "stopped"
          BY <2>1, <3>1, <3>5 DEF SoleInv, Moves
        <4> QED BY <1>3, <2>1, <2>2, <3>1, <3>5, <4>1, <4>2 DEF SoleInv
      <3>6. CASE Mine(j) = k /\ keyState[k] = "unused"
        <4>1. PICK m \in Messages : KeyOf(m) = k /\ To(m, "wire", "held")
          BY <3>6
        <4>2. m[1] = j /\ sentKey[<<j, m[2]>>] = key[j] /\ stage[m] = "wire"
          BY <3>6, <4>1 DEF KeyOf, Mine, To
        <4>3. /\ m[3] = 1 /\ m[2] <= calls[j] /\ m[2] \in 1..MaxCalls
              /\ m = <<m[1], m[2], m[3]>>
          BY <4>2, Indexes DEF IInv, MessageInv
        <4>4. ~ (m[2] < calls[j])
          BY <2>1, <3>1, <4>2, <4>3 DEF SoleInv
        <4>5. m = Last(j)
          BY <3>2, <4>2, <4>3, <4>4 DEF Last
        <4>6. stage'[Last(j)] = "held" /\ phase[j] = "calling"
          BY <1>t, <2>1, <3>1, <4>1, <4>2, <4>5 DEF SoleInv, To, TypeOK
        <4> QED BY <1>3, <2>1, <2>2, <3>1, <4>6 DEF SoleInv
      <3> QED BY <3>4, <3>5, <3>6
    <2> QED
      BY <2>5, <2>6, <2>7
  <1>7. KindsAreDocumented'
    BY <1>3 DEF IInv, KindsAreDocumented
  <1> QED
    BY <1>2, <1>4, <1>5, <1>6, <1>7 DEF IInv
-----------------------------------------------------------------------------
(***************************************************************************)
(* Every action is one of these steps.                                     *)
(***************************************************************************)
LEMMA CallerStep ==
  ASSUME IInv, NEW i \in Refunds, Decide(i) \/ RefuseToSend(i)
  PROVE  IInv'
  <1>t. /\ TypeOK /\ CallerInv(i) /\ ResultInv(i) /\ SoleInv(i)
        /\ key[i] \in Nat /\ key[i] <= MaxKeys
    BY NumberTypes DEF IInv
  <1>k. key[i] # NoKey => key[i] \in 1..MaxKeys
    BY <1>t, Bounds DEF NoKey
  <1>s. MaxKeys \in Nat /\ \A n \in Nat : n < MaxKeys => n + 1 \in 1..MaxKeys
    BY Bounds
  <1>e. key' = key => key' = [key EXCEPT ![i] = key[i]]
    BY <1>t DEF TypeOK
  <1>1. CASE StoreKey(i)
    BY <1>1, StoreKeyStep
  <1>2. CASE RefuseToSend(i)
    BY <1>2, RefuseToSendStep
  <1>3. CASE Call(i)
    <2>1. /\ key[i] # NoKey /\ phase[i] = "start" /\ Send(i, key[i])
          /\ phase' = [phase EXCEPT ![i] = "calling"] /\ key' = key
      BY <1>3 DEF Call, Goto, validateIdempotencyKey
    <2> QED BY <1>k, <1>e, <2>1, SendStep
  <1>4. CASE Resend(i)
    <2>1. /\ phase[i] = "told" /\ result[i].Kind \in {"UnknownOutcome", "RateLimited"}
          /\ phase' = [phase EXCEPT ![i] = "calling"] /\ key' = key /\ Send(i, key[i])
      BY <1>4 DEF Resend, Goto, RetryableWithSameKey
    <2>2. key[i] # NoKey /\ Mine(i) \in doubted
      BY <1>t, <2>1 DEF ResultInv, Doubtful
    <2> QED BY <1>k, <1>e, <2>1, <2>2, SendStep
  <1>5. CASE Finish(i)
    <2>1. /\ phase[i] = "told" /\ phase' = [phase EXCEPT ![i] = "done"] /\ result[i] = NoError
          /\ UNCHANGED <<key, calls, sends, result, doubted, networkVars, providerVars>>
      BY <1>5 DEF Finish, Goto
    <2>2. result[i].Kind = "none"
      BY <2>1, ErrorFields DEF NoError
    <2>3. key[i] # NoKey /\ keyState[Mine(i)] = "done"
      BY <1>t, <2>1, <2>2 DEF ResultInv, Agrees
    <2> QED BY <2>1, <2>3, QuietStep
  <1>6. CASE LookUp(i)
    <2>1. /\ phase[i] = "told" /\ phase' = [phase EXCEPT ![i] = "querying"]
          /\ IsInProgress(result[i]) \/ AsksForNewKey(result[i])
          /\ UNCHANGED <<key, calls, sends, result, doubted, networkVars, providerVars>>
      BY <1>6 DEF LookUp, Goto
    <2>2. result[i].Kind # "InvalidInput" \/ result[i].Errno # NoErrno
      BY <2>1, EmptyErrno DEF AsksForNewKey, IsInProgress, Is
    <2>3. key[i] # NoKey
      BY <1>t, <2>1, <2>2 DEF ResultInv
    <2> QED BY <2>1, <2>3, QuietStep
  <1>7. CASE Learn(i)
    <2>1. phase[i] = "querying" /\ key[i] # NoKey
      BY <1>7, <1>t DEF Learn, Goto, CallerInv
    <2>2. CASE /\ phase' = [phase EXCEPT ![i] = "done"] /\ keyState[Mine(i)] = "done"
               /\ UNCHANGED <<key, calls, sends, result, doubted, networkVars, providerVars>>
      BY <2>1, <2>2, QuietStep
    <2>3. CASE /\ phase' = [phase EXCEPT ![i] = "calling"] /\ key[i] < MaxKeys
               /\ AsksForNewKey(result[i]) \/ keyState[Mine(i)] = "failed"
               /\ key' = [key EXCEPT ![i] = key[i] + 1] /\ Send(i, key[i] + 1)
      <3>1. keyState[Mine(i)] = "failed"
        BY <1>t, <2>1, <2>3 DEF ResultInv, Agrees
      <3>2. key[i] + 1 \in 1..MaxKeys
        BY <1>t, <1>s, <2>3
      <3> QED BY <2>1, <2>3, <3>1, <3>2, SendStep
    <2>4. CASE /\ phase' = [phase EXCEPT ![i] = "calling"] /\ IsInProgress(result[i])
               /\ key' = key /\ Send(i, key[i])
      <3>1. result[i].Kind = "InProgress"
        BY <2>4 DEF IsInProgress, Is
      <3>2. Mine(i) \in doubted
        BY <1>t, <2>1, <3>1 DEF ResultInv, Doubtful
      <3> QED BY <1>k, <1>e, <2>1, <2>4, <3>2, SendStep
    <2> QED BY <1>7, <2>2, <2>3, <2>4 DEF Learn, Goto, Mine
  <1>8. CASE Stop(i)
    <2>1. /\ phase' = [phase EXCEPT ![i] = "stopped"]
          /\ UNCHANGED <<key, calls, sends, result, doubted, networkVars, providerVars>>
      BY <1>8 DEF Stop
    <2>2. CASE /\ phase[i] = "told" /\ result[i].Kind # "InvalidInput" /\ result[i] # NoError
               /\ ~ RetryableWithSameKey(result[i]) /\ ~ IsInProgress(result[i])
               /\ ~ AsksForNewKey(result[i])
      <3>1. key[i] # NoKey
        BY <1>t, <2>2 DEF ResultInv
      <3>2. Mine(i) \notin doubted => ~ Doubtful(result[i])
        BY <1>t, <2>2, <3>1 DEF ResultInv
      <3>3. ASSUME Mine(i) \notin doubted PROVE keyState[Mine(i)] \in {"unused", "failed"}
        <4>1. result[i].Kind # "none" => Refusing(result[i])
          BY <2>2, <3>2, <3>3 DEF Refusing
        <4>2. result[i].Kind = "none" => result[i] = NoError
          BY <1>t, <2>2, <3>1 DEF ResultInv
        <4> QED BY <1>t, <2>2, <3>1, <3>3, <4>1, <4>2 DEF SoleInv
      <3> QED BY <2>1, <2>2, <3>1, <3>3, QuietStep
    <2>3. CASE phase[i] = "querying" /\ keyState[Mine(i)] = "failed"
      <3>1. key[i] # NoKey
        BY <1>t, <2>3 DEF CallerInv
      <3> QED BY <2>1, <2>3, <3>1, QuietStep
    <2> QED BY <1>8, <2>2, <2>3 DEF Stop, Mine
  <1> QED
    BY <1>1, <1>2, <1>3, <1>4, <1>5, <1>6, <1>7, <1>8 DEF Decide
LEMMA ClientStep ==
  ASSUME IInv, NEW i \in Refunds, Return(i) \/ Deadline(i) \/ ConnectionFails(i)
  PROVE  IInv'
  <1>t. TypeOK /\ CallerInv(i) /\ SoleInv(i)
    BY DEF IInv
  <1>1. CASE Return(i)
    <2> DEFINE r == answer[Last(i)]
               err == respond("POST", r)
    <2>1. phase[i] = "calling" /\ current(i) = Last(i) /\ key[i] # NoKey /\ calls[i] > 0
          /\ stage[Last(i)] = "answered" /\ Returns(i, err)
      BY <1>1, <1>t DEF Return, current, Last, CallerInv
    <2>2. /\ calls[i] \in 1..MaxCalls /\ sentKey[<<i, calls[i]>>] = key[i]
          /\ Last(i) \in Messages /\ KeyOf(Last(i)) = Mine(i)
      <3>1. calls[i] \in 1..MaxCalls /\ sentKey[<<i, calls[i]>>] = key[i]
        BY <1>t, <2>1, NumberTypes, Bounds DEF CallerInv
      <3> QED BY <3>1, Indexes DEF Last, KeyOf, Mine
    <2>3. r \in Answers /\ r.status \in Nat
      BY <1>t, <2>2, AnswerTypes DEF TypeOK
    <2>4. Agrees(err, keyState[Mine(i)])
      BY <2>1, <2>2 DEF IInv, MessageInv
    <2>5. Mine(i) \notin doubted /\ Refusing(err) => keyState[Mine(i)] = "unused"
      BY <1>t, <2>1 DEF SoleInv
    <2>6. /\ err \in Errors /\ (err.Kind = "none" => err = NoError)
          /\ (Doubtful(err) => IsUnknownOutcome(err) \/ IsInProgress(err))
      BY <2>3, Verdicts
    <2>7. Documented(err)
      BY <2>3, VerdictsAreDocumented
    <2> HIDE DEF err
    <2> QED BY <2>1, <2>4, <2>5, <2>6, <2>7, ReturnStep
  <1>2. CASE Returns(i, transportFailure)
    <2>1. transportFailure.Kind = "UnknownOutcome" /\ transportFailure.Errno = NoErrno
      BY ErrorFields DEF transportFailure
    <2>2. /\ Agrees(transportFailure, keyState[Mine(i)]) /\ Doubtful(transportFailure)
          /\ ~ Refusing(transportFailure) /\ IsUnknownOutcome(transportFailure)
      BY <2>1, EmptyErrno, OpenKinds DEF Agrees, Doubtful, Refusing, AsksForNewKey
    <2> QED BY <1>2, <2>1, <2>2, NoErrorTypes, ReturnStep
  <1>3. ~ isReplayable(i)
    BY DEF isReplayable, getBody
  <1> QED
    BY <1>1, <1>2, <1>3 DEF Deadline, ConnectionFails

LEMMA RemoteStep ==
  ASSUME IInv, NEW m \in Messages,
         \/ Provide(m) \/ Lose(m)
         \/ \E r \in Refusals : Refuse(m, r)
         \/ \E r \in Garbled : Garble(m, r)
  PROVE  IInv'
  <1>t. TypeOK /\ MessageInv(m)
    BY DEF IInv
  <1>f. faults \in 0..MaxFaults /\ (Fault => faults' \in 0..MaxFaults)
    BY <1>t, Bounds DEF TypeOK, Fault
  <1>k. stage[m] # "unsent" => KeyOf(m) \in Keys
    <2>1. m[1] \in Refunds /\ key[m[1]] \in Nat /\ key[m[1]] <= MaxKeys
      BY <1>t, Indexes, NumberTypes
    <2>2. stage[m] # "unsent" => sentKey[<<m[1], m[2]>>] \in 1..MaxKeys
      BY <1>t, <2>1, Bounds DEF MessageInv
    <2> QED BY <2>1, <2>2, Indexes DEF KeyOf
  <1>s. keyState[KeyOf(m)] # "unused" /\ stage[m] # "unsent" =>
          keyState[KeyOf(m)] \in DOMAIN Replies
    BY <1>t, <1>k, ReplyStates DEF TypeOK
  <1>1. CASE Start(m)
    <2>1. /\ To(m, "wire", "held") /\ keyState[KeyOf(m)] = "unused" /\ KeyOf(m) \in Keys
          /\ keyState' = [keyState EXCEPT ![KeyOf(m)] = "processing"] /\ refunded' = refunded
          /\ UNCHANGED <<callerVars, sentKey, answer, faults>>
      BY <1>1, <1>k DEF Start, To
    <2>2. refunded' = [refunded EXCEPT ![KeyOf(m)] = @ + IF "processing" = "done" THEN 1 ELSE 0]
      BY <1>t, <2>1 DEF TypeOK
    <2> QED BY <2>1, <2>2, KeyStep DEF Moves
  <1>2. CASE Repeat(m)
    <2> DEFINE r == Replies[keyState[KeyOf(m)]]
    <2>1. /\ To(m, "wire", "answered") /\ keyState[KeyOf(m)] \in DOMAIN Replies
          /\ answer' = [answer EXCEPT ![m] = r]
          /\ UNCHANGED <<callerVars, sentKey, faults, providerVars>>
      BY <1>2, <1>s DEF Repeat, To
    <2>2. r \in Answers
      BY <2>1, AnswerTypes
    <2>3. Agrees(respond("POST", r), keyState[KeyOf(m)]) /\ ~ Refusing(respond("POST", r))
      BY <2>1, ReplyVerdicts
    <2> QED BY <1>f, <2>1, <2>2, <2>3, MessageStep
  <1>3. CASE AnswerHeld(m)
    <2> DEFINE state == keyState[KeyOf(m)]
               r == IF state = "failed" THEN Rejected ELSE Replies[state]
    <2>1. /\ To(m, "held", "answered") /\ answer' = [answer EXCEPT ![m] = r]
          /\ UNCHANGED <<callerVars, sentKey, faults, providerVars>>
      BY <1>3 DEF AnswerHeld
    <2>2. state \in DOMAIN Replies
      BY <1>s, <1>t, <2>1 DEF To, MessageInv
    <2>3. r \in Answers
      BY <2>2, AnswerTypes
    <2>4. Agrees(respond("POST", r), state) /\ ~ Refusing(respond("POST", r))
      BY <2>2, ReplyVerdicts, RejectedVerdict
    <2> QED BY <1>f, <2>1, <2>3, <2>4, MessageStep
  <1>4. CASE Lose(m)
    <2>1. PICK from \in {"wire", "answered"} : To(m, from, "lost")
      BY <1>4 DEF Lose
    <2> QED BY <1>4, <1>f, <2>1, AnswerTypes, MessageStep DEF Lose
  <1>5. CASE \E r \in Garbled : Garble(m, r)
    <2>1. PICK r \in Garbled : Garble(m, r)
      BY <1>5
    <2>2. PICK from \in {"wire", "held", "answered"} : To(m, from, "answered")
      BY <2>1 DEF Garble
    <2>3. Agrees(respond("POST", r), keyState[KeyOf(m)]) /\ ~ Refusing(respond("POST", r))
      BY GarbledVerdict DEF Agrees
    <2> QED BY <1>f, <2>1, <2>2, <2>3, AnswerTypes, MessageStep DEF Garble
  <1>6. CASE \E r \in Refusals : Refuse(m, r)
    <2>1. PICK r \in Refusals : Refuse(m, r)
      BY <1>6
    <2>2. Agrees(respond("POST", r), keyState[KeyOf(m)])
      BY RefusalVerdict DEF Agrees
    <2> QED BY <1>f, <2>1, <2>2, AnswerTypes, MessageStep DEF Refuse
  <1> QED
    BY <1>1, <1>2, <1>3, <1>4, <1>5, <1>6 DEF Provide
LEMMA SettleStep ==
  ASSUME IInv, NEW k \in Keys, Settle(k)
  PROVE  IInv'
  <1>t. TypeOK
    BY DEF IInv
  <1>1. PICK to \in {"undetermined", "done", "failed"} :
          keyState' = [keyState EXCEPT ![k] = to] /\ Moves(keyState[k], to)
    BY DEF Settle, Moves
  <1>2. keyState'[k] = to /\ keyState[k] # "unused"
    BY <1>1, <1>t DEF TypeOK, Settle
  <1>3. /\ refunded' = [refunded EXCEPT ![k] = @ + IF to = "done" THEN 1 ELSE 0]
        /\ UNCHANGED <<callerVars, stage, sentKey, answer, faults>>
    BY <1>2 DEF Settle, networkVars
  <1> QED
    BY <1>1, <1>2, <1>3, KeyStep

LEMMA NextInv == IInv /\ [Next]_keyedVars => IInv'
  <1> SUFFICES ASSUME IInv, [Next]_keyedVars PROVE IInv'
    OBVIOUS
  <1>1. ASSUME NEW i \in Refunds, Decide(i) \/ RefuseToSend(i) PROVE IInv'
    BY <1>1, CallerStep
  <1>2. ASSUME NEW i \in Refunds, Return(i) \/ Deadline(i) \/ ConnectionFails(i) PROVE IInv'
    BY <1>2, ClientStep
  <1>3. ASSUME NEW m \in Messages,
               \/ Provide(m) \/ Lose(m)
               \/ \E r \in Refusals : Refuse(m, r)
               \/ \E r \in Garbled : Garble(m, r)
        PROVE  IInv'
    BY <1>3, RemoteStep
  <1>4. ASSUME NEW k \in Keys, Settle(k) PROVE IInv'
    BY <1>4, SettleStep
  <1>5. CASE UNCHANGED keyedVars
    <2>1. /\ phase' = phase /\ key' = key /\ calls' = calls /\ sends' = sends
          /\ result' = result /\ doubted' = doubted
          /\ stage' = stage /\ sentKey' = sentKey /\ answer' = answer /\ faults' = faults
          /\ keyState' = keyState /\ refunded' = refunded
      BY <1>5 DEF keyedVars, callerVars, networkVars, providerVars
    <2> QED
      BY <2>1 DEF IInv, TypeOK, MessageInv, KeyOf, KeyInv, CallerInv, ResultInv, SoleInv,
                  Mine, Last, KindsAreDocumented
  <1> QED
    BY <1>1, <1>2, <1>3, <1>4, <1>5 DEF Next

LEMMA InvHolds == Spec => []IInv
  BY InitInv, NextInv, PTL DEF Spec

-----------------------------------------------------------------------------
(***************************************************************************)
(* What callers may rely on.                                               *)
(***************************************************************************)
(* Every variable keeps its type; every error has one of the ten kinds.    *)
THEOREM TypeCorrect == Spec => []TypeOK
  <1>1. IInv => TypeOK
    BY DEF IInv
  <1> QED BY <1>1, InvHolds, PTL

(* Over all resends, and all keys a caller takes on the advice of the      *)
(* client's errors, the money of one refund moves once: a key is left only *)
(* when the refund under it has failed for good.                           *)
THEOREM MoneyMovesOnce == Spec => []RefundedOnce
  <1>1. ASSUME IInv PROVE RefundedOnce
    <2> SUFFICES ASSUME NEW k \in Keys, NEW other \in Keys
                 PROVE  /\ refunded[k] <= 1
                        /\ k[1] = other[1] /\ refunded[k] > 0 /\ refunded[other] > 0 => k = other
      BY DEF RefundedOnce
    <2>1. KeyInv(k) /\ KeyInv(other)
      BY <1>1 DEF IInv
    <2>2. \A j \in Keys : KeyInv(j) /\ refunded[j] > 0 =>
            j[2] <= key[j[1]] /\ ~ (j[2] < key[j[1]])
      BY DEF KeyInv
    <2>3. \A j \in Keys : /\ j[1] \in Refunds /\ j[2] \in Nat /\ j = <<j[1], j[2]>>
                          /\ key[j[1]] \in Nat
      BY <1>1, Indexes, NumberTypes DEF IInv
    <2>4. refunded[k] <= 1
      BY <2>1 DEF KeyInv
    <2>5. ASSUME k[1] = other[1], refunded[k] > 0, refunded[other] > 0 PROVE k = other
      <3>1. k[2] = key[k[1]] /\ other[2] = key[other[1]]
        BY <2>1, <2>2, <2>3, <2>5
      <3> QED BY <2>3, <2>5, <3>1
    <2> QED BY <2>4, <2>5
  <1> QED BY <1>1, InvHolds, PTL

(* Nothing below the client sends one call's request a second time: the    *)
(* body cannot be rewound, so net/http will not replay it.                 *)
THEOREM CallsAreSentOnce == Spec => []OneRequestPerDecision
  <1>1. ASSUME IInv PROVE OneRequestPerDecision
    <2> SUFFICES ASSUME NEW i \in Refunds, NEW n \in 1..MaxCalls
                 PROVE  Cardinality({s \in 1..MaxSends : stage[<<i, n, s>>] # "unsent"}) <= 1
      BY DEF OneRequestPerDecision
    <2> DEFINE sendings == {s \in 1..MaxSends : stage[<<i, n, s>>] # "unsent"}
    <2>1. ASSUME NEW s \in sendings PROVE s = 1
      <3>1. <<i, n, s>> \in Messages
        BY DEF Messages
      <3> QED BY <1>1, <3>1 DEF IInv, MessageInv
    <2>2. IsFiniteSet({1}) /\ Cardinality({1}) = 1
      BY FS_Singleton
    <2>3. sendings \subseteq {1}
      BY <2>1
    <2>4. Cardinality(sendings) <= Cardinality({1})
      BY <2>2, <2>3, FS_Subset
    <2> QED BY <2>2, <2>4
  <1> QED BY <1>1, InvHolds, PTL

(* The table of errnos and the classification agree wherever a status and  *)
(* an errno arrive together.                                               *)
THEOREM TableIsKept == Spec => []KindsAreDocumented
  <1>1. IInv => KindsAreDocumented
    BY DEF IInv
  <1> QED BY <1>1, InvHolds, PTL

-----------------------------------------------------------------------------
(***************************************************************************)
(* Over all its calls and keys, a refund is one write of the ledger.       *)
(***************************************************************************)
books == [i \in Refunds |-> Told(i)]

made == {i \in Refunds : IsRefunded(i)}

(* A caller that looked its refund up and then stopped saw it fail. *)
LookedUpInv(i) == phase[i] = "stopped" /\ WasLookedUp(i) => keyState[Mine(i)] = "failed"

BooksInv == IInv /\ \A i \in Refunds : LookedUpInv(i)

(* A step of one caller or its client, all that such a step may touch. *)
Steps(i) ==
  Decide(i) \/ RefuseToSend(i) \/ Return(i) \/ Deadline(i) \/ ConnectionFails(i)

LEMMA StepTouchesOne ==
  ASSUME TypeOK, NEW i \in Refunds, Steps(i)
  PROVE  /\ UNCHANGED providerVars
         /\ \A j \in Refunds \ {i} :
              /\ phase'[j] = phase[j] /\ key'[j] = key[j] /\ calls'[j] = calls[j]
              /\ result'[j] = result[j]
              /\ Mine(j)' \in doubted' <=> Mine(j) \in doubted
  <1>1. ASSUME NEW from, NEW to, Goto(i, from, to)
        PROVE  \A j \in Refunds \ {i} : phase'[j] = phase[j]
    BY <1>1 DEF Goto, TypeOK
  <1>2. ASSUME NEW k, Send(i, k)
        PROVE  /\ UNCHANGED providerVars /\ UNCHANGED result /\ UNCHANGED doubted
               /\ \A j \in Refunds \ {i} : calls'[j] = calls[j]
    BY <1>2 DEF Send, TypeOK
  <1>3. ASSUME NEW to, key' = key \/ key' = [key EXCEPT ![i] = to]
        PROVE  \A j \in Refunds \ {i} : key'[j] = key[j]
    BY <1>3 DEF TypeOK
  <1>4. ASSUME NEW err, Returns(i, err)
        PROVE  /\ UNCHANGED providerVars /\ UNCHANGED calls /\ UNCHANGED key
               /\ \A j \in Refunds \ {i} : phase'[j] = phase[j] /\ result'[j] = result[j]
               /\ \A j \in Refunds \ {i} : Mine(j)' \in doubted' <=> Mine(j) \in doubted
    <2>1. \A j \in Refunds \ {i} : phase'[j] = phase[j]
      BY <1>1, <1>4 DEF Returns
    <2>2. \A j \in Refunds \ {i} : result'[j] = result[j]
      BY <1>4 DEF Returns, TypeOK
    <2>3. doubted' \in {doubted, doubted \cup {Mine(i)}} /\ UNCHANGED key
      BY <1>4 DEF Returns, Mine
    <2>4. \A j \in Refunds \ {i} : Mine(j) # Mine(i) /\ Mine(j)' = Mine(j)
      BY <2>3 DEF Mine
    <2> QED BY <1>4, <2>1, <2>2, <2>3, <2>4 DEF Returns
  <1>5. CASE Call(i) \/ Resend(i)
    <2>1. \A j \in Refunds \ {i} : phase'[j] = phase[j]
      BY <1>1, <1>5 DEF Call, Resend
    <2>2. Send(i, key[i]) /\ UNCHANGED key
      BY <1>5 DEF Call, Resend
    <2> QED BY <1>2, <2>1, <2>2 DEF Mine
  <1>6. CASE Finish(i) \/ LookUp(i)
    <2>1. \A j \in Refunds \ {i} : phase'[j] = phase[j]
      BY <1>1, <1>6 DEF Finish, LookUp
    <2> QED BY <1>6, <2>1 DEF Finish, LookUp, Mine
  <1>7. CASE RefuseToSend(i)
    <2>1. \A j \in Refunds \ {i} : phase'[j] = phase[j]
      BY <1>1, <1>7 DEF RefuseToSend
    <2>2. \A j \in Refunds \ {i} : result'[j] = result[j]
      BY <1>7 DEF RefuseToSend, TypeOK
    <2> QED BY <1>7, <2>1, <2>2 DEF RefuseToSend, Mine
  <1>8. CASE StoreKey(i) \/ Stop(i)
    <2>1. /\ \A j \in Refunds \ {i} : phase'[j] = phase[j] /\ key'[j] = key[j]
          /\ UNCHANGED <<calls, result, doubted, providerVars>>
      BY <1>8 DEF StoreKey, Stop, TypeOK
    <2> QED BY <2>1 DEF Mine
  <1>9. CASE Learn(i)
    <2>1. \A j \in Refunds \ {i} : phase'[j] = phase[j]
      BY <1>1, <1>9 DEF Learn
    <2>2. \A j \in Refunds \ {i} : key'[j] = key[j]
      BY <1>3, <1>9 DEF Learn
    <2>3. /\ UNCHANGED <<result, doubted, providerVars>>
          /\ \A j \in Refunds \ {i} : calls'[j] = calls[j]
      BY <1>2, <1>9 DEF Learn
    <2> QED BY <2>1, <2>2, <2>3 DEF Mine
  <1>10. CASE Return(i) \/ Deadline(i) \/ ConnectionFails(i)
    <2>1. PICK err : Returns(i, err)
      BY <1>10 DEF Return, Deadline, ConnectionFails, isReplayable, getBody
    <2> QED BY <1>4, <2>1
  <1> QED BY <1>5, <1>6, <1>7, <1>8, <1>9, <1>10 DEF Steps, Decide

(* A refund that failed under a key has failed for good. *)
LEMMA FailedStays ==
  ASSUME TypeOK, [Next]_keyedVars, NEW k \in Keys, keyState[k] = "failed"
  PROVE  keyState'[k] = "failed"
  <1>1. ASSUME NEW m \in Messages, Start(m) PROVE keyState'[k] = "failed"
    BY <1>1 DEF Start, TypeOK
  <1>2. ASSUME NEW l \in Keys, Settle(l) PROVE keyState'[k] = "failed"
    BY <1>2 DEF Settle, TypeOK
  <1>3. ASSUME UNCHANGED providerVars PROVE keyState'[k] = "failed"
    BY <1>3 DEF providerVars
  <1>4. ASSUME NEW m \in Messages,
               \/ Repeat(m) \/ AnswerHeld(m) \/ Lose(m)
               \/ \E r \in Refusals : Refuse(m, r)
               \/ \E r \in Garbled : Garble(m, r)
        PROVE  UNCHANGED providerVars
    BY <1>4 DEF Repeat, AnswerHeld, Lose, Refuse, Garble
  <1>5. CASE UNCHANGED keyedVars
    BY <1>3, <1>5 DEF keyedVars
  <1>6. ASSUME NEW i \in Refunds, Steps(i) PROVE UNCHANGED providerVars
    BY <1>6, StepTouchesOne
  <1> QED BY <1>1, <1>2, <1>3, <1>4, <1>5, <1>6 DEF Next, Provide, Steps

(* What is not a caller's step leaves the callers alone. *)
LEMMA CallersRest ==
  ASSUME [Next]_keyedVars
  PROVE  (\E i \in Refunds : Steps(i)) \/ UNCHANGED callerVars
  <1>1. ASSUME NEW m \in Messages,
               \/ Provide(m) \/ Lose(m)
               \/ \E r \in Refusals : Refuse(m, r)
               \/ \E r \in Garbled : Garble(m, r)
        PROVE  UNCHANGED callerVars
    BY <1>1 DEF Provide, Start, Repeat, AnswerHeld, Lose, Refuse, Garble
  <1>2. ASSUME NEW k \in Keys, Settle(k) PROVE UNCHANGED callerVars
    BY <1>2 DEF Settle
  <1>3. CASE UNCHANGED keyedVars
    BY <1>3 DEF keyedVars
  <1> QED BY <1>1, <1>2, <1>3 DEF Next, Steps

(* How a caller comes to stop. *)
LEMMA WhenStopped ==
  ASSUME IInv, NEW i \in Refunds, Steps(i), phase'[i] = "stopped"
  PROVE  /\ Stop(i) /\ phase[i] \in {"told", "querying"} /\ key[i] # NoKey /\ calls[i] > 0
         /\ UNCHANGED <<key, calls, result, doubted, providerVars>>
         /\ WasLookedUp(i) => keyState[Mine(i)] = "failed"
  <1>1. TypeOK /\ CallerInv(i) /\ ResultInv(i)
    BY DEF IInv
  <1>2. Stop(i)
    <2>1. ASSUME NEW to, phase' = [phase EXCEPT ![i] = to] PROVE to = "stopped"
      BY <1>1, <2>1 DEF TypeOK
    <2>2. ~ (Call(i) \/ Resend(i) \/ Finish(i) \/ LookUp(i) \/ RefuseToSend(i) \/ StoreKey(i))
      BY <2>1 DEF Call, Resend, Finish, LookUp, RefuseToSend, StoreKey, Goto
    <2>3. ~ Learn(i)
      BY <2>1 DEF Learn, Goto
    <2>4. ~ (Return(i) \/ Deadline(i) \/ ConnectionFails(i))
      BY <2>1 DEF Return, Deadline, ConnectionFails, Returns, Goto, isReplayable, getBody
    <2> QED BY <2>2, <2>3, <2>4 DEF Steps, Decide
  <1>3. UNCHANGED <<key, calls, result, doubted, providerVars>>
    BY <1>2 DEF Stop
  <1>4. CASE phase[i] = "told" /\ result[i].Kind # "InvalidInput" /\ ~ WasLookedUp(i)
    <2>1. key[i] # NoKey
      BY <1>1, <1>4 DEF ResultInv
    <2> QED BY <1>1, <1>2, <1>3, <1>4, <2>1 DEF CallerInv
  <1>5. CASE phase[i] = "querying" /\ keyState[Mine(i)] = "failed"
    BY <1>1, <1>2, <1>3, <1>5 DEF CallerInv
  <1> QED BY <1>2, <1>4, <1>5 DEF Stop, WasLookedUp, Mine

LEMMA BooksInvHolds == Spec => []BooksInv
  <1>1. Init => BooksInv
    BY InitInv DEF Init, BooksInv, LookedUpInv
  <1>2. BooksInv /\ [Next]_keyedVars => BooksInv'
    <2> SUFFICES ASSUME BooksInv, [Next]_keyedVars, NEW i \in Refunds,
                        phase'[i] = "stopped", WasLookedUp(i)'
                 PROVE  keyState'[Mine(i)'] = "failed"
      BY NextInv DEF BooksInv, LookedUpInv
    <2>1. IInv /\ TypeOK /\ LookedUpInv(i) /\ CallerInv(i) /\ key[i] \in Nat /\ key[i] <= MaxKeys
      BY NumberTypes DEF BooksInv, IInv
    <2>2. Mine(i) \in Keys /\ keyState[Mine(i)] = "failed" => keyState'[Mine(i)] = "failed"
      BY <2>1, FailedStays
    <2>3. key[i] # NoKey => Mine(i) \in Keys
      BY <2>1, Indexes, Bounds DEF Mine, NoKey
    <2>4. CASE Steps(i)
      <3>1. /\ Mine(i)' = Mine(i) /\ keyState' = keyState /\ WasLookedUp(i)
            /\ WasLookedUp(i) => keyState[Mine(i)] = "failed"
        BY <2>1, <2>4, WhenStopped DEF Mine, WasLookedUp, providerVars
      <3> QED BY <3>1
    <2>5. CASE phase'[i] = phase[i] /\ key'[i] = key[i] /\ result'[i] = result[i]
      <3>1. Mine(i)' = Mine(i) /\ WasLookedUp(i) /\ key[i] # NoKey
        BY <2>1, <2>5 DEF Mine, WasLookedUp, CallerInv
      <3> QED BY <2>1, <2>2, <2>3, <2>5, <3>1 DEF LookedUpInv
    <2>6. CASE UNCHANGED callerVars
      BY <2>5, <2>6 DEF callerVars
    <2>7. ASSUME NEW j \in Refunds, Steps(j), j # i PROVE keyState'[Mine(i)'] = "failed"
      BY <2>1, <2>5, <2>7, StepTouchesOne
    <2> QED BY <2>4, <2>6, <2>7, CallersRest
  <1> QED BY <1>1, <1>2, PTL DEF Spec

(* Money has moved for a refund if and only if it has under the key its    *)
(* caller uses now.                                                        *)
LEMMA OnlyCurrentRefunded ==
  ASSUME IInv, NEW i \in Refunds
  PROVE  IsRefunded(i) <=> Mine(i) \in Keys /\ keyState[Mine(i)] = "done"
  <1>1. ASSUME IsRefunded(i) PROVE Mine(i) \in Keys /\ keyState[Mine(i)] = "done"
    <2>1. PICK k \in Keys : k[1] = i /\ refunded[k] > 0
      BY <1>1 DEF IsRefunded
    <2>2. keyState[k] = "done" /\ k[2] <= key[i] /\ ~ (k[2] < key[i])
      BY <2>1 DEF IInv, KeyInv
    <2>3. k = <<i, k[2]>> /\ k[2] \in Nat /\ key[i] \in Nat
      BY <2>1, Indexes, NumberTypes DEF IInv
    <2>4. k = Mine(i)
      BY <2>2, <2>3 DEF Mine
    <2> QED BY <2>2, <2>4
  <1>2. ASSUME Mine(i) \in Keys, keyState[Mine(i)] = "done" PROVE IsRefunded(i)
    <2>1. refunded[Mine(i)] = 1 /\ Mine(i)[1] = i
      BY <1>2 DEF IInv, KeyInv, Mine
    <2> QED BY <1>2, <2>1 DEF IsRefunded
  <1> QED BY <1>1, <1>2

LEMMA SameMade ==
  ASSUME UNCHANGED providerVars
  PROVE  UNCHANGED made
BY DEF made, IsRefunded, providerVars

(* One caller's step is an entry for its refund or none. *)
LEMMA OneEntry ==
  ASSUME TypeOK, NEW i \in Refunds, Steps(i)
  PROVE  /\ books' = [books EXCEPT ![i] = Told(i)']
         /\ books[i] = Told(i)
         /\ UNCHANGED made
  <1>1. \A j \in Refunds \ {i} : Told(j)' = Told(j)
    <2> TAKE j \in Refunds \ {i}
    <2>1. /\ phase'[j] = phase[j] /\ key'[j] = key[j] /\ calls'[j] = calls[j]
          /\ result'[j] = result[j] /\ (Mine(j)' \in doubted' <=> Mine(j) \in doubted)
      BY StepTouchesOne
    <2>2. WasLookedUp(j)' <=> WasLookedUp(j)
      BY <2>1 DEF WasLookedUp
    <2>3. <<j, key'[j]>> \in doubted' <=> <<j, key[j]>> \in doubted
      BY <2>1 DEF Mine
    <2> QED BY <2>1, <2>2, <2>3 DEF Told
  <1>2. \A j \in Refunds : books'[j] = IF j = i THEN Told(i)' ELSE books[j]
    BY <1>1 DEF books
  <1>3. books' = [j \in Refunds |-> books'[j]] /\ books = [j \in Refunds |-> books[j]]
    BY DEF books
  <1>4. books[i] = Told(i)
    BY DEF books
  <1> QED BY <1>2, <1>3, <1>4, SameMade, StepTouchesOne

(* What a step of its caller does to the entry of a refund. *)
LEMMA EntryMoves ==
  ASSUME IInv, NEW i \in Refunds, Steps(i)
  PROVE  \/ Told(i)' = Told(i)
         \/ Told(i) = "nothing" /\ Told(i)' = "waiting"
         \/ Told(i) = "waiting" /\ Told(i)' = "done" /\ IsRefunded(i)
         \/ Told(i) = "waiting" /\ Told(i)' = "refused" /\ ~ IsRefunded(i)
         \/ Told(i) = "waiting" /\ Told(i)' = "unknown"
  <1>1. /\ TypeOK /\ CallerInv(i) /\ ResultInv(i) /\ SoleInv(i)'
        /\ key[i] \in Nat /\ key[i] <= MaxKeys /\ calls[i] \in Nat
    <2>1. IInv'
      BY NextInv DEF Next, Steps
    <2> QED BY <2>1, NumberTypes DEF IInv
  <1>2. key[i] # NoKey => Mine(i) \in Keys
    BY <1>1, Indexes, Bounds DEF Mine, NoKey
  <1>3. ASSUME NEW from, NEW to, Goto(i, from, to)
        PROVE  phase[i] = from /\ phase'[i] = to
    BY <1>1, <1>3 DEF Goto, TypeOK
  <1>4. ASSUME NEW k, Send(i, k) PROVE calls'[i] = calls[i] + 1 /\ calls'[i] # 0
    BY <1>1, <1>4 DEF Send, TypeOK
  <1>5. ASSUME phase[i] \in {"start", "told", "querying", "calling"},
               phase'[i] \in {"start", "told", "querying", "calling"},
               calls'[i] = calls[i] \/ calls'[i] = calls[i] + 1
        PROVE  Told(i)' = Told(i) \/ (Told(i) = "nothing" /\ Told(i)' = "waiting")
    BY <1>1, <1>5 DEF Told
  <1>6. CASE Call(i) \/ Resend(i)
    BY <1>3, <1>4, <1>5, <1>6 DEF Call, Resend
  <1>7. CASE LookUp(i) \/ RefuseToSend(i)
    BY <1>3, <1>5, <1>7 DEF LookUp, RefuseToSend
  <1>8. CASE StoreKey(i)
    <2>1. phase[i] \in {"start", "told"} /\ phase'[i] = "start" /\ calls' = calls
      BY <1>1, <1>8 DEF StoreKey, TypeOK
    <2> QED BY <1>5, <2>1
  <1>9. CASE Return(i) \/ Deadline(i) \/ ConnectionFails(i)
    <2>1. PICK err : Returns(i, err)
      BY <1>9 DEF Return, Deadline, ConnectionFails, isReplayable, getBody
    <2> QED BY <1>3, <1>5, <2>1 DEF Returns
  <1>10. ASSUME phase[i] \in {"told", "querying"}, phase'[i] = "done", calls' = calls,
                key[i] # NoKey, keyState[Mine(i)] = "done"
         PROVE  Told(i) = "waiting" /\ Told(i)' = "done" /\ IsRefunded(i)
    <2>1. calls[i] # 0
      BY <1>1, <1>10 DEF CallerInv
    <2> QED BY <1>2, <1>10, <2>1, OnlyCurrentRefunded DEF Told
  <1>11. CASE Finish(i)
    <2>1. phase[i] = "told" /\ phase'[i] = "done" /\ calls' = calls /\ result[i] = NoError
      BY <1>3, <1>11 DEF Finish
    <2>2. result[i].Kind = "none"
      BY <2>1, ErrorFields DEF NoError
    <2>3. key[i] # NoKey /\ keyState[Mine(i)] = "done"
      BY <1>1, <2>1, <2>2 DEF ResultInv, Agrees
    <2> QED BY <1>10, <2>1, <2>3
  <1>12. CASE Learn(i)
    <2>1. CASE Goto(i, "querying", "done") /\ keyState[Mine(i)] = "done" /\ calls' = calls
      <3>1. key[i] # NoKey
        BY <1>1, <1>3, <2>1 DEF CallerInv
      <3> QED BY <1>3, <1>10, <2>1, <3>1
    <2>2. CASE Goto(i, "querying", "calling") /\ \E k : Send(i, k)
      BY <1>3, <1>4, <1>5, <2>2
    <2> QED BY <1>12, <2>1, <2>2 DEF Learn, Mine
  <1>13. CASE Stop(i)
    <2>1. phase'[i] = "stopped"
      BY <1>1, <1>13 DEF Stop, TypeOK
    <2>2. /\ phase[i] \in {"told", "querying"} /\ key[i] # NoKey /\ calls[i] > 0
          /\ UNCHANGED <<key, calls, result, doubted, providerVars>>
          /\ WasLookedUp(i) => keyState[Mine(i)] = "failed"
      BY <2>1, WhenStopped
    <2>3. Told(i) = "waiting"
      BY <1>1, <2>2 DEF Told
    <2>4. Told(i)' = IF WasLookedUp(i) \/ Mine(i) \notin doubted THEN "refused" ELSE "unknown"
      BY <1>1, <2>1, <2>2 DEF Told, WasLookedUp, Mine
    <2>5. Mine(i) \notin doubted => keyState[Mine(i)] # "done"
      <3>1. Mine(i)' = Mine(i) /\ doubted' = doubted /\ keyState' = keyState /\ key'[i] # NoKey
        BY <2>2 DEF Mine, providerVars
      <3> QED BY <1>1, <2>1, <3>1 DEF SoleInv
    <2>6. WasLookedUp(i) \/ Mine(i) \notin doubted => ~ IsRefunded(i)
      BY <2>2, <2>5, OnlyCurrentRefunded
    <2> QED BY <2>3, <2>4, <2>6
  <1> QED BY <1>6, <1>7, <1>8, <1>9, <1>11, <1>12, <1>13 DEF Steps, Decide

LEMMA StepRefines ==
  ASSUME IInv, NEW i \in Refunds, Steps(i)
  PROVE  Ledger!LedgerNext \/ UNCHANGED <<books, made>>
  <1>1. /\ books' = [books EXCEPT ![i] = Told(i)'] /\ books[i] = Told(i)
        /\ UNCHANGED made /\ (i \in made <=> IsRefunded(i))
    BY OneEntry DEF made, IInv
  <1>2. CASE Told(i)' = Told(i)
    <2>1. books = [books EXCEPT ![i] = books[i]]
      BY DEF books
    <2> QED BY <1>1, <1>2, <2>1
  <1>3. CASE Told(i) = "nothing" /\ Told(i)' = "waiting"
    BY <1>1, <1>3 DEF Ledger!LedgerNext, Ledger!Submit, Ledger!Tell, books, made
  <1>4. CASE Told(i) = "waiting" /\ Told(i)' = "done" /\ IsRefunded(i)
    BY <1>1, <1>4 DEF Ledger!LedgerNext, Ledger!Confirm, Ledger!Tell, books, made
  <1>5. CASE Told(i) = "waiting" /\ Told(i)' = "refused" /\ ~ IsRefunded(i)
    BY <1>1, <1>5 DEF Ledger!LedgerNext, Ledger!Refuse, Ledger!Tell, books, made
  <1>6. CASE Told(i) = "waiting" /\ Told(i)' = "unknown"
    BY <1>1, <1>6 DEF Ledger!LedgerNext, Ledger!GiveUp, Ledger!Tell, books, made
  <1> QED BY <1>2, <1>3, <1>4, <1>5, <1>6, EntryMoves

(* Money moves for a refund that waits, or whose caller knows nothing.     *)
LEMMA SettleRefines ==
  ASSUME BooksInv, NEW k \in Keys, Settle(k)
  PROVE  Ledger!LedgerNext \/ UNCHANGED <<books, made>>
  <1> DEFINE i == k[1]
  <1>1. /\ i \in Refunds /\ k = <<i, k[2]>> /\ k[2] \in Nat /\ key[i] \in Nat
        /\ TypeOK /\ KeyInv(k) /\ CallerInv(i) /\ SoleInv(i) /\ LookedUpInv(i) /\ IInv
    BY Indexes, NumberTypes DEF BooksInv, IInv
  <1>2. UNCHANGED books
    BY DEF Settle, callerVars, books, Told, WasLookedUp
  <1>3. keyState[k] \in {"processing", "undetermined"}
    BY DEF Settle
  <1>4. k = Mine(i) /\ calls[i] > 0
    BY <1>1, <1>3 DEF KeyInv, Mine
  <1>5. i \notin made
    BY <1>1, <1>3, <1>4, OnlyCurrentRefunded DEF made
  <1>6. books[i] \in {"waiting", "unknown"}
    <2>1. key[i] # NoKey /\ phase[i] # "done" /\ phase[i] # "start"
      BY <1>1, <1>3, <1>4 DEF CallerInv
    <2>2. phase[i] = "stopped" => Mine(i) \in doubted /\ ~ WasLookedUp(i)
      BY <1>1, <1>3, <1>4, <2>1 DEF SoleInv, LookedUpInv
    <2> QED BY <1>1, <1>4, <2>1, <2>2 DEF books, Told, Mine
  <1>7. refunded[k] = 0
    BY <1>1, <1>3 DEF KeyInv
  <1>8. CASE keyState'[k] = "done"
    <2>1. refunded'[k] = 1 /\ \A l \in Keys : l # k => refunded'[l] = refunded[l]
      BY <1>1, <1>7, <1>8 DEF Settle, TypeOK
    <2>2. \A j \in Refunds : IsRefunded(j)' <=> IsRefunded(j) \/ j = i
      BY <1>7, <2>1 DEF IsRefunded
    <2>3. made' = made \cup {i}
      BY <1>1, <2>2 DEF made
    <2> QED BY <1>1, <1>2, <1>5, <1>6, <2>3
            DEF Ledger!LedgerNext, Ledger!TakeEffect, books, made
  <1>9. CASE keyState'[k] # "done"
    <2>1. refunded' = refunded
      BY <1>1, <1>9 DEF Settle, TypeOK
    <2> QED BY <1>2, <2>1 DEF made, IsRefunded
  <1> QED BY <1>8, <1>9

LEMMA NextRefines ==
  ASSUME BooksInv, [Next]_keyedVars
  PROVE  Ledger!LedgerNext \/ UNCHANGED <<books, made>>
  <1>1. ASSUME UNCHANGED callerVars, UNCHANGED refunded
        PROVE  UNCHANGED <<books, made>>
    BY <1>1 DEF callerVars, books, made, Told, WasLookedUp, IsRefunded
  <1>2. ASSUME NEW i \in Refunds, Steps(i)
        PROVE  Ledger!LedgerNext \/ UNCHANGED <<books, made>>
    BY <1>2, StepRefines DEF BooksInv
  <1>3. ASSUME NEW m \in Messages,
               \/ Provide(m) \/ Lose(m)
               \/ \E r \in Refusals : Refuse(m, r)
               \/ \E r \in Garbled : Garble(m, r)
        PROVE  UNCHANGED callerVars /\ UNCHANGED refunded
    BY <1>3 DEF Provide, Start, Repeat, AnswerHeld, Lose, Refuse, Garble, providerVars
  <1>4. CASE UNCHANGED keyedVars
    BY <1>1, <1>4 DEF keyedVars, providerVars
  <1> QED BY <1>1, <1>2, <1>3, <1>4, SettleRefines DEF Next, Steps

(* A refund is submitted with its first request, and confirmed or refused  *)
(* when its caller stops asking: confirmed only after the money moved,     *)
(* refused only when it has not moved and never will, over all resends and *)
(* keys; what a stopped caller left in doubt may still come, once.         *)
THEOREM RefundsImplementLedger == Spec => RefundIsOneWrite
  <1>1. Init => Ledger!LedgerInit
    <2> SUFFICES ASSUME Init PROVE Ledger!LedgerInit
      OBVIOUS
    <2>1. \A i \in Refunds : Told(i) = "nothing" /\ ~ IsRefunded(i)
      BY DEF Init, Told, IsRefunded
    <2> QED BY <2>1 DEF Ledger!LedgerInit
  <1>2. BooksInv /\ [Next]_keyedVars => [Ledger!LedgerNext]_(Ledger!ledger)
    <2> SUFFICES ASSUME BooksInv, [Next]_keyedVars
                 PROVE  Ledger!LedgerNext \/ UNCHANGED <<books, made>>
      BY DEF Ledger!ledger, books, made
    <2> QED BY NextRefines
  <1> QED BY <1>1, <1>2, BooksInvHolds, PTL DEF Spec, RefundIsOneWrite, Ledger!LedgerSpec
=============================================================================
