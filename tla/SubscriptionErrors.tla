------------------------- MODULE SubscriptionErrors -------------------------
(***************************************************************************)
(* How the Subscription API client reads one response: errors.go and       *)
(* errnos.go of package subscription.                                      *)
(*                                                                         *)
(* An errno stands for every spelling of it: classify and LookupErrno both *)
(* trim it and compare it in upper case.  Messages, descriptions and retry *)
(* hints are text no decision of the client depends on.                    *)
(***************************************************************************)
EXTENDS Integers

NoErrno == ""   \* the body has no errno, or is not one the client can read
NoKey   == 0    \* the request carries no Idempotency-Key

ErrnoRecoveryLinkState  == "X016"
ErrnoPaymentSuspended   == "M012"
ErrnoChargeInProgress   == "SA015"
ErrnoRefundInProgress   == "SA025"
ErrnoRefundKeyFailed    == "SA026"
ErrnoRefundRejected     == "SA027"
ErrnoRefundUndetermined == "SA028"

Kinds ==
  {"InvalidRequest", "Unauthorized", "Forbidden", "NotFound", "Conflict", "InProgress",
   "Declined", "RateLimited", "UnknownOutcome", "InvalidInput"}

-----------------------------------------------------------------------------
(***************************************************************************)
(* The documented errnos: rows of a status, a kind and the errnos that have*)
(* both.                                                                   *)
(***************************************************************************)
Row(status, kind, errnos) == [HTTPStatus |-> status, Kind |-> kind, errnos |-> errnos]

commonErrnos ==
  { Row(400, "InvalidRequest", {"X006", "X019", "X028"}),
    Row(400, "Conflict",       {ErrnoRecoveryLinkState}),
    Row(401, "Unauthorized",   {"X022"}),
    Row(403, "Forbidden",      {"X023", "M002"}),
    Row(404, "NotFound",       {"X011"}),
    Row(422, "Forbidden",      {ErrnoPaymentSuspended}) }

subscriptionErrnos ==
  { Row(404, "NotFound",       {"SA001", "SA011", "SA045", "SA046"}),
    Row(409, "Conflict",       {"SA002", "SA003", "SA004", "SA005", "SA006", "SA008", "SA009",
                                "SA013", "SA014", "SA016"}),
    Row(409, "InProgress",     {ErrnoChargeInProgress}),
    Row(400, "InvalidRequest", {"SA012", "SA018"}),
    Row(422, "InvalidRequest", {"SA019", "SA047"}),
    Row(503, "UnknownOutcome", {"SA010"}) }

refundErrnos ==
  { Row(409, "Conflict",       {"SA007", "SA021", "SA022", "SA023", "SA024",
                                ErrnoRefundKeyFailed}),
    Row(409, "InProgress",     {ErrnoRefundInProgress}),
    Row(502, "Declined",       {ErrnoRefundRejected}),
    Row(503, "UnknownOutcome", {ErrnoRefundUndetermined}) }

keyAndDeliveryErrnos ==
  { Row(400, "InvalidRequest", {"SA034", "SA040", "SA041"}),
    Row(404, "NotFound",       {"SA030"}),
    Row(409, "Conflict",       {"SA031", "SA032", "SA033", "SA035", "SA044"}) }

errnoCatalog == commonErrnos \cup subscriptionErrnos \cup refundErrnos \cup keyAndDeliveryErrnos

(* The entry of an errno: a set of at most one. *)
LookupErrno(errno) == {row \in errnoCatalog : errno \in row.errnos}

-----------------------------------------------------------------------------
(***************************************************************************)
(* Errors.  joinsUnknown: ErrUnknownOutcome is in the cause chain too.     *)
(***************************************************************************)
Error(kind, status, errno) ==
  [Kind |-> kind, HTTPStatus |-> status, Errno |-> errno, IdempotencyKey |-> NoKey,
   joinsUnknown |-> FALSE]

NoError == Error("none", 0, NoErrno)

(* A request the client refuses to send. *)
newValidationError == Error("InvalidInput", 0, NoErrno)

Is(err, kind) == err.Kind = kind \/ (kind = "UnknownOutcome" /\ err.joinsUnknown)

IsUnknownOutcome(err) == Is(err, "UnknownOutcome")
IsInProgress(err)     == Is(err, "InProgress")

(* Slip: only an unknown outcome asks for a resend. *)
RetryableWithSameKey_unknownOnly(err) ==
  err.IdempotencyKey # NoKey /\ err.Kind = "UnknownOutcome"

RetryableWithSameKey(err) ==
  err.IdempotencyKey # NoKey /\ err.Kind \in {"UnknownOutcome", "RateLimited"}

-----------------------------------------------------------------------------
(***************************************************************************)
(* classify.                                                               *)
(***************************************************************************)
kindOfStatus ==
  [status \in {400, 401, 403, 404, 409, 422} |->
     CASE status \in {400, 422} -> "InvalidRequest"
       [] status = 401          -> "Unauthorized"
       [] status = 403          -> "Forbidden"
       [] status = 404          -> "NotFound"
       [] status = 409          -> "Conflict"]

(* Slip: a 4xx nobody documents has the zero kind. *)
clientErrorKind_noDefault(status, errno) ==
  CASE errno = ErrnoRecoveryLinkState -> "Conflict"
    [] errno = ErrnoPaymentSuspended  -> "Forbidden"
    [] OTHER -> IF status \in DOMAIN kindOfStatus THEN kindOfStatus[status] ELSE ""

(* Slip: M012 goes by its status. *)
clientErrorKind_byStatus(status, errno) ==
  CASE errno = ErrnoRecoveryLinkState -> "Conflict"
    [] OTHER -> IF status \in DOMAIN kindOfStatus THEN kindOfStatus[status]
                ELSE "InvalidRequest"

clientErrorKind(status, errno) ==
  CASE errno = ErrnoRecoveryLinkState -> "Conflict"
    [] errno = ErrnoPaymentSuspended  -> "Forbidden"
    [] OTHER -> IF status \in DOMAIN kindOfStatus THEN kindOfStatus[status]
                ELSE "InvalidRequest"

(* Errnos that say more than the status they come with. *)
decisiveErrnos == {ErrnoRefundRejected, ErrnoChargeInProgress, ErrnoRefundInProgress}

(* Slip: an undetermined refund is taken for a refused one. *)
refusalKind_undeterminedDeclines(status, errno) ==
  CASE errno \in {ErrnoRefundRejected, ErrnoRefundUndetermined} -> "Declined"
    [] errno \in {ErrnoChargeInProgress, ErrnoRefundInProgress} -> "InProgress"
    [] errno \notin decisiveErrnos \cup {ErrnoRefundUndetermined}
         /\ (status >= 500 \/ errno = NoErrno) -> "UnknownOutcome"
    [] OTHER -> clientErrorKind(status, errno)

(* Slip: a 4xx is a refusal whether or not it says why. *)
refusalKind_anyClientError(status, errno) ==
  CASE errno = ErrnoRefundRejected -> "Declined"
    [] errno \in {ErrnoChargeInProgress, ErrnoRefundInProgress} -> "InProgress"
    [] errno \notin decisiveErrnos
         /\ status >= 500 -> "UnknownOutcome"
    [] OTHER -> clientErrorKind(status, errno)

(* The kind of a response with a status of 400 or more, 429 apart. *)
refusalKind(status, errno) ==
  CASE errno = ErrnoRefundRejected -> "Declined"
    [] errno \in {ErrnoChargeInProgress, ErrnoRefundInProgress} -> "InProgress"
    [] errno \notin decisiveErrnos
         /\ (status >= 500 \/ errno = NoErrno) -> "UnknownOutcome"
    [] OTHER -> clientErrorKind(status, errno)

rateLimited(method, errno) ==
  [Error("RateLimited", 429, errno) EXCEPT !.joinsUnknown = method # "GET"]

classify(method, status, errno, failedDecode) ==
  CASE status = 429 -> rateLimited(method, errno)
    [] status \in 200..299 ->
         IF failedDecode THEN Error("UnknownOutcome", status, NoErrno) ELSE NoError
    [] status < 400 /\ status \notin 200..299 -> Error("UnknownOutcome", status, errno)
    [] OTHER -> Error(refusalKind(status, errno), status, errno)

(* do, from the moment the response headers arrive, and the decoding of    *)
(* the data.  body: a JSON object, with data for a success; something      *)
(* else; or bytes that end before they should.                             *)
Response(status, errno, body) == [status |-> status, errno |-> errno, body |-> body]

respond(method, response) ==
  LET errno == IF response.body = "object" /\ response.status \notin 200..299
               THEN response.errno ELSE NoErrno
  IN IF response.body = "cut" /\ response.status # 429
     THEN Error("UnknownOutcome", response.status, NoErrno)
     ELSE classify(method, response.status, errno, response.body # "object")

(* No response: the request may have reached Oen. *)
transportFailure == Error("UnknownOutcome", 0, NoErrno)

(* finish puts the key of the request into every error. *)
finish(key, err) == IF err = NoError THEN err ELSE [err EXCEPT !.IdempotencyKey = key]
=============================================================================
