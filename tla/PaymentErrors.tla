--------------------------- MODULE PaymentErrors ---------------------------
(***************************************************************************)
(* How the Payment API client turns one HTTP response into an error.       *)
(*                                                                         *)
(* A code text is abstracted to its first letter, in the case it arrived   *)
(* in, and the rest of it: no decision in errors.go looks at more.  A JSON *)
(* code value keeps its JSON type, because rawString reads strings,        *)
(* numbers and booleans as text and every other type as no text at all.    *)
(***************************************************************************)
EXTENDS Naturals

Text(letter, rest) == [letter |-> letter, rest |-> rest]

(* The empty string: an absent code, or a blank one once trimmed. *)
NoText == Text("", "")

LowerLetters == {"a", "c", "f", "i", "k", "r", "s", "t", "v"}

UpperCase ==
  [l \in LowerLetters |->
     CASE l = "a" -> "A" [] l = "c" -> "C" [] l = "f" -> "F"
       [] l = "i" -> "I" [] l = "k" -> "K" [] l = "r" -> "R"
       [] l = "s" -> "S" [] l = "t" -> "T" [] OTHER -> "V"]

normalizeCode(code) ==
  IF code.letter \in LowerLetters
  THEN Text(UpperCase[code.letter], code.rest)
  ELSE code

(***************************************************************************)
(* Documented codes.                                                       *)
(***************************************************************************)
CodeSuccess                   == Text("S", "0000")
CodeIdempotencyConflict       == Text("I", "0001")
CodeIdempotencyInProgress     == Text("I", "0002")
CodeIdempotencyUnknownOutcome == Text("I", "0003")
CodePaymentUnknownOutcome     == Text("C", "026")
CodeUnauthorized              == Text("A", "0001")
CodeInvalidTransactionState   == Text("V", "0002")
CodeRefundFailed              == Text("R", "0001")
CodeRiskRejected              == Text("K", "0001")
CodeSystemError               == Text("F", "0001")

Kinds == {"Declined", "InvalidRequest", "Unauthorized", "TransactionState",
          "RateLimited", "UnknownOutcome", "InvalidInput"}

(* Codes of one family share the documented status and kind. *)
Family(letter, rests, status, kind) ==
  [code : {Text(letter, r) : r \in rests}, HTTPStatus : {status}, Kind : {kind}]

codeCatalog ==
  UNION { Family("A", {"0001", "0002"}, 401, "Unauthorized"),
          Family("V", {"0001", "0003", "0004", "0005", "0006", "0007"},
                 400, "InvalidRequest"),
          Family("V", {"0002"}, 400, "TransactionState"),
          Family("T", {"0001", "0002", "0003", "0004", "0005", "0009", "0010"},
                 400, "Declined"),
          Family("R", {"0001"}, 400, "UnknownOutcome"),
          Family("K", {"0001"}, 400, "Declined"),
          Family("C", {"026"}, 409, "UnknownOutcome"),
          Family("I", {"0001"}, 422, "InvalidRequest"),
          Family("I", {"0002", "0003"}, 409, "UnknownOutcome"),
          Family("F", {"0001"}, 500, "UnknownOutcome") }

(* The entry for a code in any spelling: a set of at most one. *)
LookupCode(code) == {info \in codeCatalog : info.code = normalizeCode(code)}

(***************************************************************************)
(* Reading the envelope.                                                   *)
(***************************************************************************)
(* text: the decoded text of a string, trimmed; the digits of a number;    *)
(* "true" or "false" for a boolean.                                        *)
rawString(value) ==
  IF value.json \in {"string", "number", "boolean"} THEN value.text ELSE NoText

NoValue == [json |-> "absent", text |-> NoText]

(* body.json: what json.Unmarshal makes of the bytes.  "null" decodes into *)
(* the zero envelope without an error; anything else that is not an object *)
(* is a decode error and leaves the envelope at zero.                      *)
decodeErr(body) == body.json \notin {"object", "null"}

envCode(body) == IF body.json = "object" THEN rawString(body.code) ELSE NoText

(***************************************************************************)
(* Errors.  joinsUnknown: ErrUnknownOutcome is joined into the cause chain *)
(* as well, so errors.Is finds it whatever the Kind says.                  *)
(***************************************************************************)
Error(kind, status, code) ==
  [kind |-> kind, HTTPStatus |-> status, code |-> code, joinsUnknown |-> FALSE]

(* The nil error. *)
NoError == Error("none", 0, NoText)

(* Slip: only the Kind is looked at. *)
Is_kindOnly(err, kind) == err.kind = kind

Is(err, kind) ==
  \/ err.kind = kind
  \/ kind = "UnknownOutcome" /\ err.joinsUnknown

IsUnknownOutcome(err) == Is(err, "UnknownOutcome")

(* Oen, or this client, definitely refused: nothing to reconcile. *)
IsSettledRefusal(err) == err # NoError /\ ~ IsUnknownOutcome(err)

ReadMethods == {"GET", "HEAD"}

(***************************************************************************)
(* Slips in the two tables and in classify, for measuring the properties.  *)
(***************************************************************************)
(* K0001 is left to its letter, which no family claims. *)
providerKind_noRiskCode(code) ==
  CASE code = CodeIdempotencyConflict     -> "InvalidRequest"
    [] code = CodeInvalidTransactionState -> "TransactionState"
    [] code.letter = "T"                  -> "Declined"
    [] code.letter = "V" /\ code # CodeInvalidTransactionState
                                          -> "InvalidRequest"
    [] code.letter = "A"                  -> "Unauthorized"
    [] OTHER                              -> "UnknownOutcome"

(* The kind starts at its zero value instead of KindUnknownOutcome. *)
providerKind_noDefault(code) ==
  CASE code = CodeIdempotencyConflict     -> "InvalidRequest"
    [] code = CodeInvalidTransactionState -> "TransactionState"
    [] code.letter = "T" \/ code = CodeRiskRejected -> "Declined"
    [] code.letter = "V" /\ code # CodeInvalidTransactionState
                                          -> "InvalidRequest"
    [] code.letter = "A"                  -> "Unauthorized"
    [] code.letter = "F"                  -> "UnknownOutcome"
    [] OTHER                              -> ""

providerKind(code) ==
  CASE code = CodeIdempotencyConflict     -> "InvalidRequest"
    [] code = CodeSystemError             -> "UnknownOutcome"
    [] code = CodeInvalidTransactionState -> "TransactionState"
    [] code = CodeRiskRejected            -> "Declined"
    [] code.letter = "T"                  -> "Declined"
    [] code.letter = "V" /\ code # CodeInvalidTransactionState
                                          -> "InvalidRequest"
    [] code.letter = "A"                  -> "Unauthorized"
    [] OTHER                              -> "UnknownOutcome"

providerError(status, code) ==
  Error(providerKind(normalizeCode(code)), status, code)

(* A write told to slow down is taken for one that was not processed. *)
rateLimited_settled(method, code) ==
  [kind |-> "RateLimited", HTTPStatus |-> 429, code |-> code, joinsUnknown |-> FALSE]

rateLimited(method, code) ==
  [kind |-> "RateLimited", HTTPStatus |-> 429, code |-> code,
   joinsUnknown |-> method \notin ReadMethods]

(* Slip: a 4xx is a refusal, whoever wrote it. *)
classifyClientError_codeless(status, failedDecode, code) ==
  IF failedDecode \/ code = NoText
  THEN Error("InvalidRequest", status, NoText)
  ELSE providerError(status, code)

(* Refusals of a 4xx need a code that was read; a 2xx needs S0000.         *)
classifyClientError(status, failedDecode, code) ==
  IF failedDecode \/ code = NoText
  THEN Error("UnknownOutcome", status, NoText)
  ELSE providerError(status, code)

classifySuccess(status, failedDecode, code) ==
  CASE failedDecode \/ code = NoText -> Error("UnknownOutcome", status, NoText)
    [] ~ failedDecode /\ normalizeCode(code) = CodeSuccess -> NoError
    [] OTHER -> providerError(status, code)

(* The success range ends at 399. *)
classify_redirectSucceeds(method, status, failedDecode, code) ==
  CASE status = 429              -> rateLimited(method, code)
    [] status >= 500             -> Error("UnknownOutcome", status, code)
    [] status \in 400..499 \ {429} -> classifyClientError(status, failedDecode, code)
    [] status \in 200..399       -> classifySuccess(status, failedDecode, code)
    [] OTHER                     -> Error("UnknownOutcome", status, NoText)

classify(method, status, failedDecode, code) ==
  CASE status = 429                   -> rateLimited(method, code)
    [] status >= 500                  -> Error("UnknownOutcome", status, code)
    [] status \in 400..499 \ {429}    -> classifyClientError(status, failedDecode, code)
    [] status \in 200..299            -> classifySuccess(status, failedDecode, code)
    [] OTHER                          -> Error("UnknownOutcome", status, NoText)

(* The envelope was a success but its data is not what the call needs; the *)
(* status and the code that did arrive are kept.                           *)
unknownResponseOutcome(response) ==
  Error("UnknownOutcome", response.status, envCode(response.body))

(* The body could not be read to its end within the deadline and the size  *)
(* limit.  Only a rate limit is told from the headers alone.               *)
unreadableBody(method, status) ==
  IF status = 429
  THEN classify(method, status, TRUE, NoText)
  ELSE Error("UnknownOutcome", status, NoText)

(* do, from the moment the response headers arrive. *)
respond(method, response) ==
  IF response.body.read
  THEN classify(method, response.status,
                decodeErr(response.body), envCode(response.body))
  ELSE unreadableBody(method, response.status)
=============================================================================
