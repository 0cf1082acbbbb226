------------------------- MODULE CallOutcomeProofs -------------------------
(***************************************************************************)
(* What a response proves about a call, for every set of methods, statuses *)
(* and code texts.  Each property relates the outcome to the response it   *)
(* was made from, so each is inductive: the lemmas state it of respond, and*)
(* the theorems carry it over the one step a call takes.                   *)
(***************************************************************************)
EXTENDS CallOutcome, TLAPS

(* A provider code has a kind, and a kind other than unknown needs a       *)
(* documented code or the letter of a family documented as a refusal.      *)
LEMMA ProviderKindFacts ==
  ASSUME NEW code
  PROVE  /\ providerKind(code) \in Kinds
         /\ providerKind(code) # "UnknownOutcome" =>
              \/ code \in {CodeRiskRejected, CodeIdempotencyConflict}
              \/ code.letter \in {"T", "V", "A"}
  BY DEF providerKind, Kinds, CodeInvalidTransactionState, Text

(* The order of classify's branches, each with its own status range.       *)
LEMMA ClassifyBranches ==
  ASSUME NEW m, NEW st \in Nat, NEW failed \in BOOLEAN, NEW code
  PROVE  /\ st = 429 => classify(m, st, failed, code) = rateLimited(m, code)
         /\ st >= 500 => classify(m, st, failed, code) = Error("UnknownOutcome", st, code)
         /\ st \in 400..499 \ {429} =>
              classify(m, st, failed, code) = classifyClientError(st, failed, code)
         /\ st \in 200..299 =>
              classify(m, st, failed, code) = classifySuccess(st, failed, code)
         /\ st < 200 \/ st \in 300..399 =>
              classify(m, st, failed, code) = Error("UnknownOutcome", st, NoText)
  <1>1. CASE st = 429
    BY <1>1 DEF classify
  <1>2. CASE st >= 500
    BY <1>2 DEF classify
  <1>3. CASE st \in 400..499 \ {429}
    BY <1>3 DEF classify
  <1>4. CASE st \in 200..299
    BY <1>4 DEF classify
  <1>5. CASE st < 200 \/ st \in 300..399
    BY <1>5 DEF classify
  <1> QED
    BY <1>1, <1>2, <1>3, <1>4, <1>5

(* respond is classify or, for a body that cannot be read, its rate limit. *)
LEMMA RespondCases ==
  ASSUME NEW m, NEW r \in Responses
  PROVE  /\ r.status \in Nat
         /\ decodeErr(r.body) \in BOOLEAN
         /\ r.body.read =>
              respond(m, r) = classify(m, r.status, decodeErr(r.body), envCode(r.body))
         /\ ~ r.body.read /\ r.status = 429 => respond(m, r) = rateLimited(m, NoText)
         /\ ~ r.body.read /\ r.status # 429 =>
              respond(m, r) = Error("UnknownOutcome", r.status, NoText)
  <1>1. r.status \in Nat
    BY StatusAssumption DEF Responses
  <1>2. decodeErr(r.body) \in BOOLEAN
    BY DEF decodeErr
  <1>3. r.body.read =>
          respond(m, r) = classify(m, r.status, decodeErr(r.body), envCode(r.body))
    BY DEF respond
  <1>4. ASSUME ~ r.body.read, r.status = 429
        PROVE  respond(m, r) = rateLimited(m, NoText)
    <2>1. respond(m, r) = classify(m, r.status, TRUE, NoText)
      BY <1>4 DEF respond, unreadableBody
    <2> QED BY <1>1, <1>4, <2>1, ClassifyBranches
  <1>5. ~ r.body.read /\ r.status # 429 =>
          respond(m, r) = Error("UnknownOutcome", r.status, NoText)
    BY DEF respond, unreadableBody
  <1> QED
    BY <1>1, <1>2, <1>3, <1>4, <1>5

-----------------------------------------------------------------------------
(* A verdict that refuses for good rests on the evidence the property      *)
(* names, whatever response it was made from.                              *)
LEMMA RefusalEvidence ==
  ASSUME NEW m, NEW r \in Responses, IsSettledRefusal(respond(m, r))
  PROVE  \/ r.status = 429 /\ m \in ReadMethods
         \/ /\ r.status \in (200..299 \cup 400..499) \ {429}
            /\ LET code == IF r.body.read THEN envCode(r.body) ELSE NoText IN
               \/ normalizeCode(code) \in {CodeRiskRejected, CodeIdempotencyConflict}
               \/ normalizeCode(code).letter \in {"T", "V", "A"}
  <1> DEFINE code == envCode(r.body)
             failed == decodeErr(r.body)
  <1>1. \A st, c : ~ IsSettledRefusal(Error("UnknownOutcome", st, c))
    BY DEF IsSettledRefusal, IsUnknownOutcome, Is, Error
  <1>2. \A c : IsSettledRefusal(rateLimited(m, c)) => m \in ReadMethods
    BY DEF IsSettledRefusal, IsUnknownOutcome, Is, rateLimited
  <1>3. ~ IsSettledRefusal(NoError)
    BY DEF IsSettledRefusal
  <1>4. ASSUME IsSettledRefusal(providerError(r.status, code))
        PROVE  \/ normalizeCode(code) \in {CodeRiskRejected, CodeIdempotencyConflict}
               \/ normalizeCode(code).letter \in {"T", "V", "A"}
    <2>1. providerKind(normalizeCode(code)) # "UnknownOutcome"
      BY <1>4 DEF IsSettledRefusal, IsUnknownOutcome, Is, providerError, Error
    <2> QED BY <2>1, ProviderKindFacts
  <1>5. CASE ~ r.body.read
    BY <1>1, <1>2, <1>5, RespondCases
  <1>6. CASE r.body.read /\ r.status = 429
    BY <1>2, <1>6, RespondCases, ClassifyBranches
  <1>7. CASE r.body.read /\ r.status \in 400..499 \ {429}
    <2>1. respond(m, r) = classifyClientError(r.status, failed, code)
      BY <1>7, RespondCases, ClassifyBranches
    <2> QED BY <1>1, <1>4, <1>7, <2>1 DEF classifyClientError
  <1>8. CASE r.body.read /\ r.status \in 200..299
    <2>1. respond(m, r) = classifySuccess(r.status, failed, code)
      BY <1>8, RespondCases, ClassifyBranches
    <2> QED BY <1>1, <1>3, <1>4, <1>8, <2>1 DEF classifySuccess
  <1>9. CASE r.body.read /\ (r.status >= 500 \/ r.status < 200 \/ r.status \in 300..399)
    BY <1>1, <1>9, RespondCases, ClassifyBranches
  <1> QED
    BY <1>5, <1>6, <1>7, <1>8, <1>9, RespondCases

(* Only a 2xx that says S0000 is a success. *)
LEMMA SuccessEvidence ==
  ASSUME NEW m, NEW r \in Responses, respond(m, r) = NoError
  PROVE  /\ r.status \in 200..299
         /\ r.body.read
         /\ normalizeCode(envCode(r.body)) = CodeSuccess
  <1> DEFINE code == envCode(r.body)
             failed == decodeErr(r.body)
  <1>1. \A st, c : Error("UnknownOutcome", st, c) # NoError
    BY DEF Error, NoError
  <1>2. \A c : rateLimited(m, c) # NoError
    BY DEF rateLimited, Error, NoError
  <1>3. providerError(r.status, code) # NoError
    BY ProviderKindFacts DEF providerError, Error, NoError, Kinds
  <1>4. r.body.read
    BY <1>1, <1>2, RespondCases
  <1>5. r.status \notin 400..499 \ {429}
    <2>1. classifyClientError(r.status, failed, code) # NoError
      BY <1>1, <1>3 DEF classifyClientError
    <2> QED BY <1>4, <2>1, RespondCases, ClassifyBranches
  <1>6. r.status \in 200..299
    BY <1>1, <1>2, <1>4, <1>5, RespondCases, ClassifyBranches
  <1>7. classifySuccess(r.status, failed, code) = NoError
    BY <1>4, <1>6, RespondCases, ClassifyBranches
  <1> QED
    BY <1>1, <1>3, <1>4, <1>6, <1>7 DEF classifySuccess

(* The two tables: a documented code has the kind the catalog gives it.    *)
LEMMA CatalogKinds ==
  ASSUME NEW info \in codeCatalog
  PROVE  /\ providerKind(info.code) = info.Kind
         /\ info.code.letter \in {"A", "V", "T", "R", "K", "C", "I", "F"}
         /\ \/ info.HTTPStatus \in {400, 401, 409, 422}
            \/ info.HTTPStatus = 500 /\ info.Kind = "UnknownOutcome"
  <1>1. CASE info \in Family("A", {"0001", "0002"}, 401, "Unauthorized")
    BY <1>1 DEF Family, Text, providerKind, CodeIdempotencyConflict, CodeSystemError,
                CodeInvalidTransactionState, CodeRiskRejected
  <1>2. CASE info \in Family("V", {"0001", "0003", "0004", "0005", "0006", "0007"},
                             400, "InvalidRequest")
    BY <1>2 DEF Family, Text, providerKind, CodeIdempotencyConflict, CodeSystemError,
                CodeInvalidTransactionState, CodeRiskRejected
  <1>3. CASE info \in Family("V", {"0002"}, 400, "TransactionState")
    BY <1>3 DEF Family, Text, providerKind, CodeIdempotencyConflict, CodeSystemError,
                CodeInvalidTransactionState, CodeRiskRejected
  <1>4. CASE info \in Family("T", {"0001", "0002", "0003", "0004", "0005", "0009", "0010"},
                             400, "Declined")
    BY <1>4 DEF Family, Text, providerKind, CodeIdempotencyConflict, CodeSystemError,
                CodeInvalidTransactionState, CodeRiskRejected
  <1>5. CASE info \in Family("R", {"0001"}, 400, "UnknownOutcome")
    BY <1>5 DEF Family, Text, providerKind, CodeIdempotencyConflict, CodeSystemError,
                CodeInvalidTransactionState, CodeRiskRejected
  <1>6. CASE info \in Family("K", {"0001"}, 400, "Declined")
    BY <1>6 DEF Family, Text, providerKind, CodeIdempotencyConflict, CodeSystemError,
                CodeInvalidTransactionState, CodeRiskRejected
  <1>7. CASE info \in Family("C", {"026"}, 409, "UnknownOutcome")
    BY <1>7 DEF Family, Text, providerKind, CodeIdempotencyConflict, CodeSystemError,
                CodeInvalidTransactionState, CodeRiskRejected
  <1>8. CASE info \in Family("I", {"0001"}, 422, "InvalidRequest")
    BY <1>8 DEF Family, Text, providerKind, CodeIdempotencyConflict, CodeSystemError,
                CodeInvalidTransactionState, CodeRiskRejected
  <1>9. CASE info \in Family("I", {"0002", "0003"}, 409, "UnknownOutcome")
    BY <1>9 DEF Family, Text, providerKind, CodeIdempotencyConflict, CodeSystemError,
                CodeInvalidTransactionState, CodeRiskRejected
  <1>10. CASE info \in Family("F", {"0001"}, 500, "UnknownOutcome")
    BY <1>10 DEF Family, Text, providerKind, CodeIdempotencyConflict, CodeSystemError,
                 CodeInvalidTransactionState, CodeRiskRejected
  <1> QED
    BY <1>1, <1>2, <1>3, <1>4, <1>5, <1>6, <1>7, <1>8, <1>9, <1>10 DEF codeCatalog

LEMMA CatalogEvidence ==
  ASSUME NEW m, NEW r \in Responses, r.body.read,
         NEW info \in LookupCode(envCode(r.body)), r.status = info.HTTPStatus
  PROVE  respond(m, r).kind = info.Kind
  <1> DEFINE code == envCode(r.body)
             failed == decodeErr(r.body)
  <1>1. info \in codeCatalog /\ info.code = normalizeCode(code)
    BY DEF LookupCode
  <1>2. code # NoText
    <2>1. NoText.letter = "" /\ normalizeCode(NoText) = NoText
      BY DEF normalizeCode, NoText, Text, LowerLetters
    <2>2. info.code.letter # ""
      <3>1. info.code.letter \in {"A", "V", "T", "R", "K", "C", "I", "F"}
        BY <1>1, CatalogKinds
      <3> QED BY <3>1
    <2> QED BY <1>1, <2>1, <2>2
  <1>3. ~ failed
    BY <1>2 DEF envCode, decodeErr
  <1>4. CASE r.status = 500
    <2>1. respond(m, r) = Error("UnknownOutcome", r.status, code)
      BY <1>4, RespondCases, ClassifyBranches
    <2>2. info.Kind = "UnknownOutcome"
      <3>1. info.HTTPStatus = 500 /\ info.HTTPStatus \notin {400, 401, 409, 422}
        BY <1>4
      <3> QED BY <1>1, <3>1, CatalogKinds
    <2> QED BY <2>1, <2>2 DEF Error
  <1>5. CASE r.status \in {400, 401, 409, 422}
    <2>1. respond(m, r) = classifyClientError(r.status, failed, code)
      BY <1>5, RespondCases, ClassifyBranches
    <2>2. @ = providerError(r.status, code)
      BY <1>2, <1>3 DEF classifyClientError
    <2> QED BY <1>1, <2>1, <2>2, CatalogKinds DEF providerError, Error
  <1> QED
    BY <1>1, <1>4, <1>5, CatalogKinds

-----------------------------------------------------------------------------
LEMMA NoTextIsAText == NoText \in CodeTexts
  <1>1. NoValue \in CodeValues
    BY DEF CodeValues
  <1>2. NoValue.text = NoText
    BY DEF NoValue
  <1> QED
    BY <1>1, <1>2 DEF CodeTexts

(* Whatever arrives, the outcome is one the errors package defines, with a *)
(* status and a code that did arrive.                                      *)
LEMMA RespondType ==
  ASSUME NEW m, NEW r \in Responses
  PROVE  respond(m, r) \in Outcomes
  <1> DEFINE code == envCode(r.body)
             failed == decodeErr(r.body)
  <1>1. code \in CodeTexts /\ NoText \in CodeTexts
    <2>1. r.body.code.text \in CodeTexts
      BY DEF CodeTexts, Responses, Bodies
    <2> QED BY <2>1, NoTextIsAText DEF envCode, rawString
  <1>2. r.status \in Statuses
    BY DEF Responses
  <1>3. \A c \in CodeTexts : Error("UnknownOutcome", r.status, c) \in Outcomes
    BY <1>2 DEF Error, Outcomes, Kinds
  <1>4. \A c \in CodeTexts : rateLimited(m, c) \in Outcomes
    BY DEF rateLimited, Outcomes, Kinds
  <1>5. NoError \in Outcomes
    BY <1>1 DEF NoError, Error, Outcomes
  <1>6. providerError(r.status, code) \in Outcomes
    BY <1>1, <1>2, ProviderKindFacts DEF providerError, Error, Outcomes
  <1>7. CASE ~ r.body.read
    BY <1>1, <1>3, <1>4, <1>7, RespondCases
  <1>8. CASE r.body.read
    <2>1. classifyClientError(r.status, failed, code) \in Outcomes
      BY <1>1, <1>3, <1>6 DEF classifyClientError
    <2>2. classifySuccess(r.status, failed, code) \in Outcomes
      BY <1>1, <1>3, <1>5, <1>6 DEF classifySuccess
    <2> QED BY <1>1, <1>3, <1>4, <1>8, <2>1, <2>2, RespondCases, ClassifyBranches
  <1> QED
    BY <1>7, <1>8

THEOREM TypeCorrect == Spec => []TypeOK
  <1>1. Init => TypeOK
    BY NoTextIsAText DEF Init, TypeOK, Outcomes, Pending, Error
  <1>2. TypeOK /\ [Next]_vars => TypeOK'
    BY RespondType DEF TypeOK, Next, Respond, vars
  <1> QED
    BY <1>1, <1>2, PTL DEF Spec

(* No timeout, no 5xx, no gateway page and no undocumented letter is ever  *)
(* taken for a refusal.                                                    *)
THEOREM RefusalsAreEvidenced == Spec => []SettledRefusalNeedsEvidence
  <1>1. Init => SettledRefusalNeedsEvidence
    BY DEF Init, SettledRefusalNeedsEvidence
  <1>2. TypeOK /\ SettledRefusalNeedsEvidence /\ [Next]_vars
          => SettledRefusalNeedsEvidence'
    <2> SUFFICES ASSUME TypeOK, SettledRefusalNeedsEvidence, [Next]_vars
                 PROVE  SettledRefusalNeedsEvidence'
      OBVIOUS
    <2>1. CASE Respond
      <3>1. outcome' = respond(method, response) /\ response \in Responses
            /\ method' = method /\ response' = response
        BY <2>1 DEF Respond, TypeOK
      <3> QED BY <3>1, RefusalEvidence DEF SettledRefusalNeedsEvidence, ReadCode
    <2>2. CASE UNCHANGED vars
      BY <2>2 DEF vars, SettledRefusalNeedsEvidence, ReadCode
    <2> QED BY <2>1, <2>2 DEF Next
  <1> QED
    BY <1>1, <1>2, TypeCorrect, PTL DEF Spec

(* No redirect, empty 200 or 2xx with a refusal in it is taken for success.*)
THEOREM SuccessesAreEvidenced == Spec => []SuccessNeedsEvidence
  <1>1. Init => SuccessNeedsEvidence
    BY DEF Init, SuccessNeedsEvidence, Pending, NoError, Error
  <1>2. TypeOK /\ SuccessNeedsEvidence /\ [Next]_vars => SuccessNeedsEvidence'
    <2> SUFFICES ASSUME TypeOK, SuccessNeedsEvidence, [Next]_vars
                 PROVE  SuccessNeedsEvidence'
      OBVIOUS
    <2>1. CASE Respond
      <3>1. outcome' = respond(method, response) /\ response \in Responses
            /\ method' = method /\ response' = response
        BY <2>1 DEF Respond, TypeOK
      <3>2. outcome' = NoError =>
              /\ response.status \in 200..299 /\ response.body.read
              /\ normalizeCode(envCode(response.body)) = CodeSuccess
        BY <3>1, SuccessEvidence
      <3> QED BY <3>1, <3>2 DEF SuccessNeedsEvidence, ReadCode
    <2>2. CASE UNCHANGED vars
      BY <2>2 DEF vars, SuccessNeedsEvidence, ReadCode
    <2> QED BY <2>1, <2>2 DEF Next
  <1> QED
    BY <1>1, <1>2, TypeCorrect, PTL DEF Spec

(* The error table callers read and the one calls are classified by agree. *)
THEOREM TablesAgree == Spec => []CatalogAgrees
  <1>1. Init => CatalogAgrees
    BY DEF Init, CatalogAgrees
  <1>2. TypeOK /\ CatalogAgrees /\ [Next]_vars => CatalogAgrees'
    <2> SUFFICES ASSUME TypeOK, CatalogAgrees, [Next]_vars
                 PROVE  CatalogAgrees'
      OBVIOUS
    <2>1. CASE Respond
      <3>1. outcome' = respond(method, response) /\ response \in Responses
            /\ method' = method /\ response' = response
        BY <2>1 DEF Respond, TypeOK
      <3> QED BY <3>1, CatalogEvidence DEF CatalogAgrees
    <2>2. CASE UNCHANGED vars
      BY <2>2 DEF vars, CatalogAgrees
    <2> QED BY <2>1, <2>2 DEF Next
  <1> QED
    BY <1>1, <1>2, TypeCorrect, PTL DEF Spec
=============================================================================
