---------------------------- MODULE CallOutcome ----------------------------
(***************************************************************************)
(* One Payment API call from the arrival of its response headers on, over  *)
(* every response a provider, a gateway or a proxy in between may produce. *)
(***************************************************************************)
EXTENDS PaymentErrors

CONSTANTS
  Methods,     \* HTTP methods the client uses
  Statuses,    \* HTTP statuses that may arrive
  Texts        \* texts a JSON string in the code field may hold, trimmed

ASSUME StatusAssumption == Statuses \subseteq Nat

VARIABLES method, response, outcome

vars == <<method, response, outcome>>

(* No outcome yet. *)
Pending == Error("pending", 0, NoText)

(* A code may arrive as any JSON value; the text of a boolean is its name. *)
CodeValues ==
  [json : {"string"}, text : Texts]
    \cup {[json |-> "number", text |-> Text("4", "00")],
          [json |-> "boolean", text |-> Text("t", "rue")],
          [json |-> "boolean", text |-> Text("f", "alse")],
          [json |-> "object", text |-> NoText],
          NoValue}

CodeTexts == {value.text : value \in CodeValues}

Bodies ==
  [read : BOOLEAN, json : {"object", "null", "array", "notJSON"}, code : CodeValues]

Responses == [status : Statuses, body : Bodies]

Init ==
  /\ method \in Methods
  /\ response \in Responses
  /\ outcome = Pending

Respond ==
  /\ outcome = Pending
  /\ outcome' = respond(method, response)
  /\ UNCHANGED <<method, response>>

Next == Respond

Spec == Init /\ [][Next]_vars

-----------------------------------------------------------------------------
Outcomes ==
  [kind : Kinds \cup {"pending", "none"}, HTTPStatus : Statuses \cup {0, 429},
   code : CodeTexts, joinsUnknown : BOOLEAN]

(* The call is always in one of the outcomes the errors package defines. *)
TypeOK ==
  /\ method \in Methods
  /\ response \in Responses
  /\ outcome \in Outcomes

(* A code was read from the body: the evidence a verdict has to rest on. *)
ReadCode == IF response.body.read THEN envCode(response.body) ELSE NoText

(* A call counts as refused for good -- the caller may send a new payment  *)
(* -- only when a readable body below HTTP 500 named a code of a family    *)
(* documented as a refusal.  A timeout, a 5xx, a gateway's HTML page, a    *)
(* write told to slow down and a letter nobody documented all leave the    *)
(* outcome unknown.                                                        *)
SettledRefusalNeedsEvidence ==
  outcome # Pending /\ IsSettledRefusal(outcome) =>
    \/ response.status = 429 /\ method \in ReadMethods
    \/ /\ response.status \in (200..299 \cup 400..499) \ {429}
       /\ \/ normalizeCode(ReadCode) \in {CodeRiskRejected, CodeIdempotencyConflict}
          \/ normalizeCode(ReadCode).letter \in {"T", "V", "A"}

(* A call succeeds only on a 2xx whose readable envelope says S0000: never *)
(* on a redirect, an empty 200 or a 2xx carrying a refusal.                *)
SuccessNeedsEvidence ==
  outcome = NoError =>
    response.status \in 200..299 /\ normalizeCode(ReadCode) = CodeSuccess

(* Two tables written by hand agree: a documented code arriving with the   *)
(* status the catalog documents, in any spelling, is classified as the     *)
(* kind the catalog tells callers to expect.                               *)
CatalogAgrees ==
  outcome # Pending /\ response.body.read =>
    \A info \in LookupCode(envCode(response.body)) :
      response.status = info.HTTPStatus => outcome.kind = info.Kind

(* HTTP 400 or 401 without a usable provider code is an unknown outcome.   *)
(* Oen's codes are strings; a boolean there is not one of them.            *)
NoUsableCodeIsUnknown ==
  /\ outcome # Pending
  /\ response.status \in {400, 401}
  /\ response.body.read => response.body.code.json = "boolean"
  => IsUnknownOutcome(outcome)

=============================================================================
