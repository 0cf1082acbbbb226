-------------------------- MODULE MCPaymentSystem --------------------------
EXTENDS PaymentSystem, TLC

CONSTANTS o1, c1, c2

MCHandlers == Calls \X (1..MaxAttempts)

MCRequest(op, arg) == [op |-> op, arg |-> arg, authorized |-> TRUE, complete |-> TRUE]

MCCallRequests ==
  {MCRequest("charge", o1), MCRequest("listOrder", o1), MCRequest("refund", 1)}

MCKeys == {Key("any", "charge", NoArg)}

MCScriptCodes == {Text("T", "0004")}

(* ChargeThenFail with a gateway timeout and with a rate limit, a decline, *)
(* and an answer that never comes after a recorded charge.                 *)
MCScripts ==
  {[Response(504, NoText, NoData) EXCEPT !.recordCharge = TRUE],
   [Response(429, NoText, NoData) EXCEPT !.recordCharge = TRUE],
   Response(0, Text("T", "0004"), NoData),
   [NoResponse EXCEPT !.block = TRUE, !.recordCharge = TRUE]}

(* The fake is scripted before the first call is made; what scripting does *)
(* to requests in flight is the question of another run.                   *)
MCTest ==
  /\ \A c \in Calls : phase[c] = "idle"
  /\ \E key \in ScriptKeys, r \in ScriptResponses : QueueResponse(key, r)

(* The first caller pays, with a key or without one; the other pays as     *)
(* well, refunds or reconciles.                                            *)
MCRoles ==
  asked'[c1] \in {NoRequest, MCRequest("charge", o1)} /\ ~ keyed'[c2]

MCSystemNext ==
  /\ \/ (MCTest \/ \E h \in Handlers : Serve(h)) /\ UNCHANGED callVars
     \/ \E c \in Calls : Client(c) \/ Network(c)
  /\ MCRoles

MCSystemSpec == SystemInit /\ [][MCSystemNext]_systemVars

(* One call, with everything the test program can do meanwhile.            *)
MCLiveRequests == {MCRequest("charge", o1), MCRequest("listOrder", o1)}

MCLiveScripts == {[NoResponse EXCEPT !.block = TRUE, !.recordCharge = TRUE]}
=============================================================================
