---------------------------- MODULE MCOenServer ----------------------------
EXTENDS OenServer, TLC

CONSTANTS o1, o2, h1, h2, h3

MCRequest(op, arg, authorized, complete) ==
  [op |-> op, arg |-> arg, authorized |-> authorized, complete |-> complete]

Plain(op, arg) == MCRequest(op, arg, TRUE, TRUE)

(* Writers and readers of one order and of the first resources, and a      *)
(* charge of another order.                                                *)
MCDataRequests ==
  {Plain("charge", o1), Plain("charge", o2),
   Plain("subscribe", o1), Plain("refund", 1), Plain("cancelSub", 1),
   Plain("listOrder", o1), Plain("getTx", 1), Plain("listTx", NoArg), Plain("getSub", 1)}

(* A charge cut off on its way, and answers no property looks into. *)
MCOtherRequests ==
  {MCRequest("charge", o1, TRUE, FALSE), Plain("listSubs", NoArg), Plain("hostedPage", NoArg),
   Plain("other", NoArg)}

MCSymmetry == Permutations(Handlers)

MCHangKey == Key("any", "charge", NoArg)

(* The endpoint a test usually scripts, as a route and with its method, and *)
(* one whose requests have no other key.                                   *)
MCScriptKeys ==
  {MCHangKey, Key("POST", "charge", NoArg), Key("any", "listOrder", NoArg)}

MCScriptCodes == {Text("T", "0004")}

(* ChargeThenFail, a decline, a response that never comes, no body.        *)
MCScriptResponses ==
  {[Response(504, NoText, NoData) EXCEPT !.recordCharge = TRUE],
   Response(0, Text("T", "0004"), NoData),
   [NoResponse EXCEPT !.block = TRUE]}

MCScriptRequests == {Plain("charge", o1), Plain("listOrder", o1)}

MCCloseKeys == {MCHangKey}

MCCloseRequests ==
  {Plain("charge", o1), MCRequest("charge", o1, FALSE, TRUE)}
=============================================================================
