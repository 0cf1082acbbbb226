--------------------------- MODULE MCKeyedCharges ---------------------------
EXTENDS KeyedCharges, TLC

CONSTANTS o1, right, wrong

MCDeclines == {Text("T", "0004"), CodeRiskRejected}

MCRefusals == {Says(401, CodeUnauthorized), Says(400, CodeInvalidTransactionState)}

(* A timeout, a rate limit with and without a code, a page that is not     *)
(* Oen's, a redirect and a success whose body is cut off.                  *)
MCGarbled ==
  {[Says(408, NoText) EXCEPT !.body.json = "notJSON"],
   Says(429, NoText), Unread(504), Unread(302), Unread(200), Unread(429)}
=============================================================================
