--------------------------- MODULE MCCallOutcome ---------------------------
(* Every documented code with the spellings the client accepts, one code   *)
(* of each undocumented family, and the statuses at both ends of every     *)
(* class classify tells apart.                                             *)
EXTENDS CallOutcome

MCMethods == {"GET", "POST"}

MCStatuses ==
  {100, 199, 200, 299, 302, 399, 400, 401, 409, 422, 429, 499, 500, 504}

MCTexts ==
  {info.code : info \in codeCatalog}
    \cup {NoText, CodeSuccess, Text("s", "0000"), Text("t", "0004"), Text("k", "0001"),
          Text("v", "0002"), Text("r", "0001"), Text("i", "0001"), Text("T", "9999"),
          Text("X", "0001")}
=============================================================================
