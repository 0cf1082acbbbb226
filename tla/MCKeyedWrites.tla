--------------------------- MODULE MCKeyedWrites ---------------------------
EXTENDS KeyedWrites, TLC

CONSTANTS r1

(* Every documented errno at its status, but for those a key's own state   *)
(* is answered with, and one nobody documents.                             *)
MCRefusals ==
  (UNION {{Response(row.HTTPStatus, errno, "object") : errno \in row.errnos} :
            row \in errnoCatalog}
    \ ({Replies[state] : state \in DOMAIN Replies} \cup {Rejected}))
    \cup {Response(418, "X999", "object")}

(* Answers that carry no errno: a rate limit, a timeout page, a proxy's    *)
(* refusal, a redirect, a success that is not Oen's, and bodies cut off.   *)
MCGarbled ==
  {Response(429, NoErrno, "object"), Response(504, NoErrno, "other"),
   Response(408, NoErrno, "other"), Response(302, NoErrno, "other"),
   Response(200, NoErrno, "other"), Response(200, NoErrno, "cut"),
   Response(429, NoErrno, "cut")}
=============================================================================
