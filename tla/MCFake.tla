------------------------------- MODULE MCFake -------------------------------
(***************************************************************************)
(* The fake twice: requests of every kind, up to three at a time, with the *)
(* fake as New left it; and two while the test program scripts and blocks  *)
(* endpoints.  A program that scripts accepts any token before anything    *)
(* else, by which the two are told apart; every request carries the right  *)
(* token.                                                                  *)
(***************************************************************************)
EXTENDS MCOenServer

MCRequests == MCDataRequests \cup MCOtherRequests \cup MCScriptRequests

MCScripts == ~ rejectBadToken

Sent == {h \in Handlers : pc[h] # "idle"}

(* Nobody closes the fake or leaves. *)
MCNext ==
  \/ \E h \in Handlers : Serve(h)
  \/ ~ MCScripts /\ \E h \in Handlers, r \in MCDataRequests : Receive(h, r)
  \/ /\ Cardinality(Sent) < 2
     /\ \E h \in Handlers :
          \E r \in IF MCScripts THEN MCScriptRequests ELSE MCOtherRequests : Receive(h, r)
  \/ Sent = {} /\ AcceptAnyToken
  \/ MCScripts /\ \E key \in ScriptKeys, r \in ScriptResponses : QueueResponse(key, r)
  \/ MCScripts /\ (Hang(MCHangKey) \/ Unhang(MCHangKey))

MCSpec == Init /\ [][MCNext]_serverVars
=============================================================================
