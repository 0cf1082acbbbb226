---------------------------- MODULE EventRecords ----------------------------
(***************************************************************************)
(* What a merchant's records of notifications are to be, whatever becomes  *)
(* of the deliveries on the way:                                           *)
(*                                                                         *)
(*   - nothing is recorded, and nothing answered with a 2xx, but what the  *)
(*     provider said under its signature;                                  *)
(*   - it has its 2xx, after which it does not send again, only for what   *)
(*     is in the records or needs no record;                               *)
(*   - no crash, no resend and no later notification takes a record back.  *)
(***************************************************************************)
CONSTANTS
  Contents,   \* what notifications may say
  Skippable   \* what no record is made of

VARIABLES
  said,      \* by the provider
  recorded,  \* by the receiver
  answered   \* with a 2xx

records == <<said, recorded, answered>>

RecordsInit == said = {} /\ recorded = {} /\ answered = {}

Say(x) == said' = said \cup {x} /\ UNCHANGED <<recorded, answered>>

Record(x) ==
  /\ x \in said
  /\ recorded' = recorded \cup {x}
  /\ UNCHANGED <<said, answered>>

Answer(x) ==
  /\ x \in said
  /\ x \in recorded \cup Skippable
  /\ answered' = answered \cup {x}
  /\ UNCHANGED <<said, recorded>>

RecordsNext == \E x \in Contents : Say(x) \/ Record(x) \/ Answer(x)

RecordsSpec == RecordsInit /\ [][RecordsNext]_records
=============================================================================
