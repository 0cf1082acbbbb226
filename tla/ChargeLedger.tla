---------------------------- MODULE ChargeLedger ----------------------------
(***************************************************************************)
(* What the client promises about a write (a charge, a subscription, a     *)
(* refund, a cancellation), whatever network and provider do in between:   *)
(*                                                                         *)
(*   - it takes effect at most once, however it ends;                      *)
(*   - a caller told "done" is told so only after it took effect;          *)
(*   - a caller told "refused" can send a new one: this one has not taken  *)
(*     effect and never will;                                              *)
(*   - a caller told "unknown" knows nothing: the effect may have come, may*)
(*     still come, or may never come.                                      *)
(***************************************************************************)
CONSTANT Writes

VARIABLES
  told,      \* what the caller of each write has been told
  effective  \* the writes that have taken effect

ledger == <<told, effective>>

Answers == {"nothing", "waiting", "done", "refused", "unknown"}

LedgerTypeOK ==
  /\ told \in [Writes -> Answers]
  /\ effective \subseteq Writes

LedgerInit ==
  /\ told = [w \in Writes |-> "nothing"]
  /\ effective = {}

Tell(w, from, to) == told[w] = from /\ told' = [told EXCEPT ![w] = to]

Submit(w) == Tell(w, "nothing", "waiting") /\ UNCHANGED effective

(* By the provider, or by the client before anything was sent. *)
Refuse(w) ==
  /\ w \notin effective
  /\ Tell(w, "nothing", "refused") \/ Tell(w, "waiting", "refused")
  /\ UNCHANGED effective

Confirm(w) == w \in effective /\ Tell(w, "waiting", "done") /\ UNCHANGED effective

GiveUp(w) == Tell(w, "waiting", "unknown") /\ UNCHANGED effective

TakeEffect(w) ==
  /\ told[w] \in {"waiting", "unknown"}
  /\ w \notin effective
  /\ effective' = effective \cup {w}
  /\ UNCHANGED told

LedgerNext ==
  \E w \in Writes : Submit(w) \/ Refuse(w) \/ Confirm(w) \/ GiveUp(w) \/ TakeEffect(w)

LedgerSpec == LedgerInit /\ [][LedgerNext]_ledger
=============================================================================
