-------------------------- MODULE ClientArithmetic --------------------------
(***************************************************************************)
(* Arithmetic on numbers from outside: validateItems adds up the line      *)
(* items of a purchase or a refund before it is sent, and ParseRetryAfter  *)
(* turns the delay a provider asks for into a time.Duration.  Both work in *)
(* a signed integer of fixed width, here any width, and must not be fooled *)
(* by it.                                                                  *)
(***************************************************************************)
EXTENDS Integers, Sequences, FiniteSetsExt

CONSTANTS
  maxInt64,   \* largest value of the signed type
  Second,     \* time.Second, in units of a time.Duration
  Purchases,  \* purchases to validate
  Headers,    \* Retry-After values to read: nothing, seconds or a date
  Now         \* the time they are read at

ASSUME WidthAssumption == maxInt64 \in Nat \ {0} /\ Second \in 1..maxInt64

int64 == -(maxInt64 + 1)..maxInt64

(* Anything the types of the program can hold, and seconds of any size. *)
ASSUME InputAssumption ==
  /\ Purchases \subseteq
       [items : Seq([Quantity : int64, UnitPrice : int64]), amount : int64]
  /\ Headers \subseteq
       [kind : {"none", "date"}, value : Int] \cup [kind : {"seconds"}, value : Nat]
  /\ Now \in Int

(* Two's complement. *)
Wrap(x) == ((x + maxInt64 + 1) % (2 * (maxInt64 + 1))) - (maxInt64 + 1)

VARIABLES
  phase,           \* "checking", "accepted" or "refused"; "reading" or "read"
  items, amount,   \* the purchase
  position, total,
  header, delay    \* a Retry-After, and what is made of it

arithmeticVars == <<phase, items, amount, position, total, header, delay>>

-----------------------------------------------------------------------------
(***************************************************************************)
(* validatePurchase, for a purchase whose texts are in order, and Refund:  *)
(* the amount, then validateItems.                                         *)
(***************************************************************************)
Valid(price) == price > 0

WellFormed(item) == item.Quantity > 0 /\ item.UnitPrice >= 0

LineOverflows(item) == item.UnitPrice > maxInt64 \div item.Quantity

lineTotal(item) == Wrap(item.UnitPrice * item.Quantity)

(* Slip: only the lines are checked, not their sum. *)
TotalOverflows_never(sum, line) == FALSE

TotalOverflows(sum, line) == sum > Wrap(maxInt64 - line)

Sound(item) ==
  WellFormed(item) /\ ~ LineOverflows(item) /\ ~ TotalOverflows(total, lineTotal(item))

AddItem ==
  /\ phase = "checking" /\ Valid(amount) /\ position <= Len(items)
  /\ Sound(items[position])
  /\ total' = Wrap(total + lineTotal(items[position]))
  /\ position' = position + 1
  /\ UNCHANGED <<phase, items, amount, header, delay>>

Verdict(to) ==
  /\ phase' = to
  /\ UNCHANGED <<items, amount, position, total, header, delay>>

RefuseItem ==
  /\ phase = "checking" /\ Valid(amount) /\ position <= Len(items)
  /\ ~ Sound(items[position])
  /\ Verdict("refused")

RefuseAmount ==
  /\ phase = "checking" /\ position = 1 /\ ~ Valid(amount)
  /\ Verdict("refused")

Compare ==
  /\ phase = "checking" /\ Valid(amount) /\ position > Len(items)
  /\ Verdict(IF items # <<>> /\ total = amount THEN "accepted" ELSE "refused")

-----------------------------------------------------------------------------
(***************************************************************************)
(* ParseRetryAfter.  A header: nothing or nothing readable, a number of    *)
(* seconds of any size, or a date.                                         *)
(***************************************************************************)
maxUint64 == 2 * maxInt64 + 1

(* Slip: seconds are turned into a duration whatever their number. *)
delayOfSeconds_wraps(seconds) ==
  IF seconds > maxUint64 THEN maxInt64 ELSE Wrap(seconds * Second)

(* strconv.ParseUint reports a range error above the unsigned maximum.     *)
delayOfSeconds(seconds) ==
  IF seconds > maxUint64 \/ seconds > maxInt64 \div Second
  THEN maxInt64
  ELSE Wrap(seconds * Second)

(* time.Sub saturates as well. *)
delayUntil(when) ==
  IF when > Now THEN Min({when - Now, maxInt64}) ELSE 0

ParseRetryAfter ==
  /\ phase = "reading"
  /\ phase' = "read"
  /\ delay' = CASE header.kind = "seconds" -> delayOfSeconds(header.value)
                [] header.kind = "date"    -> delayUntil(header.value)
                [] OTHER                   -> 0
  /\ UNCHANGED <<items, amount, position, total, header>>

-----------------------------------------------------------------------------
NoHeader == [kind |-> "none", value |-> 0]

Init ==
  /\ position = 1 /\ total = 0 /\ delay = 0
  /\ \/ /\ phase = "checking" /\ header = NoHeader
        /\ \E purchase \in Purchases : items = purchase.items /\ amount = purchase.amount
     \/ /\ phase = "reading" /\ header \in Headers
        /\ items = <<>> /\ amount = 0

Next == RefuseAmount \/ AddItem \/ RefuseItem \/ Compare \/ ParseRetryAfter

Spec == Init /\ [][Next]_arithmeticVars

-----------------------------------------------------------------------------
(* The sums of the first lines, in whole numbers. *)
ExactSums(lines) ==
  LET upTo[n \in 0..Len(lines)] ==
        IF n = 0 THEN 0 ELSE upTo[n - 1] + lines[n].UnitPrice * lines[n].Quantity
  IN upTo

ExactTotal == ExactSums(items)[Len(items)]

(* A purchase is sent when, and only when, its lines are well formed and   *)
(* add up to its amount in whole numbers: no overflow lets a wrong sum     *)
(* through, and none refuses a right one.                                  *)
AcceptsExactTotals ==
  phase \in {"accepted", "refused"} =>
    (phase = "accepted" <=>
       /\ items # <<>> /\ amount > 0
       /\ \A k \in DOMAIN items : WellFormed(items[k])
       /\ ExactTotal = amount)

(* A delay the provider asked for is honoured up to the longest one there  *)
(* is: never cut short by a wrapped product, never negative.               *)
DelaysAreHonoured ==
  phase = "read" =>
    delay = CASE header.kind = "seconds" -> Min({header.value * Second, maxInt64})
              [] header.kind = "date"    -> Min({Max({header.value - Now, 0}), maxInt64})
              [] OTHER                   -> 0
=============================================================================
