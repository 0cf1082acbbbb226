-------------------------- MODULE ConversionProofs --------------------------
(***************************************************************************)
(* The conversions, for every width of integer and every input: each is    *)
(* one loop or one step, so the work is in what the loops and operators    *)
(* compute.  Where they go through data of any length, so does the proof,  *)
(* by induction on the least number that would be an exception.            *)
(***************************************************************************)
EXTENDS ClientArithmetic, ResponseDecoding, Redaction, EventTextProofs

-----------------------------------------------------------------------------
(***************************************************************************)
(* Integers of a width.                                                    *)
(***************************************************************************)
LEMMA ProductsGrow ==
  ASSUME NEW a \in Int, NEW b \in Int, NEW q \in Nat, a <= b
  PROVE  a * q <= b * q
OBVIOUS

(* The guard by a division is exact. *)
LEMMA GuardIsExact ==
  ASSUME NEW m \in Nat, NEW q \in Nat \ {0}, NEW p \in Nat
  PROVE  p > m \div q <=> p * q > m
  <1> DEFINE d == m \div q
  <1>1. d \in Nat /\ d * q <= m /\ m < d * q + q
    OBVIOUS
  <1>2. CASE p <= d
    <2>1. p * q <= d * q
      BY <1>1, <1>2, ProductsGrow
    <2> QED BY <1>1, <1>2, <2>1
  <1>3. CASE p >= d + 1
    <2>1. (d + 1) * q <= p * q
      BY <1>1, <1>3, ProductsGrow
    <2>2. (d + 1) * q = d * q + q
      BY <1>1
    <2> QED BY <1>1, <1>3, <2>1, <2>2
  <1> QED BY <1>1, <1>2, <1>3

(* What fits is not wrapped. *)
LEMMA FittingIsKept ==
  ASSUME NEW x \in int64
  PROVE  Wrap(x) = x
  <1> DEFINE a == x + maxInt64 + 1
             b == 2 * (maxInt64 + 1)
  <1>1. a \in Nat /\ b \in Nat \ {0} /\ a < b
    BY WidthAssumption DEF int64
  <1>2. a % b = a
    BY <1>1
  <1> QED BY <1>2, WidthAssumption DEF Wrap, int64

-----------------------------------------------------------------------------
(***************************************************************************)
(* validateItems.                                                          *)
(***************************************************************************)
Lines == [Quantity : int64, UnitPrice : int64]

Price(lines, n) == lines[n].UnitPrice * lines[n].Quantity

LEMMA LineTypes ==
  ASSUME NEW lines \in Seq(Lines), NEW n \in 1..Len(lines)
  PROVE  /\ lines[n] \in Lines
         /\ lines[n].Quantity \in Int /\ lines[n].UnitPrice \in Int
         /\ lines[n].Quantity \in int64 /\ lines[n].UnitPrice \in int64
  <1>1. lines[n] \in Lines
    OBVIOUS
  <1> QED BY <1>1, WidthAssumption DEF Lines, int64

(* There are sums of the first lines. *)
LEMMA SumsExist ==
  ASSUME NEW lines \in Seq(Lines)
  PROVE  LET sums == ExactSums(lines) IN
         /\ sums \in [0..Len(lines) -> Int]
         /\ sums[0] = 0
         /\ \A n \in 1..Len(lines) : sums[n] = sums[n - 1] + Price(lines, n)
  <1> DEFINE L == Len(lines)
             IsSums(s, m) == /\ s \in [0..m -> Int]
                             /\ s[0] = 0
                             /\ \A n \in 1..m : s[n] = s[n - 1] + Price(lines, n)
             S == {m \in Nat : m <= L => \E s \in [0..m -> Int] : IsSums(s, m)}
  <1>1. \A n \in 1..L : Price(lines, n) \in Int
    BY LineTypes DEF Price
  <1>2. 0 \in S
    <2> DEFINE s == [n \in 0..0 |-> 0]
    <2>1. IsSums(s, 0)
      OBVIOUS
    <2> QED BY <2>1
  <1>3. ASSUME NEW m \in Nat, m \in S PROVE m + 1 \in S
    <2> SUFFICES ASSUME m + 1 <= L PROVE \E s \in [0..(m + 1) -> Int] : IsSums(s, m + 1)
      <3> HIDE DEF IsSums, L
      <3> QED OBVIOUS
    <2>1. PICK s \in [0..m -> Int] : IsSums(s, m)
      BY <1>3
    <2> DEFINE t == [n \in 0..(m + 1) |-> IF n = m + 1 THEN s[m] + Price(lines, m + 1) ELSE s[n]]
    <2>2. Price(lines, m + 1) \in Int
      BY <1>1
    <2>3. t \in [0..(m + 1) -> Int] /\ t[0] = 0
      BY <2>1, <2>2
    <2>4. \A n \in 1..(m + 1) : t[n] = t[n - 1] + Price(lines, n)
      <3> TAKE n \in 1..(m + 1)
      <3>1. CASE n = m + 1
        BY <3>1
      <3>2. CASE n # m + 1
        BY <3>2, <2>1
      <3> QED BY <3>1, <3>2
    <2> HIDE DEF t
    <2> QED BY <2>3, <2>4
  <1>4. L \in S /\ L \in Nat
    <2> HIDE DEF S
    <2>1. \A n \in Nat : n \in S
      BY <1>2, <1>3, NumberInduction
    <2> QED BY <2>1
  <1>5. PICK s \in [0..L -> Int] : IsSums(s, L)
    BY <1>4
  <1> DEFINE Body(g) == [n \in 0..L |-> IF n = 0 THEN 0
                                        ELSE g[n - 1] + lines[n].UnitPrice * lines[n].Quantity]
  <1>6. s = Body(s)
    BY <1>5 DEF Price
  <1>7. ExactSums(lines) = CHOOSE g : g = Body(g)
    BY DEF ExactSums
  <1>8. ExactSums(lines) = Body(ExactSums(lines))
    <2> HIDE DEF Body
    <2> QED BY <1>6, <1>7
  <1>9. ExactSums(lines) = s
    <2> DEFINE e == ExactSums(lines)
    <2>1. e = Body(e)
      BY <1>8
    <2> HIDE DEF e
    <2> DEFINE Same == {m \in Nat : m <= L => e[m] = s[m]}
    <2>2. 0 \in Same
      BY <2>1, <1>5, <1>4
    <2>3. ASSUME NEW m \in Nat, m \in Same PROVE m + 1 \in Same
      <3> SUFFICES ASSUME m + 1 <= L PROVE e[m + 1] = s[m + 1]
        <4> HIDE DEF L
        <4> QED OBVIOUS
      <3>1. m + 1 \in 1..L /\ m + 1 \in 0..L /\ (m + 1) - 1 = m
        BY <1>4
      <3>2. e[m] = s[m]
        BY <2>3, <3>1
      <3>3. e[m + 1] = e[m] + Price(lines, m + 1)
        BY <2>1, <3>1 DEF Price
      <3>4. s[m + 1] = s[m] + Price(lines, m + 1)
        BY <1>5, <3>1
      <3> QED BY <3>2, <3>3, <3>4
    <2>4. \A m \in Nat : m \in Same
      <3> HIDE DEF Same
      <3> QED BY <2>2, <2>3, NumberInduction
    <2>5. DOMAIN e = 0..L /\ e = [m \in 0..L |-> e[m]]
      BY <2>1
    <2>6. \A m \in 0..L : e[m] = s[m]
      BY <2>4, <1>4
    <2>7. e = s
      BY <2>5, <2>6, <1>5
    <2> QED BY <2>7 DEF e
  <1> QED BY <1>5, <1>9

(* Lines that are in order add up to more and more. *)
LEMMA SumsGrow ==
  ASSUME NEW lines \in Seq(Lines), \A n \in 1..Len(lines) : WellFormed(lines[n]),
         NEW k \in 1..Len(lines)
  PROVE  LET sums == ExactSums(lines) IN
         /\ sums[k - 1] >= 0
         /\ sums[k] <= sums[Len(lines)]
  <1> DEFINE L == Len(lines)
             sums == ExactSums(lines)
             Larger == {m \in Nat : k + m <= L => sums[k] <= sums[k + m]}
             Positive == {m \in Nat : m <= L => sums[m] >= 0}
  <1>1. /\ L \in Nat
        /\ sums \in [0..L -> Int] /\ sums[0] = 0
        /\ \A n \in 1..L : sums[n] = sums[n - 1] + Price(lines, n)
    BY SumsExist
  <1>2. \A n \in 1..L : Price(lines, n) \in Nat
    <2> TAKE n \in 1..L
    <2>1. lines[n].Quantity \in Nat /\ lines[n].UnitPrice \in Nat
      BY LineTypes DEF WellFormed
    <2> QED BY <2>1 DEF Price
  <1> HIDE DEF sums
  <1>3. \A m \in Nat : m \in Positive
    <2>1. 0 \in Positive
      BY <1>1
    <2>2. ASSUME NEW m \in Nat, m \in Positive PROVE m + 1 \in Positive
      <3> SUFFICES ASSUME m + 1 <= L PROVE sums[m + 1] >= 0
        OBVIOUS
      <3>1. sums[m + 1] = sums[m] + Price(lines, m + 1) /\ Price(lines, m + 1) \in Nat
        BY <1>1, <1>2
      <3>2. sums[m] \in Int /\ sums[m] >= 0
        BY <1>1, <2>2
      <3> QED BY <3>1, <3>2
    <2> HIDE DEF Positive
    <2> QED BY <2>1, <2>2, NumberInduction
  <1>4. \A m \in Nat : m \in Larger
    <2>1. 0 \in Larger
      BY <1>1
    <2>2. ASSUME NEW m \in Nat, m \in Larger PROVE m + 1 \in Larger
      <3> SUFFICES ASSUME k + m + 1 <= L PROVE sums[k] <= sums[k + m + 1]
        OBVIOUS
      <3>1. sums[k + m + 1] = sums[k + m] + Price(lines, k + m + 1)
        BY <1>1
      <3>2. Price(lines, k + m + 1) \in Nat
        BY <1>2
      <3>3. sums[k + m] \in Int /\ sums[k] \in Int /\ sums[k] <= sums[k + m]
        BY <1>1, <2>2
      <3> QED BY <3>1, <3>2, <3>3
    <2> HIDE DEF Larger
    <2> QED BY <2>1, <2>2, NumberInduction
  <1>5. sums[k - 1] >= 0
    BY <1>3, <1>1
  <1>6. L - k \in Larger
    <2>1. L - k \in Nat
      BY <1>1
    <2> HIDE DEF Larger
    <2> QED BY <2>1, <1>4
  <1>7. sums[k] <= sums[L]
    BY <1>1, <1>6
  <1> QED BY <1>5, <1>7 DEF sums

(* What has been added up so far is exact, and nothing else is known of    *)
(* the purchase than that its first lines are in order.                    *)
RunningInv ==
  /\ total \in 0..maxInt64 /\ total = ExactSums(items)[position - 1]
  /\ \A n \in 1..(position - 1) : WellFormed(items[n])

ArithmeticInv ==
  /\ items \in Seq(Lines) /\ amount \in int64
  /\ position \in 1..(Len(items) + 1)
  /\ header \in [kind : {"none", "date"}, value : Int] \cup [kind : {"seconds"}, value : Nat]
  /\ phase \in {"checking", "accepted", "refused", "reading", "read"}
  /\ phase = "checking" => RunningInv
  /\ AcceptsExactTotals
  /\ DelaysAreHonoured

(* What validateItems refuses a line for is a reason. *)
LEMMA UnsoundLines ==
  ASSUME ArithmeticInv, phase = "checking", position <= Len(items), ~ Sound(items[position]),
         \A n \in DOMAIN items : WellFormed(items[n])
  PROVE  ExactTotal > maxInt64
  <1> DEFINE item == items[position]
             sums == ExactSums(items)
             price == Price(items, position)
  <1>1. /\ items \in Seq(Lines) /\ position \in 1..Len(items)
        /\ RunningInv
    BY DEF ArithmeticInv
  <1>2. \A n \in 1..Len(items) : WellFormed(items[n])
    BY <1>1
  <1>3. item.Quantity \in Nat \ {0} /\ item.UnitPrice \in Nat
    BY <1>1, <1>2, LineTypes DEF WellFormed
  <1>4. price \in Nat /\ price = item.UnitPrice * item.Quantity
    BY <1>3 DEF Price
  <1>5. /\ sums \in [0..Len(items) -> Int] /\ sums[position] = sums[position - 1] + price
        /\ sums[position - 1] >= 0 /\ sums[position] <= sums[Len(items)]
    BY <1>1, <1>2, SumsExist, SumsGrow
  <1>6. sums[position] > maxInt64
    <2>0. maxInt64 \in Nat
      BY WidthAssumption
    <2>1. LineOverflows(item) <=> price > maxInt64
      <3>1. item.UnitPrice > maxInt64 \div item.Quantity
              <=> item.UnitPrice * item.Quantity > maxInt64
        BY <2>0, <1>3, GuardIsExact
      <3> QED BY <3>1, <1>4 DEF LineOverflows
    <2>2. CASE LineOverflows(item)
      <3>1. price > maxInt64
        BY <2>2, <2>1
      <3>2. sums[position - 1] \in Int
        BY <1>1, <1>5
      <3> QED BY <3>1, <3>2, <2>0, <1>4, <1>5
    <2>3. CASE ~ LineOverflows(item)
      <3>1. price <= maxInt64
        BY <2>0, <2>3, <2>1, <1>4
      <3>2. price \in int64 /\ maxInt64 - price \in int64
        BY <3>1, <1>4, <2>0 DEF int64
      <3>3. lineTotal(item) = price
        BY <3>2, <1>4, FittingIsKept DEF lineTotal
      <3>4. TotalOverflows(total, lineTotal(item))
        BY <2>3, <1>1, <1>2 DEF Sound
      <3>5. Wrap(maxInt64 - price) = maxInt64 - price
        BY <3>2, FittingIsKept
      <3>6. total > maxInt64 - price /\ total = sums[position - 1] /\ total \in Int
        BY <3>3, <3>4, <3>5, <1>1, <2>0 DEF TotalOverflows, RunningInv
      <3> QED BY <3>6, <1>4, <1>5, <2>0
    <2> QED BY <2>2, <2>3
  <1>7. sums[Len(items)] \in Int /\ sums[position] \in Int
    BY <1>1, <1>5
  <1> QED BY <1>5, <1>6, <1>7, WidthAssumption DEF ExactTotal

(* What it accepts a line for, it adds. *)
LEMMA SoundLines ==
  ASSUME ArithmeticInv, phase = "checking", position <= Len(items), Sound(items[position])
  PROVE  LET sum == Wrap(total + lineTotal(items[position])) IN
         sum = ExactSums(items)[position] /\ sum \in 0..maxInt64
  <1> DEFINE item == items[position]
             sums == ExactSums(items)
             price == Price(items, position)
  <1>1. /\ items \in Seq(Lines) /\ position \in 1..Len(items) /\ RunningInv
        /\ WellFormed(item) /\ ~ LineOverflows(item) /\ ~ TotalOverflows(total, lineTotal(item))
        /\ maxInt64 \in Nat
    BY WidthAssumption DEF ArithmeticInv, Sound
  <1>2. item.Quantity \in Nat \ {0} /\ item.UnitPrice \in Nat
    BY <1>1, LineTypes DEF WellFormed
  <1>3. price \in Nat /\ price = item.UnitPrice * item.Quantity
    BY <1>2 DEF Price
  <1>4. price <= maxInt64
    <2>1. ~ item.UnitPrice > maxInt64 \div item.Quantity
      BY <1>1 DEF LineOverflows
    <2>2. ~ item.UnitPrice * item.Quantity > maxInt64
      BY <1>1, <1>2, <2>1, GuardIsExact
    <2> HIDE DEF price
    <2> QED BY <1>1, <1>3, <2>2
  <1>5. price \in int64 /\ maxInt64 - price \in int64
    BY <1>1, <1>3, <1>4 DEF int64
  <1>6. lineTotal(item) = price /\ Wrap(maxInt64 - price) = maxInt64 - price
    BY <1>5, <1>3, FittingIsKept DEF lineTotal
  <1>7. total + price <= maxInt64 /\ total \in Nat
    BY <1>1, <1>3, <1>6 DEF TotalOverflows, RunningInv
  <1>8. total + price \in int64
    BY <1>1, <1>3, <1>7 DEF int64
  <1>9. Wrap(total + lineTotal(item)) = total + price
    BY <1>6, <1>8, FittingIsKept
  <1>10. sums[position] = total + price
    BY <1>1, SumsExist DEF RunningInv
  <1> QED BY <1>1, <1>3, <1>7, <1>9, <1>10

-----------------------------------------------------------------------------
(***************************************************************************)
(* ParseRetryAfter.                                                        *)
(***************************************************************************)
LEMMA MinOfTwo ==
  ASSUME NEW a \in Int, NEW b \in Int
  PROVE  Min({a, b}) = IF a <= b THEN a ELSE b
BY DEF Min

LEMMA MaxOfTwo ==
  ASSUME NEW a \in Int, NEW b \in Int
  PROVE  Max({a, b}) = IF a >= b THEN a ELSE b
BY DEF Max

LEMMA SecondsSaturate ==
  ASSUME NEW seconds \in Nat
  PROVE  delayOfSeconds(seconds) = Min({seconds * Second, maxInt64})
  <1>1. /\ maxInt64 \in Nat /\ Second \in Nat \ {0}
        /\ seconds * Second \in Nat
    BY WidthAssumption
  <1>2. seconds > maxInt64 \div Second <=> seconds * Second > maxInt64
    BY <1>1, GuardIsExact
  <1>3. seconds <= seconds * Second
    BY <1>1
  <1>4. CASE seconds * Second <= maxInt64
    <2>1. seconds * Second \in int64
      BY <1>1, <1>4 DEF int64
    <2>2. Wrap(seconds * Second) = seconds * Second
      BY <2>1, FittingIsKept
    <2> QED BY <1>1, <1>2, <1>3, <1>4, <2>2, MinOfTwo DEF delayOfSeconds, maxUint64
  <1>5. CASE seconds * Second > maxInt64
    BY <1>1, <1>2, <1>5, MinOfTwo DEF delayOfSeconds
  <1> QED BY <1>1, <1>4, <1>5

LEMMA DatesSaturate ==
  ASSUME NEW when \in Int
  PROVE  delayUntil(when) = Min({Max({when - Now, 0}), maxInt64})
  <1>1. Now \in Int /\ maxInt64 \in Nat
    BY WidthAssumption, InputAssumption
  <1>2. CASE when > Now
    <2>1. Max({when - Now, 0}) = when - Now
      BY <1>1, <1>2, MaxOfTwo
    <2> QED BY <1>2, <2>1 DEF delayUntil
  <1>3. CASE ~ when > Now
    <2>1. Max({when - Now, 0}) = 0
      BY <1>1, <1>3, MaxOfTwo
    <2> QED BY <1>1, <1>3, <2>1, MinOfTwo DEF delayUntil
  <1> QED BY <1>2, <1>3

-----------------------------------------------------------------------------
LEMMA ArithmeticStep ==
  ASSUME ArithmeticInv, [Next]_arithmeticVars
  PROVE  ArithmeticInv'
  <1>1. CASE UNCHANGED arithmeticVars
    BY <1>1 DEF arithmeticVars, ArithmeticInv, RunningInv, AcceptsExactTotals, DelaysAreHonoured,
                ExactTotal
  <1>2. CASE RefuseAmount
    <2>1. AcceptsExactTotals'
      BY <1>2 DEF RefuseAmount, Verdict, Valid, AcceptsExactTotals
    <2> QED BY <1>2, <2>1 DEF RefuseAmount, Verdict, ArithmeticInv, DelaysAreHonoured
  <1>3. CASE AddItem
    <2>1. RunningInv'
      <3>1. position' - 1 = position /\ position \in Nat
        BY <1>3 DEF AddItem, ArithmeticInv
      <3>2. total' = ExactSums(items)[position] /\ total' \in 0..maxInt64
        BY <1>3, SoundLines DEF AddItem
      <3>3. \A n \in 1..position : WellFormed(items[n])
        BY <1>3 DEF AddItem, ArithmeticInv, RunningInv, Sound
      <3> QED BY <1>3, <3>1, <3>2, <3>3 DEF AddItem, RunningInv
    <2>2. position' \in 1..(Len(items) + 1)
      BY <1>3 DEF AddItem, ArithmeticInv
    <2> QED BY <1>3, <2>1, <2>2 DEF AddItem, ArithmeticInv, AcceptsExactTotals, DelaysAreHonoured
  <1>4. CASE RefuseItem
    <2>1. ~ (/\ \A n \in DOMAIN items : WellFormed(items[n])
             /\ ExactTotal = amount)
      <3>1. amount <= maxInt64 /\ amount \in Int /\ maxInt64 \in Int
        BY WidthAssumption DEF ArithmeticInv, int64
      <3> SUFFICES ASSUME \A n \in DOMAIN items : WellFormed(items[n]), ExactTotal = amount
                   PROVE  FALSE
        OBVIOUS
      <3>2. ExactTotal > maxInt64
        BY <1>4, UnsoundLines DEF RefuseItem
      <3> QED BY <3>1, <3>2
    <2>2. AcceptsExactTotals'
      BY <1>4, <2>1 DEF RefuseItem, Verdict, AcceptsExactTotals, ExactTotal
    <2> QED BY <1>4, <2>2 DEF RefuseItem, Verdict, ArithmeticInv, DelaysAreHonoured
  <1>5. CASE Compare
    <2>1. /\ items \in Seq(Lines) /\ position = Len(items) + 1 /\ position - 1 = Len(items)
          /\ RunningInv
      BY <1>5 DEF Compare, ArithmeticInv
    <2>2. total = ExactTotal /\ \A n \in DOMAIN items : WellFormed(items[n])
      BY <2>1 DEF RunningInv, ExactTotal
    <2>3. AcceptsExactTotals'
      BY <1>5, <2>2 DEF Compare, Verdict, Valid, AcceptsExactTotals, ExactTotal
    <2> QED BY <1>5, <2>3 DEF Compare, Verdict, ArithmeticInv, DelaysAreHonoured
  <1>6. CASE ParseRetryAfter
    <2>1. DelaysAreHonoured'
      BY <1>6, SecondsSaturate, DatesSaturate
      DEF ParseRetryAfter, ArithmeticInv, DelaysAreHonoured
    <2> QED BY <1>6, <2>1 DEF ParseRetryAfter, ArithmeticInv, AcceptsExactTotals
  <1> QED BY <1>1, <1>2, <1>3, <1>4, <1>5, <1>6 DEF Next

LEMMA ArithmeticInit ==
  ASSUME Init
  PROVE  ArithmeticInv
  <1>1. CASE phase = "checking"
    <2>1. items \in Seq(Lines) /\ amount \in int64 /\ header = NoHeader
      BY <1>1, InputAssumption DEF Init, Lines
    <2>2. ExactSums(items)[0] = 0
      BY <2>1, SumsExist
    <2>3. RunningInv
      BY <1>1, <2>2, WidthAssumption DEF Init, RunningInv
    <2> QED BY <1>1, <2>1, <2>3 DEF Init, ArithmeticInv, NoHeader, AcceptsExactTotals,
                                   DelaysAreHonoured
  <1>2. CASE phase = "reading"
    <2>1. items \in Seq(Lines) /\ amount \in int64
      BY <1>2, WidthAssumption DEF Init, int64
    <2> QED BY <1>2, <2>1, InputAssumption DEF Init, ArithmeticInv, AcceptsExactTotals,
                                              DelaysAreHonoured
  <1> QED BY <1>1, <1>2 DEF Init

LEMMA ArithmeticInvariant == Spec => []ArithmeticInv
BY ArithmeticInit, ArithmeticStep, PTL DEF Spec

(* A purchase is sent when and only when its lines are in order and add up *)
(* to its amount in whole numbers, for every width of integer, every       *)
(* number of lines and everything they may hold.                           *)
THEOREM TotalsAreExact == Spec => []AcceptsExactTotals
BY ArithmeticInvariant, PTL DEF ArithmeticInv

(* However long a delay the provider asks for, in seconds or by a date, it *)
(* is honoured or replaced by the longest there is.                        *)
THEOREM DelaysSaturate == Spec => []DelaysAreHonoured
BY ArithmeticInvariant, PTL DEF ArithmeticInv
-----------------------------------------------------------------------------
(***************************************************************************)
(* ResponseDecoding: what is read is what was said.                        *)
(***************************************************************************)
LEMMA FailuresFail == ~ Unlisted.ok /\ ~ Failed.ok
BY DEF Unlisted, Failed

LEMMA AmountsAreRead ==
  ASSUME NEW raw
  PROVE  /\ parseAmount(raw).ok =>
              text(raw) # "" /\ SaysAmount(raw, parseAmount(raw).value)
         /\ parseOptionalAmount(raw).ok => SaysAmount(raw, parseOptionalAmount(raw).value)
BY AmountAssumption DEF parseAmount, parseOptionalAmount, SaysAmount, Read, Failed

LEMMA CountsAreRead ==
  ASSUME NEW raw, parseOptionalInt(raw).ok
  PROVE  SaysCount(raw, parseOptionalInt(raw).value)
  <1>1. CASE isNull(raw) \/ isEmptyString(raw)
    BY <1>1 DEF parseOptionalInt, SaysCount, SaysAmount, Read
  <1>2. CASE ~ (isNull(raw) \/ isEmptyString(raw))
    BY <1>2, AmountsAreRead DEF parseOptionalInt, SaysCount
  <1> QED BY <1>1, <1>2

(* The text of a payment, once its row is sanitized. *)
PaymentText(row) ==
  IF sanitizedInfo(row).json = "string" THEN sanitizedInfo(row).content ELSE ""

LEMMA PaymentTextIsRead ==
  ASSUME NEW row, NEW got, got.Text = PaymentText(row)
  PROVE  SaysPaymentInfo(row, got)
  <1> DEFINE info == row.paymentInfo
  <1>1. contextOf(row) \in {"card", "other", "unknown"}
    BY DEF contextOf
  <1>2. CASE info.json = "object"
    <2>1. \A fields : Struct(fields).json = "object"
      BY DEF Struct
    <2>2. sanitizedInfo(row).json = "object"
      BY <1>2, <2>1 DEF sanitizedInfo, isText
    <2> QED BY <1>2, <2>2 DEF PaymentText, SaysPaymentInfo
  <1>3. CASE info.json # "object" /\ isText(info) /\ contextOf(row) # "other"
    <2>1. sanitizedInfo(row) = maskPaymentInfoScalar(info, contextOf(row))
      BY <1>3 DEF sanitizedInfo
    <2>2. lastFourText(info.content) \notin {"pan", "grouped", "reference"}
      BY DEF lastFourText
    <2>3. CASE contextOf(row) = "card"
      <3>1. sanitizedInfo(row) = Raw("string", lastFourText(info.content))
        BY <2>1, <2>3 DEF maskPaymentInfoScalar, lastFour
      <3> QED BY <2>2, <2>3, <3>1 DEF PaymentText, SaysPaymentInfo, Raw
    <2>4. CASE contextOf(row) = "unknown" /\ info.content = "pan"
      <3>1. sanitizedInfo(row) = Raw("string", lastFourText(info.content))
        BY <2>1, <2>4 DEF maskPaymentInfoScalar, looksLikeCardNumber, lastFour
      <3> QED BY <2>2, <2>4, <3>1 DEF PaymentText, SaysPaymentInfo, Raw
    <2>5. CASE contextOf(row) = "unknown" /\ info.content # "pan"
      <3>1. sanitizedInfo(row) = info
        BY <2>1, <2>5 DEF maskPaymentInfoScalar, looksLikeCardNumber
      <3> QED BY <2>5, <3>1 DEF PaymentText, SaysPaymentInfo
    <2> QED BY <1>1, <1>3, <2>3, <2>4, <2>5
  <1>4. CASE info.json # "object" /\ ~ (isText(info) /\ contextOf(row) # "other")
    <2>1. sanitizedInfo(row) = info
      BY <1>4 DEF sanitizedInfo
    <2> QED BY <1>4, <2>1 DEF PaymentText, SaysPaymentInfo, isText
  <1> QED BY <1>2, <1>3, <1>4

LEMMA TransactionIsRead ==
  ASSUME NEW element, decodeTransaction(element).ok
  PROVE  /\ element.json = "object"
         /\ SaysTransaction(element.fields, decodeTransaction(element).value)
  <1> DEFINE row == element.fields
             got == decodeTransaction(element).value
  <1>1. /\ element.json = "object"
        /\ firstNonEmpty(text(row.id), text(row.transactionHid)) # ""
        /\ parseAmount(row.amount).ok /\ parseOptionalAmount(row.fee).ok
        /\ parseOptionalAmount(row.refundAmount).ok /\ parseOptionalInt(row.period).ok
    BY DEF decodeTransaction, Failed
  <1>2. /\ got.ID = firstNonEmpty(text(row.id), text(row.transactionHid))
        /\ got.Amount = parseAmount(row.amount).value
        /\ got.Fee = parseOptionalAmount(row.fee).value
        /\ got.RefundAmount = parseOptionalAmount(row.refundAmount).value
        /\ got.Period = parseOptionalInt(row.period).value
        /\ got.Text = PaymentText(row)
    BY DEF decodeTransaction, Failed, Read, PaymentText
  <1>3. got.ID \in {text(row.id), text(row.transactionHid)} \ {""}
    BY <1>1, <1>2 DEF firstNonEmpty
  <1> HIDE DEF got, row
  <1>4. /\ text(row.amount) # "" /\ SaysAmount(row.amount, got.Amount)
        /\ SaysAmount(row.fee, got.Fee) /\ SaysAmount(row.refundAmount, got.RefundAmount)
    BY <1>1, <1>2, AmountsAreRead
  <1>5. SaysCount(row.period, got.Period)
    BY <1>1, <1>2, CountsAreRead
  <1>6. SaysPaymentInfo(row, got)
    BY <1>2, PaymentTextIsRead
  <1>7. SaysTransaction(row, got)
    BY <1>3, <1>4, <1>5, <1>6 DEF SaysTransaction
  <1> QED BY <1>1, <1>7 DEF got, row

LEMMA SubscriptionIsRead ==
  ASSUME NEW resource, NEW required \in BOOLEAN, decodeSubscription(resource, required).ok
  PROVE  LET got == decodeSubscription(resource, required).value IN
         /\ resource.json = "object"
         /\ SaysSubscription(resource.fields, resource.fields.amount, got)
         /\ required => got.HasAmount
  <1> DEFINE row == resource.fields
             got == decodeSubscription(resource, required).value
  <1>1. /\ resource.json = "object"
        /\ required => ~ isNull(row.amount)
        /\ parseOptionalAmount(row.amount).ok
        /\ parseOptionalInt(row.period).ok /\ parseOptionalInt(row.numberOfPeriods).ok
    BY DEF decodeSubscription, Failed
  <1>2. /\ got.ID = text(row.id)
        /\ got.Amount = parseOptionalAmount(row.amount).value
        /\ got.HasAmount = ~ isNull(row.amount)
        /\ got.Period = parseOptionalInt(row.period).value
        /\ got.NumberOfPeriods = parseOptionalInt(row.numberOfPeriods).value
    BY DEF decodeSubscription, Failed, Read
  <1> HIDE DEF got, row
  <1>3. SaysSubscription(row, row.amount, got)
    BY <1>1, <1>2, AmountsAreRead, CountsAreRead DEF SaysSubscription
  <1> QED BY <1>1, <1>2, <1>3 DEF got, row

LEMMA StoreOrderIsRead ==
  ASSUME NEW element, decodeStoreSubscription(element).ok
  PROVE  SaysStoreOrder(element, decodeStoreSubscription(element).value)
  <1> DEFINE row == IF isNull(element) THEN [name \in StoreFields |-> AbsentRaw] ELSE element.fields
             got == decodeStoreSubscription(element).value
  <1>1. /\ parseOptionalAmount(row.totalAmount).ok
        /\ parseOptionalInt(row.period).ok /\ parseOptionalInt(row.numberOfPeriods).ok
    BY DEF decodeStoreSubscription, Failed
  <1>2. got = [ID |-> text(row.id), Amount |-> parseOptionalAmount(row.totalAmount).value,
               HasAmount |-> ~ isNull(row.totalAmount),
               Period |-> parseOptionalInt(row.period).value,
               NumberOfPeriods |-> parseOptionalInt(row.numberOfPeriods).value]
    BY DEF decodeStoreSubscription, Failed, Read
  <1>3. CASE isNull(element)
    <2>1. /\ row.id = AbsentRaw /\ row.totalAmount = AbsentRaw
          /\ row.period = AbsentRaw /\ row.numberOfPeriods = AbsentRaw
      BY <1>3 DEF StoreFields
    <2>2. text(AbsentRaw) = "" /\ isNull(AbsentRaw)
      BY DEF text, isNull, AbsentRaw, Raw
    <2>3. parseOptionalAmount(AbsentRaw).value = 0 /\ parseOptionalInt(AbsentRaw).value = 0
      BY <2>2 DEF parseOptionalAmount, parseOptionalInt, Read
    <2> HIDE DEF got, row
    <2> QED BY <1>2, <1>3, <2>1, <2>2, <2>3 DEF SaysStoreOrder, got
  <1>4. CASE ~ isNull(element)
    <2>1. row = element.fields
      BY <1>4
    <2> HIDE DEF got, row
    <2>2. SaysSubscription(row, row.totalAmount, got)
      BY <1>1, <1>2, AmountsAreRead, CountsAreRead DEF SaysSubscription
    <2> QED BY <1>4, <2>1, <2>2 DEF SaysStoreOrder, got
  <1> QED BY <1>3, <1>4

(* Elements that are decoded one by one make a list as long. *)
LEMMA ListIsAsLong ==
  ASSUME NEW elements, elements \in Seq(Range(elements)), NEW list, DOMAIN list = DOMAIN elements
  PROVE  Len(list) = Len(elements)
OBVIOUS

(* Where there is a list key, one comes first, and it is the one taken. *)
LEMMA FirstListIsFound ==
  ASSUME NEW data, Present(data, Range(ListKeys)) # {}
  PROVE  \E i \in DOMAIN ListKeys : IsFirst(data, i) /\ listUnder(data) = ListKeys[i]
  <1>1. DOMAIN ListKeys = 1..3
    BY DEF ListKeys
  <1>2. PICK i \in DOMAIN ListKeys : data.fields[ListKeys[i]].json # "absent"
    BY DEF Present, Range
  <1>3. i \in {1, 2, 3}
    BY <1>1, <1>2
  <1> DEFINE there(j) == data.fields[ListKeys[j]].json # "absent"
  <1>4. there(1) => IsFirst(data, 1)
    BY DEF IsFirst
  <1>5. ~ there(1) /\ there(2) => IsFirst(data, 2)
    BY DEF IsFirst
  <1>6. ~ there(1) /\ ~ there(2) /\ there(3) => IsFirst(data, 3)
    BY DEF IsFirst
  <1>7. there(1) \/ there(2) \/ there(3)
    BY <1>2, <1>3
  <1>8. 1 \in DOMAIN ListKeys /\ 2 \in DOMAIN ListKeys /\ 3 \in DOMAIN ListKeys
    BY <1>1
  <1> HIDE DEF there
  <1>9. \E j \in DOMAIN ListKeys : IsFirst(data, j)
    BY <1>4, <1>5, <1>6, <1>7, <1>8
  <1> QED BY <1>9 DEF listUnder

(* What a page is made of, whatever its shape. *)
ListsPage(data, list, page) ==
  \/ data.json = "array" /\ list = data.elements
  \/ /\ data.json = "object"
     /\ page = text(data.fields.page)
     /\ \/ Present(data, DOMAIN data.fields \ {"page"}) = {} /\ list = <<>>
        \/ \E i \in DOMAIN ListKeys :
             LET raw == data.fields[ListKeys[i]] IN
             /\ IsFirst(data, i)
             /\ \/ raw.json = "null" /\ list = <<>>
                \/ raw.json = "array" /\ list = raw.elements

LEMMA TheFirstListIsTaken ==
  ASSUME NEW data, IsTransactionPage(data), listResources(data).ok
  PROVE  LET found == listResources(data) IN ListsPage(data, found.list, found.page)
  <1> DEFINE found == listResources(data)
  <1>1. CASE data.json = "array"
    BY <1>1 DEF listResources, Listed, ListsPage
  <1>2. CASE data.json = "object"
    <2> DEFINE page == data.fields.page
    <2>1. isNull(page) \/ page.json = "string"
      BY <1>2 DEF listResources, Unlisted
    <2>2. page.content = text(page)
      BY <1>2, <2>1 DEF IsTransactionPage, IsToken, isNull, text
    <2>3. found = listsUnder(data, text(page))
      BY <1>2, <2>1, <2>2 DEF listResources
    <2>4. CASE Present(data, Range(ListKeys)) = {}
      <3>1. Present(data, DOMAIN data.fields \ {"page"}) = {}
        <4>1. SUFFICES ASSUME Present(data, DOMAIN data.fields \ {"page"}) # {} PROVE FALSE
          OBVIOUS
        <4>2. listsUnder(data, text(page)) = Unlisted
          BY <2>4, <4>1 DEF listsUnder
        <4>3. found.ok
          OBVIOUS
        <4> HIDE DEF page, found
        <4> QED BY <2>3, <4>2, <4>3, FailuresFail
      <3>2. found = Listed(<<>>, text(page))
        BY <2>3, <2>4, <3>1 DEF listsUnder
      <3>3. found.list = <<>> /\ found.page = text(page)
        BY <3>2 DEF Listed
      <3> HIDE DEF found
      <3> QED BY <1>2, <3>1, <3>3 DEF ListsPage, found
    <2>5. CASE Present(data, Range(ListKeys)) # {}
      <3>1. PICK i \in DOMAIN ListKeys : IsFirst(data, i) /\ listUnder(data) = ListKeys[i]
        BY <2>5, FirstListIsFound
      <3> DEFINE raw == data.fields[ListKeys[i]]
      <3>2. found = CASE raw.json = "null"  -> Listed(<<>>, text(page))
                      [] raw.json = "array" -> Listed(raw.elements, text(page))
                      [] OTHER              -> Unlisted
        BY <2>3, <2>5, <3>1 DEF listsUnder
      <3> HIDE DEF found
      <3>3. CASE raw.json = "null"
        <4>1. found.list = <<>> /\ found.page = text(page)
          BY <3>2, <3>3 DEF Listed
        <4> QED BY <1>2, <3>1, <3>3, <4>1 DEF ListsPage, found
      <3>4. CASE raw.json = "array"
        <4>1. found.list = raw.elements /\ found.page = text(page)
          BY <3>2, <3>4 DEF Listed
        <4> QED BY <1>2, <3>1, <3>4, <4>1 DEF ListsPage, found
      <3>5. CASE raw.json \notin {"null", "array"}
        <4>1. found = Unlisted
          BY <3>2, <3>5
        <4> QED BY <4>1, FailuresFail DEF found
      <3> QED BY <3>3, <3>4, <3>5
    <2> QED BY <2>4, <2>5
  <1>3. CASE data.json \notin {"array", "object"}
    BY <1>3 DEF listResources, Unlisted
  <1> QED BY <1>1, <1>2, <1>3

LEMMA TransactionPageIsRead ==
  ASSUME NEW data, IsTransactionPage(data), decodeTransactionPage(data).ok
  PROVE  SaysPage(data, decodeTransactionPage(data).value)
  <1> DEFINE found == listResources(data)
             got == decodeTransactionPage(data).value
  <1>1. /\ found.ok
        /\ \A i \in DOMAIN found.list : decodeTransaction(found.list[i]).ok
    BY DEF decodeTransactionPage, Decoded, Failed
  <1>2. got = [list |-> [i \in DOMAIN found.list |-> decodeTransaction(found.list[i]).value],
               page |-> found.page]
    BY <1>1 DEF decodeTransactionPage, Decoded, Read
  <1>3. ListsPage(data, found.list, found.page)
    BY <1>1, TheFirstListIsTaken
  <1>4. ASSUME found.list \in Seq(Range(found.list)) PROVE SaysTransactions(found.list, got)
    <2>1. Len(got.list) = Len(found.list)
      BY <1>2, <1>4, ListIsAsLong
    <2>2. \A i \in DOMAIN found.list : SaysTransaction(found.list[i].fields, got.list[i])
      BY <1>1, <1>2, TransactionIsRead
    <2> QED BY <2>1, <2>2 DEF SaysTransactions, SaysList
  <1>5. got.page = found.page
    BY <1>2
  <1>6. found.list = <<>> => got.list = <<>>
    BY <1>2
  <1> HIDE DEF found, got
  <1>7. CASE data.json = "array"
    <2>1. found.list = data.elements
      BY <1>3, <1>7 DEF ListsPage
    <2>2. found.list \in Seq(Range(found.list))
      BY <1>7, <2>1 DEF IsTransactionPage, IsList
    <2> QED BY <1>4, <1>7, <2>1, <2>2 DEF SaysPage, got
  <1>8. CASE data.json = "object"
    <2>1. found.page = text(data.fields.page)
      BY <1>3, <1>8 DEF ListsPage
    <2>2. CASE Present(data, DOMAIN data.fields \ {"page"}) = {} /\ found.list = <<>>
      BY <1>5, <1>6, <1>8, <2>1, <2>2 DEF SaysPage, got
    <2>3. CASE \E i \in DOMAIN ListKeys :
                 LET raw == data.fields[ListKeys[i]] IN
                 /\ IsFirst(data, i)
                 /\ \/ raw.json = "null" /\ found.list = <<>>
                    \/ raw.json = "array" /\ found.list = raw.elements
      <3>1. PICK i \in DOMAIN ListKeys :
              LET raw == data.fields[ListKeys[i]] IN
              /\ IsFirst(data, i)
              /\ \/ raw.json = "null" /\ found.list = <<>>
                 \/ raw.json = "array" /\ found.list = raw.elements
        BY <2>3
      <3> DEFINE raw == data.fields[ListKeys[i]]
      <3>2. CASE raw.json = "null" /\ found.list = <<>>
        BY <1>5, <1>6, <1>8, <2>1, <3>1, <3>2 DEF SaysPage, got
      <3>3. CASE raw.json = "array" /\ found.list = raw.elements
        <4>1. found.list \in Seq(Range(found.list))
          BY <1>8, <3>3 DEF IsTransactionPage, IsList, Range
        <4>2. SaysTransactions(raw.elements, got)
          BY <1>4, <3>3, <4>1
        <4> QED BY <1>5, <1>8, <2>1, <3>1, <3>3, <4>2 DEF SaysPage, got
      <3> QED BY <3>1, <3>2, <3>3
    <2> QED BY <1>3, <1>8, <2>2, <2>3 DEF ListsPage
  <1> QED BY <1>3, <1>7, <1>8 DEF ListsPage

LEMMA StorePageIsRead ==
  ASSUME NEW data, decodeStoreSubscriptionPage(data).ok,
         data.json = "object" => IsList(data.fields.subscriptions) /\ IsToken(data.fields.page)
  PROVE  LET got == decodeStoreSubscriptionPage(data).value IN
         /\ SaysList(data.fields.subscriptions.elements, got,
                     LAMBDA sent, row : SaysStoreOrder(sent, row))
         /\ got.page = text(data.fields.page)
  <1> DEFINE elements == data.fields.subscriptions.elements
             page == data.fields.page
             got == decodeStoreSubscriptionPage(data).value
  <1>1. /\ data.json = "object" /\ data.fields.subscriptions.json = "array"
        /\ isNull(page) \/ page.json = "string"
        /\ \A i \in DOMAIN elements : decodeStoreSubscription(elements[i]).ok
    BY DEF decodeStoreSubscriptionPage, Decoded, Failed
  <1>2. got = [list |-> [i \in DOMAIN elements |-> decodeStoreSubscription(elements[i]).value],
               page |-> page.content]
    BY <1>1 DEF decodeStoreSubscriptionPage, Decoded, Read
  <1>3. page.content = text(page)
    BY <1>1 DEF IsToken, isNull, text
  <1>4. Len(got.list) = Len(elements)
    BY <1>1, <1>2, ListIsAsLong DEF IsList
  <1>5. \A i \in DOMAIN elements : SaysStoreOrder(elements[i], got.list[i])
    BY <1>1, <1>2, StoreOrderIsRead
  <1>6. got.page = text(page)
    BY <1>2, <1>3
  <1> QED BY <1>4, <1>5, <1>6 DEF SaysList

SaysResource(sent, row) == row.ID = text(sent.fields.id)

LEMMA ResourcePageIsRead ==
  ASSUME NEW data, NEW paging, decodePage(data, paging).ok, IsList(data),
         paging.json = "object" => IsToken(paging.fields.next)
  PROVE  LET got == decodePage(data, paging).value IN
         /\ SaysList(data.elements, got, LAMBDA sent, row : SaysResource(sent, row))
         /\ got.page = IF paging.json = "object" THEN text(paging.fields.next) ELSE ""
  <1> DEFINE next == IF isNull(paging) THEN NullRaw ELSE paging.fields.next
             row(element) ==
               IF /\ element.json = "object"
                  /\ element.fields.id.json \in {"absent", "null", "string"}
               THEN Read([ID |-> text(element.fields.id)]) ELSE Failed
             elements == data.elements
             got == decodePage(data, paging).value
  <1>1. /\ data.json = "array"
        /\ isNull(paging) \/ paging.json = "object"
        /\ isNull(next) \/ next.json = "string"
        /\ \A i \in DOMAIN elements : row(elements[i]).ok
    BY DEF decodePage, Decoded, Failed
  <1>2. got = [list |-> [i \in DOMAIN elements |-> row(elements[i]).value],
               page |-> next.content]
    BY <1>1 DEF decodePage, Decoded, Read
  <1>3. next.content = IF paging.json = "object" THEN text(paging.fields.next) ELSE ""
    <2>1. CASE isNull(paging)
      BY <2>1 DEF isNull, NullRaw, Raw
    <2>2. CASE ~ isNull(paging)
      BY <1>1, <2>2 DEF IsToken, isNull, text
    <2> QED BY <2>1, <2>2
  <1>4. Len(got.list) = Len(elements)
    BY <1>1, <1>2, ListIsAsLong DEF IsList
  <1>5. \A i \in DOMAIN elements : SaysResource(elements[i], got.list[i])
    BY <1>1, <1>2 DEF Read, Failed, SaysResource
  <1>6. got.page = next.content
    BY <1>2
  <1> QED BY <1>3, <1>4, <1>5, <1>6 DEF SaysList

(* What was asked for is what is taken out of a wrapper. *)
LEMMA AskedIsTaken ==
  ASSUME NEW data, NEW key, data.json = "object"
  PROVE  singleResource(data, key).fields = Asked(data, key)
BY DEF singleResource, Asked

LEMMA NoneIsTaken ==
  ASSUME NEW data, NEW key, data.json # "object"
  PROVE  singleResource(data, key) = data
BY DEF singleResource

LEMMA DecodeStep ==
  ASSUME question \in Responses, Decode
  PROVE  NothingIsMistakenForNothing'
  <1> DEFINE data == question.data
             got == reading'[1].value
  <1> SUFFICES ASSUME reading'[1].ok PROVE NothingIsMistakenForNothing'
    BY DEF NothingIsMistakenForNothing
  <1>1. question' = question
    BY DEF Decode
  <1>2. CASE question.op = "transactions"
    <2>1. reading'[1] = decodeTransactionPage(data)
      BY <1>2 DEF Decode
    <2>2. SaysPage(data, got)
      BY <1>2, <2>1, TransactionPageIsRead, ShapeAssumption
    <2> QED BY <1>1, <1>2, <2>2 DEF NothingIsMistakenForNothing, SaysPage, SaysList
  <1>3. CASE question.op = "transaction"
    <2>1. reading'[1] = decodeTransaction(singleResource(data, "transaction"))
      BY <1>3 DEF Decode
    <2>2. SaysTransaction(singleResource(data, "transaction").fields, got)
          /\ singleResource(data, "transaction").json = "object"
      BY <2>1, TransactionIsRead
    <2>3. SaysTransaction(Asked(data, "transaction"), got)
      BY <2>2, AskedIsTaken, NoneIsTaken
    <2> QED BY <1>1, <1>3, <2>3 DEF NothingIsMistakenForNothing
  <1>4. CASE question.op \in {"getSubscription", "cancelSubscription"}
    <2> DEFINE required == question.op = "getSubscription"
               taken == singleResource(data, "subscription")
    <2>1. reading'[1] = decodeSubscription(taken, required)
      BY <1>4 DEF Decode
    <2>2. /\ taken.json = "object"
          /\ SaysSubscription(taken.fields, taken.fields.amount, got)
          /\ required => got.HasAmount
      BY <2>1, SubscriptionIsRead
    <2>3. taken.fields = Asked(data, "subscription")
      BY <2>2, AskedIsTaken, NoneIsTaken
    <2>4. /\ SaysSubscription(Asked(data, "subscription"), Asked(data, "subscription").amount, got)
          /\ required => got.HasAmount
      BY <2>2, <2>3
    <2> QED BY <1>1, <1>4, <2>4 DEF NothingIsMistakenForNothing
  <1>5. CASE question.op = "storeSubscriptions"
    <2>1. reading'[1] = decodeStoreSubscriptionPage(data)
      BY <1>5 DEF Decode
    <2>2. /\ SaysList(data.fields.subscriptions.elements, got,
                      LAMBDA sent, row : SaysStoreOrder(sent, row))
          /\ got.page = text(data.fields.page)
      BY <1>5, <2>1, StorePageIsRead, ShapeAssumption
    <2> QED BY <1>1, <1>5, <2>2 DEF NothingIsMistakenForNothing, SaysList, SaysStoreOrder
  <1>6. CASE question.op = "resources"
    <2>1. reading'[1] = decodePage(data, question.paging)
      BY <1>6 DEF Decode
    <2>2. /\ SaysList(data.elements, got, LAMBDA sent, row : SaysResource(sent, row))
          /\ got.page = IF question.paging.json = "object"
                        THEN text(question.paging.fields.next) ELSE ""
      <3> DEFINE paging == question.paging
                 page == decodePage(data, paging)
      <3>1. IsList(data) /\ (paging.json = "object" => IsToken(paging.fields.next))
        BY <1>6, ShapeAssumption
      <3>2. decodePage(data, paging).ok /\ got = page.value
        BY <2>1
      <3>3. /\ SaysList(data.elements, page.value, LAMBDA sent, row : SaysResource(sent, row))
            /\ page.value.page = IF paging.json = "object" THEN text(paging.fields.next) ELSE ""
        <4> HIDE DEF data, paging
        <4> QED BY <3>1, <3>2, ResourcePageIsRead DEF SaysList
      <3> HIDE DEF data, page, got
      <3> QED BY <3>2, <3>3 DEF SaysList
    <2> QED BY <1>1, <1>6, <2>2 DEF NothingIsMistakenForNothing, SaysList, SaysResource
  <1>7. CASE question.op \notin {"transactions", "transaction", "getSubscription",
                                 "cancelSubscription", "storeSubscriptions", "resources"}
    <2> DEFINE key == IF question.op = "subscribe" THEN "subscriptionId" ELSE "id"
    <2>1. reading'[1] = decodeCreated(data, key)
      BY <1>7 DEF Decode
    <2>2. got.ID # "" /\ data.json = "object"
      <3> HIDE DEF key
      <3>1. data.json = "object" /\ text(data.fields[key]) # ""
        <4> SUFFICES ASSUME decodeCreated(data, key) = Failed PROVE FALSE
          BY DEF decodeCreated
        <4> HIDE DEF data
        <4> QED BY <2>1, FailuresFail
      <3>2. decodeCreated(data, key).value = [ID |-> text(data.fields[key])]
        BY <3>1 DEF decodeCreated, Read
      <3>3. got.ID = text(data.fields[key])
        BY <2>1, <3>2
      <3> QED BY <3>1, <3>3
    <2> QED BY <1>1, <1>7, <2>2 DEF NothingIsMistakenForNothing
  <1> QED BY <1>2, <1>3, <1>4, <1>5, <1>6, <1>7

(* What the clients make of an answer, where they can read it, is what the *)
(* answer said, for every answer: a page has every element sent under the  *)
(* first key a list may have, an amount is zero only when zero or none was *)
(* sent, a count of periods for an empty text too, and a text about a      *)
(* payment is a reference or no card number.                               *)
THEOREM AnswersAreRead == DecodingSpec => []NothingIsMistakenForNothing
  <1> DEFINE Inv == question \in Responses /\ NothingIsMistakenForNothing
  <1>1. DecodingInit => Inv
    BY DEF DecodingInit, NothingIsMistakenForNothing
  <1>2. Inv /\ [Decode]_decodingVars => Inv'
    <2>1. CASE UNCHANGED decodingVars
      BY <2>1 DEF decodingVars, NothingIsMistakenForNothing, SaysList
    <2>2. ASSUME Inv, Decode PROVE Inv'
      BY <2>2, DecodeStep DEF Decode
    <2> HIDE DEF Inv
    <2> QED BY <2>1, <2>2
  <1> QED BY <1>1, <1>2, PTL DEF DecodingSpec

-----------------------------------------------------------------------------
(***************************************************************************)
(* Paths into a payload.                                                   *)
(***************************************************************************)
LEMMA PartsOfAppended ==
  ASSUME NEW S, NEW path \in Seq(S), NEW key \in S
  PROVE  /\ Append(path, key) # <<>> /\ Front(Append(path, key)) = path
         /\ Last(Append(path, key)) = key
  <1> DEFINE child == Append(path, key)
             L == Len(path)
  <1>1. /\ child \in Seq(S) /\ Len(child) = L + 1 /\ child[L + 1] = key
        /\ L \in Nat /\ \A i \in 1..L : child[i] = path[i]
    <2>1. child \in Seq(S) /\ Len(child) = L + 1
      OBVIOUS
    <2>2. child[L + 1] = key
      OBVIOUS
    <2>3. \A i \in 1..L : child[i] = path[i]
      OBVIOUS
    <2> QED BY <2>1, <2>2, <2>3
  <1> HIDE DEF child
  <1>2. SubSeq(child, 1, (L + 1) - 1) = path
    <2>1. PICK m \in Nat : m = (L + 1) - 1 /\ m = L
      BY <1>1
    <2>2. /\ SubSeq(child, 1, m) \in Seq(S) /\ Len(SubSeq(child, 1, m)) = m
          /\ \A i \in 1..m : SubSeq(child, 1, m)[i] = child[i]
      BY <1>1, <2>1
    <2>3. SubSeq(child, 1, m) = path
      BY <1>1, <2>1, <2>2
    <2> QED BY <2>1, <2>3
  <1>3. child # <<>>
    BY <1>1
  <1>4. Front(child) = path /\ Last(child) = key
    BY <1>1, <1>2 DEF Front, Last
  <1> QED BY <1>3, <1>4 DEF child

LEMMA AppendedParts ==
  ASSUME NEW S, NEW path \in Seq(S), path # <<>>
  PROVE  /\ Front(path) \in Seq(S) /\ Last(path) \in S
         /\ Append(Front(path), Last(path)) = path
  <1> DEFINE L == Len(path)
             front == SubSeq(path, 1, L - 1)
  <1>1. L \in Nat \ {0} /\ path[L] \in S
    OBVIOUS
  <1>2. /\ front \in Seq(S) /\ Len(front) = L - 1
        /\ \A i \in 1..(L - 1) : front[i] = path[i]
    <2>1. PICK m \in 0..L : m = L - 1
      <3>1. L - 1 \in 0..L
        BY <1>1
      <3> QED BY <3>1
    <2>2. /\ SubSeq(path, 1, m) \in Seq(S) /\ Len(SubSeq(path, 1, m)) = m
          /\ \A i \in 1..m : SubSeq(path, 1, m)[i] = path[i]
      OBVIOUS
    <2> QED BY <2>1, <2>2
  <1>3. Front(path) = front /\ Last(path) = path[L]
    BY DEF Front, Last
  <1> HIDE DEF front
  <1>4. Append(front, path[L]) = path
    <2>1. /\ Append(front, path[L]) \in Seq(S) /\ Len(Append(front, path[L])) = L
          /\ \A i \in 1..L : Append(front, path[L])[i] = path[i]
      BY <1>1, <1>2
    <2> QED BY <2>1
  <1> QED BY <1>1, <1>2, <1>3, <1>4

(* The first i steps of a path, and what they end in. *)
LEMMA PrefixParts ==
  ASSUME NEW path \in Seq(STRING), NEW i \in 1..Len(path)
  PROVE  /\ SubSeq(path, 1, i) # <<>> /\ Front(SubSeq(path, 1, i)) = Above(path, i)
         /\ Last(SubSeq(path, 1, i)) = path[i]
         /\ Above(path, i) \in Seq(STRING)
  <1> DEFINE part == SubSeq(path, 1, i)
             above == SubSeq(path, 1, i - 1)
  <1>1. /\ part \in Seq(STRING) /\ Len(part) = i
        /\ \A j \in 1..i : part[j] = path[j]
    OBVIOUS
  <1>2. /\ above \in Seq(STRING) /\ Len(above) = i - 1
        /\ \A j \in 1..(i - 1) : above[j] = path[j]
    OBVIOUS
  <1> HIDE DEF part, above
  <1>3. SubSeq(part, 1, i - 1) = above
    <2>1. /\ SubSeq(part, 1, i - 1) \in Seq(STRING) /\ Len(SubSeq(part, 1, i - 1)) = i - 1
          /\ \A j \in 1..(i - 1) : SubSeq(part, 1, i - 1)[j] = part[j]
      BY <1>1
    <2> QED BY <1>1, <1>2, <2>1
  <1>4. Front(part) = above /\ Last(part) = path[i] /\ part # <<>>
    BY <1>1, <1>3 DEF Front, Last
  <1> QED BY <1>2, <1>4 DEF part, above, Above

-----------------------------------------------------------------------------
(***************************************************************************)
(* What an object says of its method, whatever order its keys come in.     *)
(***************************************************************************)
HasCard(tree, path, key) ==
  Append(path, key) \in DOMAIN tree /\ SaysCard(key, tree[Append(path, key)])

HasOther(tree, path, key) ==
  Append(path, key) \in DOMAIN tree /\ SaysOther(key, tree[Append(path, key)])

(* What the first k keys say. *)
SaidBy(tree, path, keys, k) ==
  IF \E i \in 1..k : HasCard(tree, path, keys[i]) THEN "card"
  ELSE IF \E i \in 1..k : HasOther(tree, path, keys[i]) THEN "other"
  ELSE "unknown"

Look(tree, path, key, context) ==
  LET child == Append(path, key) IN
  IF context = "card" \/ child \notin DOMAIN tree THEN context
  ELSE IF SaysCard(key, tree[child]) THEN "card"
  ELSE IF SaysOther(key, tree[child]) THEN "other" ELSE context

LEMMA OneMoreKey ==
  ASSUME NEW tree, NEW path, NEW keys, NEW k \in Nat \ {0}
  PROVE  SaidBy(tree, path, keys, k) = Look(tree, path, keys[k], SaidBy(tree, path, keys, k - 1))
  <1>1. 1..k = (1..(k - 1)) \cup {k}
    OBVIOUS
  <1> DEFINE hasCard == HasCard(tree, path, keys[k])
             hasOther == HasOther(tree, path, keys[k])
             card == \E i \in 1..(k - 1) : HasCard(tree, path, keys[i])
             other == \E i \in 1..(k - 1) : HasOther(tree, path, keys[i])
             before == IF card THEN "card" ELSE IF other THEN "other" ELSE "unknown"
  <1>2. SaidBy(tree, path, keys, k - 1) = before
    BY DEF SaidBy
  <1>3. /\ (\E i \in 1..k : HasCard(tree, path, keys[i])) <=> card \/ hasCard
        /\ (\E i \in 1..k : HasOther(tree, path, keys[i])) <=> other \/ hasOther
    BY <1>1
  <1>4. SaidBy(tree, path, keys, k)
          = IF card \/ hasCard THEN "card" ELSE IF other \/ hasOther THEN "other" ELSE "unknown"
    BY <1>3 DEF SaidBy
  <1>5. Look(tree, path, keys[k], before)
          = IF before = "card" THEN before
            ELSE IF hasCard THEN "card" ELSE IF hasOther THEN "other" ELSE before
    <2> HIDE DEF before
    <2> QED BY DEF Look, HasCard, HasOther
  <1> HIDE DEF card, other, hasCard, hasOther
  <1> QED BY <1>2, <1>4, <1>5

LEMMA ContextIs ==
  ASSUME NEW tree, NEW path, NEW keys \in Seq(STRING)
  PROVE  paymentContextOf(tree, path, keys) = SaidBy(tree, path, keys, Len(keys))
  <1> DEFINE L == Len(keys)
             Body(g) == [k \in 0..L |-> IF k = 0 THEN "unknown"
                                        ELSE Look(tree, path, keys[k], g[k - 1])]
             s == [k \in 0..L |-> SaidBy(tree, path, keys, k)]
             e == CHOOSE g : g = Body(g)
             S == {k \in Nat : k <= L => e[k] = SaidBy(tree, path, keys, k)}
  <1>1. L \in Nat
    OBVIOUS
  <1>2. paymentContextOf(tree, path, keys) = e[L]
    BY DEF paymentContextOf, Look
  <1>3. SaidBy(tree, path, keys, 0) = "unknown"
    BY DEF SaidBy
  <1>4. s = Body(s)
    <2>1. \A k \in 0..L : s[k] = Body(s)[k]
      <3> TAKE k \in 0..L
      <3>1. CASE k = 0
        BY <1>3, <3>1
      <3>2. CASE k # 0
        <4>1. k \in Nat \ {0} /\ k - 1 \in 0..L
          BY <1>1, <3>2
        <4>2. s[k - 1] = SaidBy(tree, path, keys, k - 1)
          BY <4>1
        <4> HIDE DEF L
        <4> QED BY <3>2, <4>1, <4>2, OneMoreKey
      <3> QED BY <3>1, <3>2
    <2> QED BY <2>1
  <1>5. e = Body(e)
    <2> HIDE DEF Body, s
    <2> QED BY <1>4
  <1> HIDE DEF e, L
  <1>6. \A k \in 0..L : e[k] = IF k = 0 THEN "unknown" ELSE Look(tree, path, keys[k], e[k - 1])
    BY ONLY <1>5
  <1>7. 0 \in S
    BY <1>1, <1>3, <1>6
  <1>8. ASSUME NEW k \in Nat, k \in S PROVE k + 1 \in S
    <2> SUFFICES ASSUME k + 1 <= L PROVE e[k + 1] = SaidBy(tree, path, keys, k + 1)
      OBVIOUS
    <2>1. PICK n \in Nat \ {0} : n = k + 1 /\ n - 1 = k
      <3>1. k + 1 \in Nat \ {0} /\ (k + 1) - 1 = k
        OBVIOUS
      <3> QED BY <3>1
    <2>2. e[k] = SaidBy(tree, path, keys, k)
      BY <1>1, <1>8
    <2>3. e[n] = Look(tree, path, keys[n], e[n - 1])
      BY <1>1, <1>6, <2>1
    <2> QED BY <2>1, <2>2, <2>3, OneMoreKey
  <1>9. L \in S
    <2> HIDE DEF S
    <2> QED BY <1>1, <1>7, <1>8, NumberInduction
  <1> QED BY <1>1, <1>2, <1>9 DEF L

(* A payload and the orders its maps are ranged over in. *)
IsPayload(tree, orders) ==
  /\ tree \in Payloads
  /\ orders \in [ObjectPaths(tree) -> Orders]

LEMMA PathsArePaths ==
  ASSUME NEW tree \in Payloads, NEW path \in DOMAIN tree
  PROVE  /\ path \in Seq(STRING)
         /\ path # <<>> => Front(path) \in DOMAIN tree
  <1>1. CASE path = <<>>
    BY <1>1
  <1>2. CASE path # <<>>
    BY <1>2, PayloadAssumption
  <1> QED BY <1>1, <1>2

(* Whatever the order, an object's context is what it says. *)
LEMMA ContextIsSaid ==
  ASSUME IsPayload(payload, order), NEW path \in ObjectPaths(payload)
  PROVE  paymentContextOf(payload, path, order[path]) = Says(path)
  <1> DEFINE keys == order[path]
             L == Len(keys)
             card == \E i \in 1..L : HasCard(payload, path, keys[i])
             other == \E i \in 1..L : HasOther(payload, path, keys[i])
             saysCard == \E key \in KeysAt(path) : SaysCard(key, payload[Append(path, key)])
             saysOther == \E key \in KeysAt(path) : SaysOther(key, payload[Append(path, key)])
  <1>1. keys \in Orders /\ keys \in Seq(STRING)
    BY PayloadAssumption DEF IsPayload
  <1>2. path \in DOMAIN payload /\ path \in Seq(STRING) /\ payload[path].json = "object"
        /\ payload \in Payloads
    BY PathsArePaths DEF ObjectPaths, IsPayload
  <1>3. ASSUME NEW key \in KeysAt(path)
        PROVE  Append(path, key) \in DOMAIN payload /\ \E i \in 1..L : keys[i] = key
    <2>1. PICK child \in DOMAIN payload \ {<<>>} : Front(child) = path /\ Last(child) = key
      BY DEF KeysAt
    <2>2. child \in Seq(STRING)
      BY <1>2, <2>1, PathsArePaths
    <2>3. Append(path, key) = child
      BY <2>1, <2>2, AppendedParts
    <2>4. key \in Range(keys)
      BY <1>1, <1>2, <2>1, PayloadAssumption
    <2> QED BY <2>1, <2>3, <2>4, <1>1 DEF Range
  <1>4. ASSUME NEW i \in 1..L, Append(path, keys[i]) \in DOMAIN payload
        PROVE  keys[i] \in KeysAt(path)
    <2>1. keys[i] \in STRING
      BY <1>1
    <2>2. /\ Append(path, keys[i]) # <<>> /\ Front(Append(path, keys[i])) = path
          /\ Last(Append(path, keys[i])) = keys[i]
      BY <1>2, <2>1, PartsOfAppended
    <2> QED BY <1>4, <2>2 DEF KeysAt
  <1> HIDE DEF keys, L
  <1>5. card <=> saysCard
    BY <1>3, <1>4 DEF HasCard
  <1>6. other <=> saysOther
    BY <1>3, <1>4 DEF HasOther
  <1>7. paymentContextOf(payload, path, keys) = SaidBy(payload, path, keys, L)
    BY <1>1, ContextIs DEF L
  <1>8. SaidBy(payload, path, keys, L)
          = IF card THEN "card" ELSE IF other THEN "other" ELSE "unknown"
    BY DEF SaidBy
  <1>9. Says(path) = IF saysCard THEN "card" ELSE IF saysOther THEN "other" ELSE "unknown"
    BY DEF Says
  <1> HIDE DEF card, other, saysCard, saysOther
  <1> QED BY <1>5, <1>6, <1>7, <1>8, <1>9 DEF keys

LEMMA KeysOnPaths ==
  ASSUME NEW tree, NEW path \in Seq(STRING), NEW i \in 1..Len(path)
  PROVE  keyOf(tree, SubSeq(path, 1, i))
           = IF Above(path, i) \in ObjectPaths(tree) THEN path[i] ELSE ""
BY PrefixParts DEF keyOf

-----------------------------------------------------------------------------
(***************************************************************************)
(* The mask at the end of a path is the innermost paymentInfo's.           *)
(***************************************************************************)
PlacesTo(path, i) == {j \in CardPlaces(path) : j <= i}

(* The mask the innermost of the first i steps asks for. *)
MaskTo(path, i) ==
  IF PlacesTo(path, i) = {} THEN "off"
  ELSE IF Says(Above(path, Max(PlacesTo(path, i)))) = "card" THEN "card" ELSE "unknown"

LEMMA PlacesAre ==
  ASSUME IsPayload(payload, order), NEW path \in DOMAIN payload, NEW i \in 1..Len(path)
  PROVE  i \in CardPlaces(path) <=>
           /\ Above(path, i) \in ObjectPaths(payload) /\ path[i] = "paymentinfo"
           /\ Says(Above(path, i)) # "other"
  <1>1. path \in Seq(STRING)
    BY PathsArePaths DEF IsPayload
  <1>2. keyOf(payload, SubSeq(path, 1, i))
          = IF Above(path, i) \in ObjectPaths(payload) THEN path[i] ELSE ""
    BY <1>1, KeysOnPaths
  <1>3. i \in DOMAIN path
    BY <1>1
  <1> QED BY <1>2, <1>3 DEF CardPlaces

Below(tree, path, orders, i, mask) ==
  LET above == Above(path, i) IN
  IF above \notin ObjectPaths(tree) THEN mask
  ELSE maskBelow(paymentContextOf(tree, above, orders[above]), mask, path[i])

LEMMA OneMoreStep ==
  ASSUME IsPayload(payload, order), NEW path \in DOMAIN payload, NEW i \in 1..Len(path)
  PROVE  MaskTo(path, i) = Below(payload, path, order, i, MaskTo(path, i - 1))
  <1> DEFINE above == Above(path, i)
             before == MaskTo(path, i - 1)
  <1>1. path \in Seq(STRING)
    BY PathsArePaths DEF IsPayload
  <1>2. CardPlaces(path) \subseteq Int
    BY <1>1 DEF CardPlaces
  <1>3. CASE i \in CardPlaces(path)
    <2>1. above \in ObjectPaths(payload) /\ path[i] = "paymentinfo" /\ Says(above) # "other"
      BY <1>3, PlacesAre
    <2>2. i \in PlacesTo(path, i) /\ \A j \in PlacesTo(path, i) : i >= j
      BY <1>3 DEF PlacesTo
    <2>3. Max(PlacesTo(path, i)) = i
      <3>1. PlacesTo(path, i) \subseteq Int
        BY <1>2 DEF PlacesTo
      <3> QED BY <2>2, <3>1, MaxIs
    <2>4. MaskTo(path, i) = IF Says(above) = "card" THEN "card" ELSE "unknown"
      BY <2>2, <2>3 DEF MaskTo
    <2>5. Below(payload, path, order, i, before) = maskBelow(Says(above), before, path[i])
      BY <2>1, ContextIsSaid DEF Below
    <2> HIDE DEF above, before
    <2>6. Below(payload, path, order, i, before)
            = IF Says(above) = "card" THEN "card" ELSE "unknown"
      BY <2>1, <2>5 DEF maskBelow
    <2> QED BY <2>4, <2>6 DEF before
  <1>4. CASE i \notin CardPlaces(path)
    <2>1. PlacesTo(path, i) = PlacesTo(path, i - 1)
      <3>1. \A j \in CardPlaces(path) : j <= i <=> j <= i - 1
        BY <1>2, <1>4
      <3> QED BY <3>1 DEF PlacesTo
    <2>2. MaskTo(path, i) = before
      BY <2>1 DEF MaskTo
    <2>3. CASE above \notin ObjectPaths(payload)
      BY <2>2, <2>3 DEF Below
    <2>4. CASE above \in ObjectPaths(payload)
      <3>1. Below(payload, path, order, i, before) = maskBelow(Says(above), before, path[i])
        BY <2>4, ContextIsSaid DEF Below
      <3>2. path[i] # "paymentinfo" \/ Says(above) = "other"
        BY <1>4, <2>4, PlacesAre
      <3> HIDE DEF above, before
      <3>3. maskBelow(Says(above), before, path[i]) = before
        BY <3>2 DEF maskBelow
      <3> QED BY <2>2, <3>1, <3>3 DEF before
    <2> QED BY <2>3, <2>4
  <1> QED BY <1>3, <1>4

LEMMA MaskIs ==
  ASSUME IsPayload(payload, order), NEW path \in DOMAIN payload
  PROVE  maskAt(payload, path, order) = MaskTo(path, Len(path))
  <1> DEFINE L == Len(path)
             Body(g) == [i \in 0..L |-> IF i = 0 THEN "off"
                                        ELSE Below(payload, path, order, i, g[i - 1])]
             s == [i \in 0..L |-> MaskTo(path, i)]
             e == CHOOSE g : g = Body(g)
             S == {i \in Nat : i <= L => e[i] = MaskTo(path, i)}
  <1>1. path \in Seq(STRING) /\ L \in Nat
    BY PathsArePaths DEF IsPayload
  <1>2. maskAt(payload, path, order) = e[L]
    BY DEF maskAt, Below
  <1>3. MaskTo(path, 0) = "off"
    <2>1. PlacesTo(path, 0) = {}
      BY <1>1 DEF PlacesTo, CardPlaces
    <2> QED BY <2>1 DEF MaskTo
  <1>4. s = Body(s)
    <2>1. \A i \in 0..L : s[i] = Body(s)[i]
      <3> TAKE i \in 0..L
      <3>1. CASE i = 0
        BY <1>3, <3>1
      <3>2. CASE i # 0
        <4>1. i \in 1..Len(path) /\ i - 1 \in 0..L
          BY <1>1, <3>2
        <4>2. s[i - 1] = MaskTo(path, i - 1)
          BY <4>1
        <4> HIDE DEF L
        <4> QED BY <3>2, <4>1, <4>2, OneMoreStep
      <3> QED BY <3>1, <3>2
    <2> QED BY <2>1
  <1>5. e = Body(e)
    <2> HIDE DEF Body, s
    <2> QED BY <1>4
  <1> HIDE DEF e
  <1>6. \A i \in 0..L : e[i] = IF i = 0 THEN "off" ELSE Below(payload, path, order, i, e[i - 1])
    BY ONLY <1>5
  <1>7. 0 \in S
    BY <1>1, <1>3, <1>6
  <1>8. ASSUME NEW i \in Nat, i \in S PROVE i + 1 \in S
    <2> SUFFICES ASSUME i + 1 <= L PROVE e[i + 1] = MaskTo(path, i + 1)
      OBVIOUS
    <2>1. PICK n \in 1..Len(path) : n = i + 1 /\ n - 1 = i
      <3>1. i + 1 \in 1..Len(path) /\ (i + 1) - 1 = i
        BY <1>1
      <3> QED BY <3>1
    <2>2. e[i] = MaskTo(path, i)
      BY <1>1, <1>8
    <2>3. e[n] = Below(payload, path, order, n, e[n - 1])
      BY <1>1, <1>6, <2>1
    <2> QED BY <2>1, <2>2, <2>3, OneMoreStep
  <1>9. L \in S
    <2> HIDE DEF S, L
    <2> QED BY <1>1, <1>7, <1>8, NumberInduction
  <1> QED BY <1>1, <1>2, <1>9

-----------------------------------------------------------------------------
(***************************************************************************)
(* One node, and the whole payload.                                        *)
(***************************************************************************)
LEMMA FewAreLeft ==
  \A node : isScalar(lastFour(node)) /\ lastFour(node).content \notin {"pan", "grouped", "reference"}
BY DEF lastFour, lastFourText, isScalar, Raw

LEMMA LastKey ==
  ASSUME IsPayload(payload, order), NEW path \in DOMAIN payload, path # <<>>
  PROVE  /\ Len(path) \in 1..Len(path) /\ SubSeq(path, 1, Len(path)) = path
         /\ Front(path) = Above(path, Len(path))
  <1>1. path \in Seq(STRING)
    BY PathsArePaths DEF IsPayload
  <1>2. Len(path) \in 1..Len(path) /\ SubSeq(path, 1, Len(path)) = path
    BY <1>1
  <1> QED BY <1>2 DEF Front, Above

(* A scalar paymentInfo that is masked is a card place of its own. *)
LEMMA InfoIsPlace ==
  ASSUME IsPayload(payload, order), NEW path \in DOMAIN payload
  PROVE  /\ IsMaskedInfo(payload, path, order) <=>
              isText(payload[path]) /\ path # <<>> /\ Len(path) \in CardPlaces(path)
         /\ IsMaskedInfo(payload, path, order) =>
              paymentContextOf(payload, Front(path), order[Front(path)])
                = Says(Above(path, Len(path)))
  <1>1. CASE path = <<>>
    BY <1>1 DEF IsMaskedInfo, keyOf
  <1>2. CASE path # <<>>
    <2> DEFINE front == Front(path)
    <2>1. /\ Len(path) \in 1..Len(path) /\ SubSeq(path, 1, Len(path)) = path
          /\ front = Above(path, Len(path))
      BY <1>2, LastKey
    <2>2. path \in Seq(STRING)
      BY PathsArePaths DEF IsPayload
    <2>3. keyOf(payload, path)
            = IF front \in ObjectPaths(payload) THEN path[Len(path)] ELSE ""
      <3>1. keyOf(payload, SubSeq(path, 1, Len(path)))
              = IF Above(path, Len(path)) \in ObjectPaths(payload) THEN path[Len(path)] ELSE ""
        BY <2>1, <2>2, KeysOnPaths
      <3> QED BY <2>1, <3>1
    <2>4. front \in ObjectPaths(payload) =>
            paymentContextOf(payload, front, order[front]) = Says(front)
      BY ContextIsSaid
    <2>5. Len(path) \in CardPlaces(path) <=>
            /\ front \in ObjectPaths(payload) /\ path[Len(path)] = "paymentinfo"
            /\ Says(front) # "other"
      BY <2>1, PlacesAre
    <2> HIDE DEF front
    <2>6. IsMaskedInfo(payload, path, order) <=>
            /\ keyOf(payload, path) = "paymentinfo" /\ isText(payload[path])
            /\ paymentContextOf(payload, front, order[front]) # "other"
      BY DEF IsMaskedInfo, front
    <2>7. "paymentinfo" # ""
      OBVIOUS
    <2>8. keyOf(payload, path) = "paymentinfo" <=>
            front \in ObjectPaths(payload) /\ path[Len(path)] = "paymentinfo"
      BY <2>3, <2>7
    <2> QED BY <1>2, <2>1, <2>4, <2>5, <2>6, <2>8 DEF front
  <1> QED BY <1>1, <1>2

(* Below no secret and under no card number's key, what has to go is cut   *)
(* and everything else is left.                                            *)
LEMMA NodeIs ==
  ASSUME IsPayload(payload, order), NEW path \in DOMAIN payload,
         keyOf(payload, path) \notin SecretKeys \cup CardNumberKeys
  PROVE  sanitizeNode(payload, path, order)
           = IF MustGo(path) THEN lastFour(payload[path]) ELSE payload[path]
  <1> DEFINE node == payload[path]
             places == CardPlaces(path)
             L == Len(path)
             isCard == Says(Above(path, Max(places))) = "card"
             mask == maskAt(payload, path, order)
             isInfo == IsMaskedInfo(payload, path, order)
             context == paymentContextOf(payload, Front(path), order[Front(path)])
  <1>1. path \in Seq(STRING) /\ L \in Nat /\ places \subseteq 1..L
    BY PathsArePaths DEF IsPayload, CardPlaces
  <1>2. mask = IF places = {} THEN "off" ELSE IF isCard THEN "card" ELSE "unknown"
    <2>1. PlacesTo(path, L) = places
      BY <1>1 DEF PlacesTo
    <2>2. mask = MaskTo(path, L)
      BY MaskIs
    <2> HIDE DEF mask, places
    <2> QED BY <2>1, <2>2 DEF MaskTo
  <1>3. isInfo <=> isText(node) /\ L \in places
    <2>1. path = <<>> => L \notin places
      BY <1>1
    <2> QED BY <2>1, InfoIsPlace
  <1>4. L \in places => Max(places) = L
    <2> SUFFICES ASSUME L \in places PROVE Max(places) = L
      OBVIOUS
    <2>1. places \subseteq Int /\ \A i \in places : L >= i
      BY <1>1
    <2> HIDE DEF places, L
    <2> QED BY <2>1, MaxIs
  <1>5. isInfo => (context = "card" <=> isCard)
    <2>1. isInfo => context = Says(Above(path, L))
      BY InfoIsPlace
    <2> QED BY <1>3, <1>4, <2>1
  <1>6. Max(places) = L => L \in places \/ places = {}
    <2>1. CASE places # {}
      <3>1. PICK m \in places : \A i \in places : m >= i
        <4>1. places \subseteq 0..L
          BY <1>1
        <4> HIDE DEF places, L
        <4> QED BY <1>1, <2>1, <4>1, GreatestNumber
      <3>2. places \subseteq Int
        BY <1>1
      <3> HIDE DEF places, L
      <3>3. Max(places) = m
        BY <3>1, <3>2, MaxIs
      <3> QED BY <3>1, <3>3
    <2> QED BY <2>1
  <1>7. MustGo(path) <=>
          /\ places # {} /\ isText(node)
          /\ \/ node.content = "pan"
             \/ isCard /\ node.content = "grouped" /\ node.json = "string"
             \/ isCard /\ L \in places
    <2>1. MustGo(path) <=>
            /\ places # {} /\ isText(node)
            /\ \/ node.content = "pan"
               \/ isCard /\ node.content = "grouped" /\ node.json = "string"
               \/ isCard /\ Max(places) = L
      BY DEF MustGo
    <2> HIDE DEF places, L, node, isCard
    <2> QED BY <1>4, <1>6, <2>1
  <1>8. sanitizeNode(payload, path, order)
          = IF isInfo THEN maskPaymentInfoScalar(node, context) ELSE sanitizeScalar(node, mask)
    <2> HIDE DEF isInfo, context, mask
    <2> QED BY DEF sanitizeNode, isInfo, context, mask
  <1>9. maskPaymentInfoScalar(node, context)
          = IF context = "card" \/ node.content = "pan" THEN lastFour(node) ELSE node
    BY DEF maskPaymentInfoScalar, looksLikeCardNumber
  <1>10. sanitizeScalar(node, mask)
           = IF /\ mask # "off" /\ isText(node)
                /\ \/ node.content = "pan"
                   \/ mask = "card" /\ node.json = "string" /\ node.content = "grouped"
             THEN lastFour(node) ELSE node
    BY DEF sanitizeScalar, looksLikeCardNumber
  <1> HIDE DEF node, places, L, isCard, mask, isInfo, context
  <1>11. (mask # "off" <=> places # {}) /\ (mask = "card" <=> places # {} /\ isCard)
    BY <1>2
  <1>12. CASE isInfo
    <2>1. MustGo(path) <=> node.content = "pan" \/ isCard
      BY <1>3, <1>7, <1>12
    <2> QED BY <1>5, <1>8, <1>9, <1>12, <2>1 DEF node
  <1>13. CASE ~ isInfo
    <2>1. MustGo(path) <=>
            /\ places # {} /\ isText(node)
            /\ node.content = "pan" \/ (isCard /\ node.content = "grouped" /\ node.json = "string")
      BY <1>3, <1>7, <1>13
    <2> QED BY <1>8, <1>10, <1>11, <1>13, <2>1 DEF node
  <1> QED BY <1>12, <1>13

RedactionInv ==
  /\ IsPayload(payload, order)
  /\ clean = NoPayload \/ clean = SanitizeJSON(payload, order)

LEMMA CleanIs ==
  ASSUME RedactionInv, clean # NoPayload
  PROVE  /\ IsPayload(payload, order)
         /\ DOMAIN clean = {path \in DOMAIN payload : IsReached(payload, path)}
         /\ \A path \in DOMAIN clean : clean[path] = sanitizeNode(payload, path, order)
BY DEF RedactionInv, SanitizeJSON

LEMMA SecretsAreGone == RedactionInv => NothingSecretSurvives
  <1> SUFFICES ASSUME RedactionInv, clean # NoPayload, NEW path \in DOMAIN clean
               PROVE  /\ keyOf(payload, path) \in SecretKeys => clean[path] = Redacted
                      /\ keyOf(payload, path) \in CardNumberKeys =>
                           isScalar(clean[path]) /\ clean[path].content \notin {"pan", "grouped"}
                      /\ MustGo(path) => clean[path].content \notin {"pan", "grouped", "reference"}
    BY DEF NothingSecretSurvives
  <1> DEFINE key == keyOf(payload, path)
             left == clean[path]
  <1>1. /\ IsPayload(payload, order) /\ path \in DOMAIN payload
        /\ left = sanitizeNode(payload, path, order)
    BY CleanIs
  <1> HIDE DEF left
  <1>2. CASE key \in SecretKeys
    <2>1. left = Redacted
      BY <1>1, <1>2 DEF sanitizeNode
    <2>2. key \notin CardNumberKeys
      BY <1>2 DEF SecretKeys, CardNumberKeys
    <2>3. Redacted.content \notin {"pan", "grouped", "reference"}
      BY DEF Redacted, Raw
    <2> QED BY <2>1, <2>2, <2>3 DEF left
  <1>3. CASE key \in CardNumberKeys
    <2>1. key \notin SecretKeys
      BY <1>3 DEF SecretKeys, CardNumberKeys
    <2>2. left = lastFour(payload[path]) \/ left = Raw("string", "tail")
      BY <1>1, <1>3, <2>1 DEF sanitizeNode, sanitizeCardNumber
    <2>3. /\ isScalar(Raw("string", "tail"))
          /\ Raw("string", "tail").content \notin {"pan", "grouped", "reference"}
      BY DEF isScalar, Raw
    <2>4. isScalar(left) /\ left.content \notin {"pan", "grouped", "reference"}
      BY <2>2, <2>3, FewAreLeft
    <2> QED BY <2>1, <2>4 DEF left
  <1>4. CASE key \notin SecretKeys \cup CardNumberKeys
    <2>1. MustGo(path) => left = lastFour(payload[path])
      BY <1>1, <1>4, NodeIs
    <2> QED BY <1>4, <2>1, FewAreLeft DEF left
  <1> QED BY <1>2, <1>3, <1>4

LEMMA TheRestIsLeft == RedactionInv => ReferencesSurvive
  <1> SUFFICES ASSUME RedactionInv, clean # NoPayload, NEW path \in DOMAIN payload, ~ Hidden(path)
               PROVE  /\ path \in DOMAIN clean
                      /\ IF isScalar(payload[path]) /\ ~ MustGo(path)
                         THEN clean[path] = payload[path]
                         ELSE isScalar(payload[path]) <=> isScalar(clean[path])
    BY DEF ReferencesSurvive
  <1>1. IsPayload(payload, order) /\ path \in Seq(STRING)
    BY CleanIs, PathsArePaths DEF IsPayload
  <1>2. \A i \in 1..Len(path) :
          keyOf(payload, SubSeq(path, 1, i)) \notin SecretKeys \cup CardNumberKeys
    BY <1>1 DEF Hidden
  <1>3. IsReached(payload, path)
    <2>1. \A i \in 1..(Len(path) - 1) : i \in 1..Len(path)
      BY <1>1
    <2> QED BY <1>2, <2>1 DEF IsReached
  <1>4. path \in DOMAIN clean /\ clean[path] = sanitizeNode(payload, path, order)
    BY <1>3, CleanIs
  <1>5. keyOf(payload, path) \notin SecretKeys \cup CardNumberKeys
    <2>1. CASE path = <<>>
      BY <2>1 DEF keyOf, SecretKeys, CardNumberKeys
    <2>2. CASE path # <<>>
      BY <1>1, <1>2, <2>2, LastKey
    <2> QED BY <2>1, <2>2
  <1>6. clean[path] = IF MustGo(path) THEN lastFour(payload[path]) ELSE payload[path]
    BY <1>1, <1>4, <1>5, NodeIs
  <1>7. MustGo(path) => isScalar(payload[path])
    BY DEF MustGo, isText, isScalar
  <1> QED BY <1>4, <1>6, <1>7, FewAreLeft

LEMMA RedactionInvariant == RedactionSpec => []RedactionInv
  <1>1. RedactionInit => RedactionInv
    BY DEF RedactionInit, RedactionInv, IsPayload
  <1>2. RedactionInv /\ [Sanitize]_redactionVars => RedactionInv'
    BY DEF RedactionInv, Sanitize, redactionVars, IsPayload
  <1> QED BY <1>1, <1>2, PTL DEF RedactionSpec

(* SanitizeJSON leaves no secret and no card number, in a payload of any   *)
(* depth whose maps are ranged over in any orders.                         *)
THEOREM SecretsAreRedacted == RedactionSpec => []NothingSecretSurvives
BY RedactionInvariant, SecretsAreGone, PTL

(* ... and takes out nothing else. *)
THEOREM ReferencesAreKept == RedactionSpec => []ReferencesSurvive
BY RedactionInvariant, TheRestIsLeft, PTL
=============================================================================
