--------------------------- MODULE EventTextProofs ---------------------------
(***************************************************************************)
(* The text under an event ID is JavaScript's, for every number and every  *)
(* string: appendJSNumber against a reader of numbers, appendJSStringToken *)
(* against the code units it was given.  Both go through data of any       *)
(* length, so the proof does: induction on the least number that would be  *)
(* an exception, and each recursive function shown to exist first, which   *)
(* TLA+ does not say of its definition.                                    *)
(***************************************************************************)
EXTENDS EventText, TLAPS, WellFoundedInduction

-----------------------------------------------------------------------------
(***************************************************************************)
(* Induction on numbers, and loops.                                        *)
(***************************************************************************)
LessPairs == {pair \in Nat \X Nat : pair[1] < pair[2]}

LEMMA LeastNumber ==
  ASSUME NEW T, T \subseteq Nat, T # {}
  PROVE  \E n \in T : \A m \in T : n <= m
  <1>1. IsWellFoundedOn(LessPairs, Nat)
    BY NatLessThanWellFounded DEF OpToRel, LessPairs
  <1>2. PICK n \in T : \A m \in T : <<m, n>> \notin LessPairs
    BY <1>1, WFMin
  <1>3. \A m \in T : ~ (m < n)
    BY <1>2 DEF LessPairs
  <1> QED BY <1>3

LEMMA GreatestNumber ==
  ASSUME NEW L \in Nat, NEW T, T \subseteq 0..L, T # {}
  PROVE  \E n \in T : \A m \in T : n >= m
  <1> DEFINE S == {L - n : n \in T}
  <1>1. S \subseteq Nat /\ S # {}
    <2>1. \A n \in T : L - n \in Nat
      OBVIOUS
    <2> QED BY <2>1
  <1>2. PICK s \in S : \A t \in S : s <= t
    <2> HIDE DEF S
    <2> QED BY <1>1, LeastNumber
  <1>3. PICK n \in T : s = L - n
    BY <1>2
  <1>4. \A m \in T : L - n <= L - m
    BY <1>2, <1>3
  <1>5. \A m \in T : n >= m
    BY <1>4
  <1> QED BY <1>5

LEMMA NumberInduction ==
  ASSUME NEW S, 0 \in S, \A n \in Nat : n \in S => n + 1 \in S
  PROVE  \A n \in Nat : n \in S
  <1> DEFINE T == Nat \ S
  <1> SUFFICES ASSUME T # {} PROVE FALSE
    OBVIOUS
  <1>1. PICK n \in T : \A m \in T : n <= m
    BY LeastNumber
  <1>2. n - 1 \in Nat /\ n - 1 \notin T
    BY <1>1
  <1> QED BY <1>1, <1>2

LEMMA StrongInduction ==
  ASSUME NEW S, \A n \in Nat : (\A m \in 0..(n - 1) : m \in S) => n \in S
  PROVE  \A n \in Nat : n \in S
  <1> DEFINE T == Nat \ S
  <1> SUFFICES ASSUME T # {} PROVE FALSE
    OBVIOUS
  <1>1. PICK n \in T : \A m \in T : n <= m
    BY LeastNumber
  <1>2. \A m \in 0..(n - 1) : m \in S
    BY <1>1
  <1> QED BY <1>1, <1>2

(* A loop over L steps computes one function, and what it computes at each *)
(* of them is in X.                                                        *)
Steps(X, L) == [1..L -> [X -> X]]

Results(X, L) == [0..L -> X]

IsLoop(s, start, step, L) ==
  /\ s = [k \in 0..L |-> s[k]]
  /\ s[0] = start
  /\ \A k \in 1..L : s[k] = step[k][s[k - 1]]

(* TLA+ promises no function that a recursive definition asks for; a loop  *)
(* has one, built step by step.                                            *)
LEMMA LoopExists ==
  ASSUME NEW X, NEW start \in X, NEW L \in Nat, NEW step \in Steps(X, L)
  PROVE  \E s \in Results(X, L) : IsLoop(s, start, step, L)
  <1> DEFINE S == {m \in Nat : m <= L => \E s \in Results(X, m) : IsLoop(s, start, step, m)}
  <1>1. 0 \in S
    <2> DEFINE s == [k \in 0..0 |-> start]
    <2>1. s \in Results(X, 0) /\ IsLoop(s, start, step, 0)
      BY DEF Results, IsLoop
    <2> QED BY <2>1
  <1>2. ASSUME NEW m \in Nat, m \in S PROVE m + 1 \in S
    <2> SUFFICES ASSUME m + 1 <= L
                 PROVE  \E s \in Results(X, m + 1) : IsLoop(s, start, step, m + 1)
      OBVIOUS
    <2>1. PICK s \in [0..m -> X] : IsLoop(s, start, step, m)
      BY <1>2 DEF Results
    <2> DEFINE t == [k \in 0..(m + 1) |-> IF k = m + 1 THEN step[m + 1][s[m]] ELSE s[k]]
    <2>2. step[m + 1][s[m]] \in X
      BY DEF Steps
    <2>3. t \in [0..(m + 1) -> X] /\ t[0] = start
      BY <2>1, <2>2 DEF IsLoop
    <2>4. \A k \in 1..(m + 1) : t[k] = step[k][t[k - 1]]
      <3> TAKE k \in 1..(m + 1)
      <3>1. CASE k = m + 1
        <4>1. k - 1 = m /\ m \in 0..(m + 1) /\ m # m + 1
          BY <3>1
        <4>2. t[k] = step[m + 1][s[m]] /\ t[m] = s[m]
          BY <3>1, <4>1
        <4> HIDE DEF t
        <4> QED BY <3>1, <4>1, <4>2
      <3>2. CASE k # m + 1
        <4>1. k \in 1..m /\ k - 1 # m + 1 /\ k - 1 \in 0..(m + 1)
          BY <3>2
        <4>2. t[k] = s[k] /\ t[k - 1] = s[k - 1]
          BY <3>2, <4>1
        <4> HIDE DEF t
        <4> QED BY <4>1, <4>2, <2>1 DEF IsLoop
      <3> QED BY <3>1, <3>2
    <2> HIDE DEF t
    <2> QED BY <2>3, <2>4 DEF Results, IsLoop
  <1>3. L \in S
    <2> HIDE DEF S
    <2> QED BY <1>1, <1>2, NumberInduction
  <1> QED BY <1>3

LEMMA LoopStays ==
  ASSUME NEW X, NEW start \in X, NEW L \in Nat, NEW step \in Steps(X, L), NEW s,
         s = [k \in 0..L |-> s[k]], s[0] = start,
         \A k \in 1..L : s[k - 1] \in X => s[k] = step[k][s[k - 1]]
  PROVE  s \in Results(X, L)
  <1> DEFINE S == {m \in Nat : m <= L => s[m] \in X}
  <1>1. 0 \in S
    OBVIOUS
  <1>2. ASSUME NEW m \in Nat, m \in S PROVE m + 1 \in S
    <2> SUFFICES ASSUME m + 1 <= L PROVE s[m + 1] \in X
      OBVIOUS
    <2>1. m + 1 \in 1..L /\ (m + 1) - 1 = m /\ s[m] \in X
      BY <1>2
    <2>2. s[m + 1] = step[m + 1][s[m]]
      BY <2>1
    <2>3. step[m + 1] \in [X -> X]
      BY <2>1 DEF Steps
    <2> QED BY <2>1, <2>2, <2>3
  <1>3. \A m \in Nat : m \in S
    <2> HIDE DEF S
    <2> QED BY <1>1, <1>2, NumberInduction
  <1>4. \A m \in 0..L : s[m] \in X
    BY <1>3
  <1> QED BY <1>4 DEF Results

-----------------------------------------------------------------------------
(***************************************************************************)
(* Digits are read as the number they are.                                 *)
(***************************************************************************)
DigitSet == Range(Digits)

NatSums(digits) ==
  LET upTo[k \in 0..Len(digits)] == IF k = 0 THEN 0 ELSE 10 * upTo[k - 1] + DigitOf(digits[k])
  IN upTo

LEMMA DigitsAreRead ==
  /\ \A d \in 0..9 : Digits[d + 1] \in DigitSet /\ DigitOf(Digits[d + 1]) = d
  /\ \A x \in DigitSet : DigitOf(x) \in 0..9 /\ x = Digits[DigitOf(x) + 1]
  <1>1. DOMAIN Digits = 1..10
    BY DEF Digits
  <1>2. \A i, j \in 1..10 : Digits[i] = Digits[j] => i = j
    BY DEF Digits
  <1>3. ASSUME NEW d \in 0..9 PROVE Digits[d + 1] \in DigitSet /\ DigitOf(Digits[d + 1]) = d
    <2>1. Digits[d + 1] \in DigitSet
      BY <1>1 DEF DigitSet, Range
    <2> DEFINE place == CHOOSE i \in 1..10 : Digits[i] = Digits[d + 1]
    <2>2. d + 1 \in 1..10
      OBVIOUS
    <2>3. place \in 1..10 /\ Digits[place] = Digits[d + 1]
      BY <2>2
    <2>4. place = d + 1
      <3> HIDE DEF place
      <3> QED BY <1>2, <2>2, <2>3
    <2>5. DigitOf(Digits[d + 1]) = place - 1
      BY <1>1 DEF DigitOf
    <2>6. (d + 1) - 1 = d
      OBVIOUS
    <2> HIDE DEF place
    <2> QED BY <2>1, <2>4, <2>5, <2>6
  <1>4. ASSUME NEW x \in DigitSet PROVE DigitOf(x) \in 0..9 /\ x = Digits[DigitOf(x) + 1]
    <2>1. PICK i \in 1..10 : x = Digits[i]
      BY <1>1 DEF DigitSet, Range
    <2>2. i - 1 \in 0..9 /\ i = (i - 1) + 1
      OBVIOUS
    <2>3. DigitOf(x) = i - 1
      BY <2>1, <2>2, <1>3
    <2> QED BY <2>1, <2>2, <2>3
  <1> QED BY <1>3, <1>4

LEMMA NatSumsExist ==
  ASSUME NEW digits \in Seq(DigitSet)
  PROVE  LET s == NatSums(digits) IN
         /\ s \in [0..Len(digits) -> Nat] /\ s[0] = 0
         /\ \A k \in 1..Len(digits) : s[k] = 10 * s[k - 1] + DigitOf(digits[k])
  <1> DEFINE L == Len(digits)
             zero == 0
             X == Nat
             step == [k \in 1..L |-> [n \in Nat |-> 10 * n + DigitOf(digits[k])]]
             Body(g) == [k \in 0..L |-> IF k = 0 THEN 0 ELSE 10 * g[k - 1] + DigitOf(digits[k])]
             e == NatSums(digits)
  <1>1. \A k \in 1..L : DigitOf(digits[k]) \in Nat
    BY DigitsAreRead
  <1>2. step \in Steps(X, L)
    BY <1>1 DEF Steps
  <1>3. \A n \in Nat, k \in 1..L : step[k][n] = 10 * n + DigitOf(digits[k])
    OBVIOUS
  <1>4. L \in Nat /\ zero \in X /\ zero = 0
    OBVIOUS
  <1> HIDE DEF step
  <1>5. \E s \in Results(X, L) : IsLoop(s, zero, step, L)
    <2> HIDE DEF L, zero, X
    <2> QED BY <1>2, <1>4, LoopExists
  <1>6. PICK s \in [0..L -> Nat] : s[0] = 0 /\ \A k \in 1..L : s[k] = step[k][s[k - 1]]
    BY <1>5 DEF Results, IsLoop
  <1>7. s = Body(s)
    <2>1. \A k \in 0..L : s[k] = Body(s)[k]
      <3> TAKE k \in 0..L
      <3>1. CASE k = 0
        BY <3>1, <1>6
      <3>2. CASE k # 0
        <4>1. k \in 1..L /\ s[k - 1] \in Nat
          BY <3>2, <1>4
        <4> QED BY <4>1, <3>2, <1>3, <1>6
      <3> QED BY <3>1, <3>2
    <2>2. s = [k \in 0..L |-> s[k]]
      OBVIOUS
    <2> HIDE DEF L
    <2> QED BY <2>1, <2>2
  <1>8. e = CHOOSE g : g = Body(g)
    BY DEF NatSums
  <1>9. e = Body(e)
    <2> HIDE DEF Body, e
    <2> QED BY <1>7, <1>8
  <1> HIDE DEF e
  <1>10. /\ e = [k \in 0..L |-> e[k]] /\ e[0] = zero
         /\ \A k \in 1..L : e[k] = 10 * e[k - 1] + DigitOf(digits[k])
    BY <1>4, <1>9
  <1>11. \A k \in 1..L : e[k - 1] \in X => e[k] = step[k][e[k - 1]]
    <2> HIDE DEF L, Body
    <2> SUFFICES ASSUME NEW k \in 1..L, e[k - 1] \in X PROVE e[k] = step[k][e[k - 1]]
      OBVIOUS
    <2>1. e[k] = 10 * e[k - 1] + DigitOf(digits[k])
      BY ONLY <1>10, k \in 1..L
    <2>2. step[k][e[k - 1]] = 10 * e[k - 1] + DigitOf(digits[k])
      BY <1>3
    <2> QED BY <2>1, <2>2
  <1>12. e \in Results(X, L)
    <2> HIDE DEF Body, L, zero, X
    <2> QED BY <1>2, <1>4, <1>10, <1>11, LoopStays
  <1> QED BY <1>10, <1>12 DEF e, Results

LEMMA NatOfEmpty == NatOf(<<>>) = 0
  <1>1. <<>> \in Seq(DigitSet) /\ Len(<<>>) = 0
    OBVIOUS
  <1>2. NatOf(<<>>) = NatSums(<<>>)[Len(<<>>)]
    BY DEF NatOf, NatSums
  <1> QED BY <1>1, <1>2, NatSumsExist

LEMMA NatOfMore ==
  ASSUME NEW digits \in Seq(DigitSet), NEW d \in DigitSet
  PROVE  /\ NatOf(digits) \in Nat
         /\ NatOf(digits \o <<d>>) = 10 * NatOf(digits) + DigitOf(d)
  <1> DEFINE L == Len(digits)
             more == digits \o <<d>>
             s == NatSums(digits)
             t == NatSums(more)
             Same == {m \in Nat : m <= L => s[m] = t[m]}
  <1>1. /\ L \in Nat /\ more \in Seq(DigitSet) /\ Len(more) = L + 1 /\ more[L + 1] = d
        /\ \A k \in 1..L : more[k] = digits[k]
    OBVIOUS
  <1>2. NatOf(digits) = s[L] /\ NatOf(more) = t[L + 1]
    BY <1>1 DEF NatOf, NatSums
  <1>3. /\ s \in [0..L -> Nat] /\ s[0] = 0
        /\ \A k \in 1..L : s[k] = 10 * s[k - 1] + DigitOf(digits[k])
    BY NatSumsExist
  <1>4. /\ t \in [0..(L + 1) -> Nat] /\ t[0] = 0
        /\ \A k \in 1..(L + 1) : t[k] = 10 * t[k - 1] + DigitOf(more[k])
    <2> HIDE DEF more
    <2> QED BY <1>1, NatSumsExist
  <1> HIDE DEF s, t, more
  <1>5. \A m \in Nat : m \in Same
    <2>1. 0 \in Same
      BY <1>3, <1>4
    <2>2. ASSUME NEW m \in Nat, m \in Same PROVE m + 1 \in Same
      BY <1>1, <1>3, <1>4, <2>2
    <2> HIDE DEF Same
    <2> QED BY <2>1, <2>2, NumberInduction
  <1>6. s[L] = t[L] /\ t[L + 1] = 10 * t[L] + DigitOf(d)
    BY <1>1, <1>4, <1>5
  <1> QED BY <1>1, <1>2, <1>3, <1>6 DEF more

-----------------------------------------------------------------------------
(***************************************************************************)
(* The decimal digits of a number are read as the number.                  *)
(***************************************************************************)
(* What Decimal writes for i, the rows below i being in table. *)
Row(table, i) ==
  IF i < 10 THEN <<Digits[i + 1]>> ELSE table[i \div 10] \o <<Digits[(i % 10) + 1]>>

Tables(m) == {table \in [0..m -> Seq(DigitSet)] : \A i \in 0..m : table[i] = Row(table, i)}

LEMMA TenthIsLess ==
  ASSUME NEW i \in Nat, ~ i < 10
  PROVE  /\ i \div 10 \in 0..(i - 1) /\ i % 10 \in 0..9
         /\ \E tenth \in 0..(i - 1), last \in 0..9 :
              tenth = i \div 10 /\ last = i % 10 /\ i = 10 * tenth + last
  <1>1. i \div 10 \in 0..(i - 1)
    OBVIOUS
  <1>2. i % 10 \in 0..9
    OBVIOUS
  <1>3. i % 10 = i - 10 * (i \div 10)
    BY Z3
  <1>4. PICK tenth \in 0..(i - 1), last \in 0..9 : tenth = i \div 10 /\ last = i % 10
    BY <1>1, <1>2
  <1>5. last = i - 10 * tenth
    BY <1>3, <1>4, Zenon
  <1>6. i = 10 * tenth + last
    BY <1>5
  <1> QED BY <1>1, <1>2, <1>4, <1>6

LEMMA RowsAreDigits ==
  ASSUME NEW i \in Nat, NEW table, ~ i < 10 => table[i \div 10] \in Seq(DigitSet)
  PROVE  Row(table, i) \in Seq(DigitSet)
  <1>1. CASE i < 10
    <2>1. Digits[i + 1] \in DigitSet
      BY <1>1, DigitsAreRead
    <2> QED BY <1>1, <2>1 DEF Row
  <1>2. CASE ~ i < 10
    <2>1. Digits[(i % 10) + 1] \in DigitSet
      BY <1>2, TenthIsLess, DigitsAreRead
    <2> QED BY <1>2, <2>1 DEF Row
  <1> QED BY <1>1, <1>2

LEMMA TablesExist ==
  ASSUME NEW m \in Nat
  PROVE  Tables(m) # {}
  <1> DEFINE S == {n \in Nat : Tables(n) # {}}
  <1>1. 0 \in S
    <2> DEFINE table == [i \in 0..0 |-> <<Digits[1]>>]
    <2>1. Digits[0 + 1] \in DigitSet
      BY DigitsAreRead
    <2>2. table \in Tables(0)
      BY <2>1 DEF Tables, Row
    <2> QED BY <2>2
  <1>2. ASSUME NEW n \in Nat, n \in S PROVE n + 1 \in S
    <2>1. PICK table \in [0..n -> Seq(DigitSet)] : \A i \in 0..n : table[i] = Row(table, i)
      BY <1>2 DEF Tables
    <2> DEFINE more == [i \in 0..(n + 1) |-> IF i = n + 1 THEN Row(table, n + 1) ELSE table[i]]
    <2>2. \A i \in 0..(n + 1) : Row(more, i) = Row(table, i)
      <3> SUFFICES ASSUME NEW i \in 0..(n + 1), ~ i < 10 PROVE more[i \div 10] = table[i \div 10]
        BY DEF Row
      <3>1. i \div 10 \in 0..n
        BY TenthIsLess
      <3> QED BY <3>1
    <2>3. Row(table, n + 1) \in Seq(DigitSet)
      <3>1. ~ n + 1 < 10 => (n + 1) \div 10 \in 0..n
        BY TenthIsLess
      <3> QED BY <2>1, <3>1, RowsAreDigits
    <2>4. more \in [0..(n + 1) -> Seq(DigitSet)]
      BY <2>1, <2>3
    <2>5. \A i \in 0..(n + 1) : more[i] = Row(more, i)
      <3> HIDE DEF more
      <3>1. \A i \in 0..(n + 1) : more[i] = IF i = n + 1 THEN Row(table, n + 1) ELSE table[i]
        BY DEF more
      <3>2. \A i \in 0..(n + 1) : i # n + 1 => i \in 0..n
        OBVIOUS
      <3> QED BY <2>1, <2>2, <3>1, <3>2
    <2>6. more \in Tables(n + 1)
      <3> HIDE DEF more
      <3> QED BY <2>4, <2>5 DEF Tables
    <2> QED BY <2>6
  <1>3. \A n \in Nat : n \in S
    <2> HIDE DEF S
    <2> QED BY <1>1, <1>2, NumberInduction
  <1> QED BY <1>3

LEMMA TablesAgree ==
  ASSUME NEW m \in Nat, NEW n \in Nat, NEW table \in Tables(m), NEW other \in Tables(n),
         NEW i \in Nat, i <= m, i <= n
  PROVE  table[i] = other[i]
  <1> DEFINE S == {j \in Nat : j <= m /\ j <= n => table[j] = other[j]}
  <1>1. ASSUME NEW j \in Nat, \A h \in 0..(j - 1) : h \in S PROVE j \in S
    <2> SUFFICES ASSUME j <= m, j <= n PROVE table[j] = other[j]
      OBVIOUS
    <2>1. table[j] = Row(table, j) /\ other[j] = Row(other, j)
      BY DEF Tables
    <2>2. CASE j < 10
      BY <2>1, <2>2 DEF Row
    <2>3. CASE ~ j < 10
      <3>1. j \div 10 \in 0..(j - 1)
        BY <2>3, TenthIsLess
      <3>2. table[j \div 10] = other[j \div 10]
        BY <1>1, <3>1
      <3> QED BY <2>1, <2>3, <3>2 DEF Row
    <2> QED BY <2>2, <2>3
  <1>2. \A j \in Nat : j \in S
    <2> HIDE DEF S
    <2> QED BY <1>1, StrongInduction
  <1> QED BY <1>2

LEMMA DecimalRows ==
  \A i \in Nat : Decimal[i] = Row(Decimal, i)
  <1> DEFINE Body(g) == [i \in Nat |-> Row(g, i)]
             tables == [i \in Nat |-> CHOOSE table \in Tables(i) : TRUE]
             f == [i \in Nat |-> tables[i][i]]
  <1>1. \A i \in Nat : tables[i] \in Tables(i)
    BY TablesExist
  <1>2. ASSUME NEW i \in Nat PROVE f[i] = Row(f, i)
    <2>1. f[i] = Row(tables[i], i)
      <3> HIDE DEF tables
      <3> QED BY <1>1 DEF Tables
    <2>2. CASE i < 10
      BY <2>1, <2>2 DEF Row
    <2>3. CASE ~ i < 10
      <3>1. i \div 10 \in Nat /\ i \div 10 <= i
        BY <2>3, TenthIsLess
      <3> HIDE DEF tables
      <3>2. tables[i][i \div 10] = tables[i \div 10][i \div 10]
        BY <1>1, <3>1, TablesAgree
      <3>3. f[i \div 10] = tables[i \div 10][i \div 10]
        BY <3>1
      <3> HIDE DEF f
      <3> QED BY <2>1, <2>3, <3>2, <3>3 DEF Row
    <2> QED BY <2>2, <2>3
  <1>3. f = Body(f)
    <2>1. f = [i \in Nat |-> f[i]]
      OBVIOUS
    <2> HIDE DEF f
    <2> QED BY <1>2, <2>1
  <1>4. Decimal = CHOOSE g : g = Body(g)
    BY DEF Decimal, Row
  <1>5. Decimal = Body(Decimal)
    <2> HIDE DEF f, Body
    <2> QED BY <1>3, <1>4
  <1> QED BY <1>5

(* What AppendInt writes is read back. *)
LEMMA DecimalIsRead ==
  ASSUME NEW i \in Nat
  PROVE  Decimal[i] \in Seq(DigitSet) /\ Decimal[i] # <<>> /\ NatOf(Decimal[i]) = i
  <1> DEFINE S == {n \in Nat : /\ Decimal[n] \in Seq(DigitSet) /\ Decimal[n] # <<>>
                               /\ NatOf(Decimal[n]) = n}
  <1>1. ASSUME NEW n \in Nat, \A h \in 0..(n - 1) : h \in S PROVE n \in S
    <2>1. Decimal[n] = Row(Decimal, n)
      BY DecimalRows
    <2>2. CASE n < 10
      <3> DEFINE d == Digits[n + 1]
      <3>1. d \in DigitSet /\ DigitOf(d) = n
        BY <2>2, DigitsAreRead
      <3>2. Decimal[n] = <<d>>
        BY <2>1, <2>2 DEF Row
      <3> HIDE DEF d
      <3>3. <<>> \in Seq(DigitSet) /\ <<>> \o <<d>> = <<d>>
        OBVIOUS
      <3>4. NatOf(<<>> \o <<d>>) = 10 * NatOf(<<>>) + DigitOf(d)
        BY <3>1, <3>3, NatOfMore
      <3>5. NatOf(Decimal[n]) = n
        BY <3>1, <3>2, <3>3, <3>4, NatOfEmpty
      <3>6. Decimal[n] \in Seq(DigitSet) /\ Decimal[n] # <<>>
        BY <3>1, <3>2
      <3> QED BY <3>5, <3>6
    <2>3. CASE ~ n < 10
      <3>1. PICK tenth \in 0..(n - 1), last \in 0..9 :
              tenth = n \div 10 /\ last = n % 10 /\ n = 10 * tenth + last
        BY <2>3, TenthIsLess
      <3>2. Digits[last + 1] \in DigitSet /\ DigitOf(Digits[last + 1]) = last
        BY DigitsAreRead
      <3>3. Decimal[n] = Decimal[tenth] \o <<Digits[last + 1]>>
        BY <2>1, <2>3, <3>1 DEF Row
      <3>4. Decimal[tenth] \in Seq(DigitSet) /\ NatOf(Decimal[tenth]) = tenth
        BY <1>1
      <3>5. NatOf(Decimal[tenth] \o <<Digits[last + 1]>>)
              = 10 * NatOf(Decimal[tenth]) + DigitOf(Digits[last + 1])
        BY <3>2, <3>4, NatOfMore
      <3>6. NatOf(Decimal[n]) = n
        BY <3>1, <3>2, <3>3, <3>4, <3>5
      <3>7. Decimal[n] \in Seq(DigitSet) /\ Decimal[n] # <<>>
        BY <3>2, <3>3, <3>4
      <3> QED BY <3>6, <3>7
    <2> QED BY <2>2, <2>3
  <1>2. \A n \in Nat : n \in S
    <2> HIDE DEF S
    <2> QED BY <1>1, StrongInduction
  <1> QED BY <1>2

-----------------------------------------------------------------------------
(***************************************************************************)
(* Marks and exponents in a text.                                          *)
(***************************************************************************)
Symbols == DigitSet \cup {"-", "+", ".", "e"}

LEMMA DigitsAreNoMarks ==
  /\ "0" \in DigitSet /\ \A x \in DigitSet : x \notin {"-", "+", ".", "e"}
  <1>1. DOMAIN Digits = 1..10
    BY DEF Digits
  <1>2. \A i \in 1..10 : Digits[i] \notin {"-", "+", ".", "e"}
    BY DEF Digits
  <1>3. Digits[1] = "0"
    BY DEF Digits
  <1> QED BY <1>1, <1>2, <1>3 DEF DigitSet, Range

LEMMA SignsAreRead ==
  ASSUME NEW digits \in Seq(DigitSet), digits # <<>>
  PROVE  /\ IntOf(digits) = NatOf(digits)
         /\ IntOf(<<"+">> \o digits) = NatOf(digits)
         /\ IntOf(<<"-">> \o digits) = - NatOf(digits)
  <1>1. digits[1] \in DigitSet
    OBVIOUS
  <1>2. digits[1] # "-" /\ digits[1] # "+"
    BY <1>1, DigitsAreNoMarks
  <1>3. IntOf(digits) = NatOf(digits)
    BY <1>2 DEF IntOf
  <1>4. ASSUME NEW mark \in STRING
        PROVE  LET text == <<mark>> \o digits
               IN text # <<>> /\ text[1] = mark /\ Tail(text) = digits
    OBVIOUS
  <1>5. IntOf(<<"+">> \o digits) = NatOf(digits)
    <2> DEFINE text == <<"+">> \o digits
    <2>1. text # <<>> /\ text[1] = "+" /\ Tail(text) = digits
      BY <1>4
    <2> HIDE DEF text
    <2>2. IntOf(text) = NatOf(digits)
      BY <2>1 DEF IntOf
    <2> QED BY <2>2 DEF text
  <1>6. IntOf(<<"-">> \o digits) = - NatOf(digits)
    <2> DEFINE text == <<"-">> \o digits
    <2>1. text # <<>> /\ text[1] = "-" /\ Tail(text) = digits
      BY <1>4
    <2> HIDE DEF text
    <2>2. IntOf(text) = - NatOf(digits)
      BY <2>1 DEF IntOf
    <2> QED BY <2>2 DEF text
  <1> QED BY <1>3, <1>5, <1>6

Signed(n) == (IF n >= 0 THEN <<"+">> ELSE <<>>) \o AppendInt(n)

LEMMA AppendedIntegers ==
  ASSUME NEW n \in Int
  PROVE  AppendInt(n) \in Seq(Symbols) /\ (IF n >= 0 THEN <<"+">> ELSE <<>>) \in Seq(Symbols)
  <1>1. <<"+">> \in Seq(Symbols) /\ <<"-">> \in Seq(Symbols) /\ <<>> \in Seq(Symbols)
    BY DEF Symbols
  <1>2. CASE n >= 0
    <2>1. Decimal[n] \in Seq(DigitSet)
      BY <1>2, DecimalIsRead
    <2> DEFINE d == Decimal[n]
    <2>2. AppendInt(n) = d
      BY <1>2 DEF AppendInt
    <2> HIDE DEF d
    <2>3. d \in Seq(Symbols)
      BY <2>1 DEF d, Symbols
    <2> QED BY <1>1, <1>2, <2>2, <2>3
  <1>3. CASE ~ n >= 0
    <2>1. Decimal[- n] \in Seq(DigitSet)
      BY <1>3, DecimalIsRead
    <2> DEFINE d == Decimal[- n]
    <2>2. AppendInt(n) = <<"-">> \o d
      BY <1>3 DEF AppendInt
    <2>3. d \in Seq(Symbols)
      BY <2>1 DEF Symbols
    <2> HIDE DEF d
    <2> QED BY <1>1, <1>3, <2>2, <2>3
  <1> QED BY <1>2, <1>3

LEMMA ExponentIsRead ==
  ASSUME NEW n \in Int
  PROVE  /\ Signed(n) \in Seq(Symbols) /\ Signed(n) # <<>> /\ IntOf(Signed(n)) = n
         /\ \A i \in 1..Len(Signed(n)) : Signed(n)[i] # "e"
  <1>1. CASE n >= 0
    <2>1. /\ Decimal[n] \in Seq(DigitSet) /\ Decimal[n] # <<>> /\ NatOf(Decimal[n]) = n
      BY <1>1, DecimalIsRead
    <2>2. Signed(n) = <<"+">> \o Decimal[n]
      BY <1>1 DEF Signed, AppendInt
    <2> DEFINE d == Decimal[n]
    <2> HIDE DEF d
    <2>3. \A i \in 1..Len(d) : d[i] # "e"
      BY <2>1, DigitsAreNoMarks DEF d
    <2> QED BY <2>1, <2>2, <2>3, SignsAreRead DEF Symbols, d
  <1>2. CASE ~ n >= 0
    <2>1. /\ Decimal[- n] \in Seq(DigitSet) /\ Decimal[- n] # <<>> /\ NatOf(Decimal[- n]) = - n
      BY <1>2, DecimalIsRead
    <2>2. Signed(n) = <<"-">> \o Decimal[- n]
      BY <1>2 DEF Signed, AppendInt
    <2> DEFINE d == Decimal[- n]
    <2>3. \A i \in 1..Len(d) : d[i] # "e"
      BY <2>1, DigitsAreNoMarks
    <2>4. IntOf(Signed(n)) = - (- n)
      BY <2>1, <2>2, SignsAreRead
    <2> HIDE DEF d
    <2> QED BY <2>1, <2>2, <2>3, <2>4 DEF Symbols, d
  <1> QED BY <1>1, <1>2

LEMMA MinIs ==
  ASSUME NEW S, S \subseteq Int, NEW a \in S, \A x \in S : a <= x
  PROVE  Min(S) = a
  <1>1. Min(S) \in S /\ \A x \in S : Min(S) <= x
    BY DEF Min
  <1>2. Min(S) <= a /\ a <= Min(S) /\ Min(S) \in Int
    BY <1>1
  <1> QED BY <1>2

LEMMA MaxIs ==
  ASSUME NEW S, S \subseteq Int, NEW a \in S, \A x \in S : a >= x
  PROVE  Max(S) = a
  <1>1. Max(S) \in S /\ \A x \in S : Max(S) >= x
    BY DEF Max
  <1>2. Max(S) <= a /\ a <= Max(S) /\ Max(S) \in Int
    BY <1>1
  <1> QED BY <1>2

LEMMA AtFinds ==
  ASSUME NEW text \in Seq(Symbols), NEW symbol, NEW a \in 0..Len(text),
         \A i \in 1..a : text[i] # symbol,
         a = Len(text) \/ text[a + 1] = symbol
  PROVE  At(text, symbol) = a + 1
  <1> DEFINE S == {i \in DOMAIN text : text[i] = symbol} \cup {Len(text) + 1}
  <1>1. S \subseteq Int /\ a + 1 \in S /\ \A x \in S : a + 1 <= x
    OBVIOUS
  <1>2. Min(S) = a + 1
    <2> HIDE DEF S
    <2> QED BY <1>1, MinIs
  <1> QED BY <1>2 DEF At

LEMMA AtDigits ==
  ASSUME NEW w \in Seq(DigitSet), NEW rest \in Seq(Symbols), NEW symbol \in {".", "e"},
         rest = <<>> \/ rest[1] = symbol
  PROVE  At(w \o rest, symbol) = Len(w) + 1
  <1> DEFINE text == w \o rest
             a == Len(w)
  <1>1. w \in Seq(Symbols)
    BY DEF Symbols
  <1>2. \A i \in 1..a : w[i] # symbol
    BY DigitsAreNoMarks
  <1>3. text \in Seq(Symbols) /\ a \in 0..Len(text)
    BY <1>1
  <1>4. \A i \in 1..a : text[i] # symbol
    BY <1>1, <1>2
  <1>5. a = Len(text) \/ text[a + 1] = symbol
    BY <1>1
  <1> HIDE DEF text, a
  <1>6. At(text, symbol) = a + 1
    BY <1>3, <1>4, <1>5, AtFinds
  <1> QED BY <1>6 DEF text, a

-----------------------------------------------------------------------------
(***************************************************************************)
(* The shortest digits of a value survive the zeros around them.           *)
(***************************************************************************)
(* Digits none of which can be left out. *)
IsSignificant(digits) ==
  /\ digits \in Seq(DigitSet) /\ digits # <<>>
  /\ digits[1] # "0" /\ digits[Len(digits)] # "0"

LEMMA ZerosAre ==
  ASSUME NEW n \in Nat
  PROVE  Zeros(n) \in Seq(DigitSet) /\ Len(Zeros(n)) = n /\ \A i \in 1..n : Zeros(n)[i] = "0"
BY DigitsAreNoMarks DEF Zeros

(* Zeros in front and behind do not count. *)
LEMMA PaddedDigits ==
  ASSUME NEW digits, IsSignificant(digits), NEW a \in Nat, NEW b \in Nat
  PROVE  LET text == Zeros(a) \o digits \o Zeros(b) IN
         /\ text \in Seq(DigitSet)
         /\ significant(text) \subseteq Int /\ significant(text) # {}
         /\ Min(significant(text)) = a + 1
         /\ Max(significant(text)) = a + Len(digits)
         /\ SubSeq(text, a + 1, a + Len(digits)) = digits
  <1> DEFINE front == Zeros(a)
             rear == Zeros(b)
             k == Len(digits)
             text == front \o digits \o rear
             S == significant(text)
  <1>1. front \in Seq(DigitSet) /\ rear \in Seq(DigitSet) /\ digits \in Seq(DigitSet)
        /\ Len(front) = a /\ Len(rear) = b /\ k \in Nat \ {0}
    BY ZerosAre DEF IsSignificant
  <1>2. /\ \A i \in 1..a : front[i] = "0"
        /\ \A i \in 1..b : rear[i] = "0"
        /\ digits[1] # "0" /\ digits[k] # "0"
    BY ZerosAre DEF IsSignificant
  <1> HIDE DEF front, rear, k
  <1>3. Len(digits) = k
    BY DEF k
  <1>4. text \in Seq(DigitSet) /\ Len(text) = a + k + b
    BY <1>1, <1>3
  <1>5. \A i \in 1..a : text[i] = "0"
    BY <1>1, <1>2
  <1>6. \A i \in 1..k : text[a + i] = digits[i]
    BY <1>1, <1>3
  <1>7. \A i \in (a + k + 1)..(a + k + b) : text[i] = "0"
    <2> TAKE i \in (a + k + 1)..(a + k + b)
    <2> DEFINE most == front \o digits
    <2>1. most \in Seq(DigitSet) /\ Len(most) = a + k
      BY <1>1, <1>3
    <2>2. PICK j \in 1..b : i = (a + k) + j
      <3>1. i - (a + k) \in 1..b /\ i = (a + k) + (i - (a + k))
        BY <1>1
      <3> QED BY <3>1
    <2>3. text = most \o rear
      OBVIOUS
    <2> HIDE DEF most, text
    <2>4. text[i] = rear[j]
      BY <1>1, <2>1, <2>2, <2>3
    <2> QED BY <1>2, <2>2, <2>4
  <1>8. SubSeq(text, a + 1, a + k) = digits
    <2> DEFINE part == SubSeq(text, a + 1, a + k)
    <2>1. part \in Seq(DigitSet) /\ Len(part) = k
      BY <1>1, <1>4
    <2>2. \A i \in 1..k : part[i] = digits[i]
      <3> TAKE i \in 1..k
      <3>1. part[i] = text[a + i]
        BY <1>1, <1>4
      <3> QED BY <1>6, <3>1
    <2> HIDE DEF part
    <2>3. part = digits
      BY <1>1, <1>3, <2>1, <2>2
    <2> QED BY <2>3 DEF part
  <1>9. S = {i \in 1..(a + k + b) : text[i] # "0"}
    <2> HIDE DEF text
    <2> QED BY <1>4 DEF significant
  <1> HIDE DEF text, S
  <1>10. a + 1 \in S /\ a + k \in S /\ S \subseteq Int
    <2>1. text[a + 1] = digits[1] /\ text[a + k] = digits[k]
      BY <1>1, <1>6
    <2>2. a + 1 \in 1..(a + k + b) /\ a + k \in 1..(a + k + b)
      BY <1>1
    <2> QED BY <1>2, <1>9, <2>1, <2>2
  <1>11. \A i \in S : a + 1 <= i /\ a + k >= i
    <2> SUFFICES ASSUME NEW i \in S PROVE a + 1 <= i /\ a + k >= i
      OBVIOUS
    <2>1. i \in 1..(a + k + b) /\ text[i] # "0"
      BY <1>9
    <2>2. ~ i \in 1..a /\ ~ i \in (a + k + 1)..(a + k + b)
      BY <1>5, <1>7, <2>1
    <2> QED BY <1>1, <2>1, <2>2
  <1>12. Min(S) = a + 1 /\ Max(S) = a + k
    BY <1>10, <1>11, MinIs, MaxIs
  <1> QED BY <1>4, <1>8, <1>10, <1>12 DEF S, text, front, rear, k

NumberOf(neg, digits, n) == [neg |-> neg, digits |-> digits, n |-> n]

IsPadded(whole, fraction, digits, a, b) == whole \o fraction = Zeros(a) \o digits \o Zeros(b)

LEMMA ValueIs ==
  ASSUME NEW digits, IsSignificant(digits), NEW a \in Nat, NEW b \in Nat,
         NEW neg \in BOOLEAN, NEW exponent \in Int, NEW n \in Int,
         NEW whole \in Seq(DigitSet), NEW fraction \in Seq(DigitSet),
         IsPadded(whole, fraction, digits, a, b), n = Len(whole) + exponent - a
  PROVE  Value(neg, whole, fraction, exponent) = NumberOf(neg, digits, n)
  <1> DEFINE text == Zeros(a) \o digits \o Zeros(b)
             k == Len(digits)
             m == Len(whole)
  <1>1. /\ significant(text) # {}
        /\ Min(significant(text)) = a + 1
        /\ Max(significant(text)) = a + k
        /\ SubSeq(text, a + 1, a + k) = digits
    BY PaddedDigits
  <1>2. whole \o fraction = text /\ m \in Int
    BY DEF IsPadded
  <1> HIDE DEF text, k
  <1>3. Value(neg, whole, fraction, exponent)
          = [neg |-> neg, digits |-> digits, n |-> m + exponent - (a + 1) + 1]
    BY <1>1, <1>2 DEF Value
  <1>4. m + exponent - (a + 1) + 1 = m + exponent - a
    BY <1>2
  <1> QED BY <1>3, <1>4 DEF NumberOf

LEMMA ValueIsShort ==
  ASSUME NEW neg \in BOOLEAN, NEW whole \in Seq(DigitSet), NEW fraction \in Seq(DigitSet),
         NEW exponent \in Int
  PROVE  LET value == Value(neg, whole, fraction, exponent) IN
         \/ value = [neg |-> FALSE, digits |-> <<>>, n |-> 0]
         \/ /\ value = NumberOf(value.neg, value.digits, value.n)
            /\ value.neg \in BOOLEAN /\ IsSignificant(value.digits) /\ value.n \in Int
  <1> DEFINE text == whole \o fraction
             S == significant(text)
             L == Len(text)
             first == Min(S)
             last == Max(S)
             short == SubSeq(text, first, last)
  <1>1. text \in Seq(DigitSet) /\ L \in Nat
    OBVIOUS
  <1>2. S = {i \in 1..L : text[i] # "0"}
    <2> HIDE DEF text
    <2> QED BY <1>1 DEF significant
  <1>3. CASE S = {}
    BY <1>3 DEF Value
  <1>4. CASE S # {}
    <2> HIDE DEF text, S, L
    <2>0. S \subseteq Nat
      BY <1>1, <1>2
    <2>1. PICK i \in S : \A j \in S : i <= j
      BY <2>0, <1>4, LeastNumber
    <2>2. PICK j \in S : \A h \in S : j >= h
      <3>1. S \subseteq 0..L
        BY <1>1, <1>2
      <3> QED BY <1>1, <1>4, <3>1, GreatestNumber
    <2>3. S \subseteq Int
      BY <1>1, <1>2
    <2>4. first = i /\ last = j
      BY <2>1, <2>2, <2>3, MinIs, MaxIs
    <2>5. i \in 1..L /\ j \in i..L /\ text[i] # "0" /\ text[j] # "0"
      BY <1>1, <1>2, <2>1, <2>2
    <2>6. IsSignificant(SubSeq(text, i, j))
      BY <1>1, <2>5 DEF IsSignificant, L
    <2>7. Value(neg, whole, fraction, exponent)
            = [neg |-> neg, digits |-> short, n |-> Len(whole) + exponent - first + 1]
      BY <1>4 DEF Value, S, text
    <2>8. Len(whole) + exponent - i + 1 \in Int
      BY <1>1, <2>5
    <2> HIDE DEF first, last
    <2> QED BY <2>4, <2>6, <2>7, <2>8 DEF NumberOf
  <1> QED BY <1>3, <1>4

-----------------------------------------------------------------------------
(***************************************************************************)
(* The parts of a number's text, and what a reader finds in it.            *)
(***************************************************************************)
(* The parts of a number's text. *)
Point(fraction) == IF fraction = <<>> THEN <<>> ELSE <<".">> \o fraction
Power(exponent) == IF exponent = <<>> THEN <<>> ELSE <<"e">> \o exponent

TextOf(sign, whole, fraction, exponent) ==
  (sign \o (whole \o Point(fraction))) \o Power(exponent)

SignOf(neg) == IF neg THEN <<"-">> ELSE <<>>

(* A reader finds in the text the parts it was joined from. *)
LEMMA PartsAreRead ==
  ASSUME NEW neg \in BOOLEAN,
         NEW whole \in Seq(DigitSet), whole # <<>>,
         NEW fraction \in Seq(DigitSet), NEW exponent \in Seq(Symbols)
  PROVE  LET text == TextOf(SignOf(neg), whole, fraction, exponent)
             mantissa == whole \o Point(fraction)
         IN /\ Mantissa(text) = mantissa
            /\ At(mantissa, ".") = Len(whole) + 1
            /\ Contains(mantissa, ".") <=> fraction # <<>>
            /\ Contains(text, "e") <=> exponent # <<>>
            /\ ReadNumber(text) = Value(neg, whole, fraction, IntOf(exponent))
  <1> DEFINE sign == SignOf(neg)
             text == TextOf(sign, whole, fraction, exponent)
             point == Point(fraction)
             mantissa == whole \o point
             head == sign \o mantissa
             power == Power(exponent)
             a == Len(sign)
             k == Len(whole)
             m == Len(mantissa)
  <1>0. /\ sign \in Seq({"-"}) /\ Len(sign) \in 0..1
        /\ neg = (sign = <<"-">>)
    <2>1. CASE neg
      <3>1. sign = <<"-">>
        BY <2>1 DEF SignOf
      <3>2. <<"-">> \in Seq({"-"}) /\ Len(<<"-">>) \in 0..1
        OBVIOUS
      <3> HIDE DEF sign
      <3>3. neg = (sign = <<"-">>)
        BY ONLY <2>1, <3>1, neg \in BOOLEAN
      <3> QED BY <3>1, <3>2, <3>3
    <2>2. CASE ~ neg
      BY <2>2 DEF SignOf
    <2> QED BY <2>1, <2>2
  <1> HIDE DEF sign
  <1>1. /\ point \in Seq(Symbols)
        /\ fraction = <<>> => point = <<>>
        /\ fraction # <<>> => point # <<>> /\ point[1] = "." /\ Len(point) = Len(fraction) + 1
        /\ \A i \in 1..Len(point) : point[i] # "e"
    <2>1. CASE fraction = <<>>
      BY <2>1 DEF Point
    <2>2. CASE fraction # <<>>
      <3>1. \A i \in 1..Len(fraction) : fraction[i] # "e"
        BY DigitsAreNoMarks
      <3>2. fraction \in Seq(Symbols) /\ "." \in Symbols
        BY DEF Symbols
      <3> QED BY <2>2, <3>1, <3>2 DEF Point
    <2> QED BY <2>1, <2>2
  <1>2. whole \in Seq(Symbols) /\ sign \in Seq(Symbols) /\ a \in Nat /\ k \in Nat \ {0}
    <2>1. whole \in Seq(Symbols) /\ k \in Nat \ {0} /\ "-" \in Symbols
      BY DEF Symbols
    <2>2. sign \in Seq(Symbols) /\ a \in Nat
      BY <1>0, <2>1
    <2> QED BY <2>1, <2>2
  <1>3. /\ \A i \in 1..k : whole[i] \notin {"-", "+", ".", "e"}
        /\ \A i \in 1..a : sign[i] = "-"
        /\ sign = <<>> => a = 0
        /\ sign # <<>> => a = 1
        /\ sign = <<"-">> <=> sign # <<>>
    <2>1. \A i \in 1..k : whole[i] \notin {"-", "+", ".", "e"}
      BY DigitsAreNoMarks
    <2>2. \A i \in 1..a : sign[i] = "-"
      BY <1>0
    <2>3. (sign = <<>> => a = 0) /\ (sign # <<>> => a = 1)
      BY <1>0
    <2>4. sign # <<>> => sign = <<"-">>
      BY <1>0, <2>2, <2>3
    <2>5. <<"-">> # <<>>
      OBVIOUS
    <2> HIDE DEF a, k
    <2> QED BY <2>1, <2>2, <2>3, <2>4, <2>5
  <1>4. /\ power \in Seq(Symbols) /\ (power = <<>> <=> exponent = <<>>)
        /\ power # <<>> => power[1] = "e"
    <2>1. "e" \in Symbols
      BY DEF Symbols
    <2> QED BY <2>1 DEF Power
  <1>5. text = head \o power
    BY DEF TextOf
  <1> HIDE DEF text, point, power
  <1>6. mantissa \in Seq(Symbols) /\ m = k + Len(point) /\ \A i \in 1..m : mantissa[i] # "e"
    BY <1>1, <1>2, <1>3
  <1>7. At(mantissa, ".") = k + 1
    BY <1>1, AtDigits
  <1>8. Contains(mantissa, ".") <=> fraction # <<>>
    <2>1. CASE fraction = <<>>
      <3>1. mantissa = whole
        BY <2>1, <1>1
      <3> QED BY <2>1, <3>1, <1>3 DEF Contains
    <2>2. CASE fraction # <<>>
      <3>1. mantissa[k + 1] = "." /\ k + 1 \in 1..m
        BY <2>2, <1>1, <1>2
      <3> QED BY <2>2, <3>1 DEF Contains
    <2> QED BY <2>1, <2>2
  <1>9. mantissa # <<>> /\ mantissa[1] = whole[1]
    BY <1>1, <1>2
  <1> DEFINE afterPoint == SubSeq(mantissa, k + 2, m)
  <1>10. SubSeq(mantissa, 1, k) = whole /\ afterPoint = fraction
    <2>1. SubSeq(mantissa, 1, k) = whole
      BY <1>1, <1>2
    <2>2. CASE fraction = <<>>
      BY <2>2, <1>1, <1>2, <1>6
    <2>3. CASE fraction # <<>>
      <3>1. point = <<".">> \o fraction
        BY <2>3 DEF point, Point
      <3>2. fraction \in Seq(Symbols)
        BY DEF Symbols
      <3>3. afterPoint = fraction
        BY <3>1, <3>2, <1>1, <1>2, <1>6
      <3> QED BY <2>1, <3>3
    <2> QED BY <2>1, <2>2, <2>3
  <1> HIDE DEF afterPoint, mantissa
  <1>11. /\ head \in Seq(Symbols) /\ Len(head) = a + m
         /\ \A i \in 1..a : head[i] = sign[i]
         /\ \A i \in 1..m : head[a + i] = mantissa[i]
         /\ SubSeq(head, a + 1, Len(head)) = mantissa
    <2>0. sign \in Seq(Symbols) /\ mantissa \in Seq(Symbols)
      BY <1>2, <1>6
    <2>1. head \in Seq(Symbols) /\ Len(head) = a + m
      BY ONLY <2>0
    <2>2. \A i \in 1..a : head[i] = sign[i]
      BY ONLY <2>0
    <2>3. \A i \in 1..m : head[a + i] = mantissa[i]
      BY ONLY <2>0
    <2>4. SubSeq(head, a + 1, Len(head)) = mantissa
      BY ONLY <2>0
    <2> QED BY <2>1, <2>2, <2>3, <2>4
  <1>12. \A i \in 1..(a + m) : head[i] # "e"
    <2> TAKE i \in 1..(a + m)
    <2>1. CASE i \in 1..a
      BY <2>1, <1>3, <1>11
    <2>2. CASE i \notin 1..a
      <3>1. PICK j \in 1..m : i = a + j
        <4>1. i - a \in 1..m /\ i = a + (i - a)
          BY <2>2, <1>2, <1>6
        <4> QED BY <4>1
      <3> QED BY <3>1, <1>6, <1>11
    <2> QED BY <2>1, <2>2
  <1> HIDE DEF head
  <1>13. (head[1] = "-" <=> sign = <<"-">>) /\ (IF head[1] = "-" THEN 2 ELSE 1) = a + 1
    <2>1. CASE sign = <<>>
      <3>1. head[0 + 1] = whole[1] /\ a = 0
        BY <2>1, <1>2, <1>3, <1>6, <1>9, <1>11
      <3> QED BY <2>1, <3>1, <1>2, <1>3
    <2>2. CASE sign # <<>>
      <3>1. a = 1 /\ 1 \in 1..a /\ sign = <<"-">>
        BY <2>2, <1>3
      <3>2. head[1] = "-"
        <4> HIDE DEF a
        <4> QED BY <3>1, <1>3, <1>11
      <3> HIDE DEF a
      <3> QED BY <3>1, <3>2
    <2> QED BY <2>1, <2>2
  <1> DEFINE c == a + m
             p == Len(power)
  <1>14. /\ text \in Seq(Symbols) /\ Len(text) = c + p /\ c \in Nat /\ p \in Nat
         /\ Len(head) = c
         /\ \A i \in 1..c : text[i] = head[i]
         /\ \A i \in 1..p : text[c + i] = power[i]
         /\ \A b \in 1..(c + 1) : SubSeq(text, b, c) = SubSeq(head, b, c)
         /\ SubSeq(text, c + 1, Len(text)) = power
    <2>1. Len(head) = c /\ c \in Nat
      BY <1>2, <1>6, <1>11
    <2> HIDE DEF c
    <2>0. head \in Seq(Symbols) /\ power \in Seq(Symbols)
      BY <1>4, <1>11
    <2>2. text \in Seq(Symbols) /\ Len(text) = c + p /\ p \in Nat
      <3>1. /\ head \o power \in Seq(Symbols)
            /\ Len(head \o power) = Len(head) + Len(power) /\ Len(power) \in Nat
        BY ONLY <2>0
      <3> QED BY ONLY <3>1, <2>1, <1>5
    <2>3. \A i \in 1..c : text[i] = head[i]
      BY ONLY <2>0, <2>1, <1>5
    <2>4. \A i \in 1..p : text[c + i] = power[i]
      <3> TAKE i \in 1..p
      <3>1. (head \o power)[Len(head) + i] = power[i]
        BY ONLY <2>0, i \in 1..p
      <3> QED BY <2>1, <3>1, <1>5
    <2>5. \A b \in 1..(c + 1) : SubSeq(text, b, c) = SubSeq(head, b, c)
      BY ONLY <2>0, <2>1, <1>5
    <2>6. SubSeq(text, c + 1, Len(text)) = power
      BY ONLY <2>0, <2>1, <1>5
    <2> QED BY <2>1, <2>2, <2>3, <2>4, <2>5, <2>6
  <1> HIDE DEF c, p
  <1>15. /\ c \in 0..Len(text)
         /\ exponent # <<>> => text[c + 1] = "e" /\ c + 1 \in 1..Len(text)
         /\ exponent = <<>> => Len(text) = c
    <2>1. exponent # <<>> => p >= 1
      BY <1>4 DEF p
    <2>2. exponent = <<>> => p = 0
      BY <1>4 DEF p
    <2> QED BY <2>1, <2>2, <1>4, <1>14
  <1>16. At(text, "e") = c + 1
    <2>1. c = Len(text) \/ text[c + 1] = "e"
      BY <1>15
    <2>2. \A i \in 1..c : text[i] # "e"
      BY <1>12, <1>14 DEF c
    <2>3. text \in Seq(Symbols) /\ c \in 0..Len(text)
      BY <1>14, <1>15
    <2> QED BY ONLY <2>1, <2>2, <2>3, AtFinds
  <1>17. text[1] = head[1]
    <2>1. 1 \in 1..c
      BY <1>2, <1>6, <1>9 DEF c
    <2> QED BY <2>1, <1>14
  <1>18. Mantissa(text) = mantissa
    <2>1. Mantissa(text) = SubSeq(text, a + 1, (c + 1) - 1)
      BY <1>13, <1>16, <1>17 DEF Mantissa
    <2>2. (c + 1) - 1 = c /\ a + 1 \in 1..(c + 1)
      BY <1>2, <1>6, <1>14 DEF c
    <2>3. SubSeq(text, a + 1, c) = SubSeq(head, a + 1, c)
      <3> DEFINE b == a + 1
      <3> HIDE DEF b
      <3>1. SubSeq(text, b, c) = SubSeq(head, b, c)
        BY <1>14, <2>2 DEF b
      <3> QED BY <3>1 DEF b
    <2> QED BY <2>1, <2>2, <2>3, <1>11, <1>14
  <1>19. Contains(text, "e") <=> exponent # <<>>
    <2>1. CASE exponent = <<>>
      <3>1. \A i \in 1..Len(text) : text[i] # "e"
        BY <2>1, <1>12, <1>14, <1>15 DEF c
      <3> QED BY <2>1, <3>1 DEF Contains
    <2>2. CASE exponent # <<>>
      BY <2>2, <1>15 DEF Contains
    <2> QED BY <2>1, <2>2
  <1>20. SubSeq(text, c + 1 + 1, Len(text)) = exponent
    <2>1. CASE exponent = <<>>
      BY <2>1, <1>14, <1>15
    <2>2. CASE exponent # <<>>
      <3>1. power = <<"e">> \o exponent
        BY <2>2 DEF power, Power
      <3>2. p = 1 + Len(exponent) /\ \A i \in 1..Len(exponent) : power[1 + i] = exponent[i]
        BY <3>1 DEF p
      <3>3. \A i \in 1..Len(exponent) : text[c + (1 + i)] = exponent[i]
        <4>1. \A i \in 1..Len(exponent) : 1 + i \in 1..p
          BY <3>2
        <4> QED BY <3>2, <4>1, <1>14
      <3>4. SubSeq(text, c + 1 + 1, Len(text)) = exponent
        BY <3>2, <3>3, <1>14
      <3> QED BY <3>4
    <2> QED BY <2>1, <2>2
  <1>21. ReadNumber(text) = Value(sign = <<"-">>, whole, fraction, IntOf(exponent))
    <2>1. (k + 1) - 1 = k /\ (k + 1) + 1 = k + 2
      BY <1>2
    <2>2. SubSeq(mantissa, 1, (k + 1) - 1) = whole /\ SubSeq(mantissa, (k + 1) + 1, m) = fraction
      BY <1>10, <2>1 DEF afterPoint
    <2>3. (text[1] = "-") = (sign = <<"-">>)
      BY <1>13, <1>17
    <2>4. SubSeq(text, (c + 1) + 1, Len(text)) = exponent
      BY <1>20
    <2> HIDE DEF k
    <2>5. ReadNumber(text)
            = Value(text[1] = "-", SubSeq(mantissa, 1, (k + 1) - 1),
                    SubSeq(mantissa, (k + 1) + 1, m),
                    IntOf(SubSeq(text, (c + 1) + 1, Len(text))))
      BY <1>7, <1>16, <1>18 DEF ReadNumber, k
    <2> QED BY <2>2, <2>3, <2>4, <2>5
  <1>22. ReadNumber(text) = Value(neg, whole, fraction, IntOf(exponent))
    BY <1>0, <1>21
  <1> QED BY <1>7, <1>8, <1>18, <1>19, <1>22 DEF text, mantissa, point, sign

(* What the parts of the shortest text of digits x 10^n have to be. *)
ArePartsOf(digits, n, whole, fraction, exponent) ==
  /\ whole \in Seq(DigitSet) /\ whole # <<>>
  /\ fraction \in Seq(DigitSet) /\ exponent \in Seq(Symbols)
  /\ whole[1] = "0" => Len(whole) = 1
  /\ fraction # <<>> => fraction[Len(fraction)] # "0"
  /\ exponent # <<>> <=> n \notin -5..21
  /\ exponent # <<>> => Len(whole) = 1

IsTextOf(text, neg, digits, n) ==
  /\ ReadNumber(text) = NumberOf(neg, digits, n)
  /\ IsShortest(text, NumberOf(neg, digits, n))

(* The right parts make the shortest text. *)
LEMMA PartsAreShortest ==
  ASSUME NEW neg \in BOOLEAN, NEW digits, NEW n \in Int,
         NEW whole, NEW fraction, NEW exponent,
         ArePartsOf(digits, n, whole, fraction, exponent),
         Value(neg, whole, fraction, IntOf(exponent)) = NumberOf(neg, digits, n)
  PROVE  IsTextOf(TextOf(SignOf(neg), whole, fraction, exponent), neg, digits, n)
  <1>0. /\ whole \in Seq(DigitSet) /\ whole # <<>>
        /\ fraction \in Seq(DigitSet) /\ exponent \in Seq(Symbols)
    BY DEF ArePartsOf
  <1>a. whole[1] = "0" => Len(whole) = 1
    BY DEF ArePartsOf
  <1>b. fraction # <<>> => fraction[Len(fraction)] # "0"
    BY DEF ArePartsOf
  <1>c. (exponent # <<>> <=> n \notin -5..21) /\ (exponent # <<>> => Len(whole) = 1)
    BY DEF ArePartsOf
  <1> DEFINE sign == SignOf(neg)
             text == TextOf(sign, whole, fraction, exponent)
             value == NumberOf(neg, digits, n)
             point == Point(fraction)
             mantissa == whole \o point
  <1>2. /\ Mantissa(text) = mantissa
        /\ At(mantissa, ".") = Len(whole) + 1
        /\ Contains(mantissa, ".") <=> fraction # <<>>
        /\ Contains(text, "e") <=> exponent # <<>>
        /\ ReadNumber(text) = Value(neg, whole, fraction, IntOf(exponent))
    BY <1>0, PartsAreRead
  <1> HIDE DEF text
  <1>3. ReadNumber(text) = value
    BY <1>2
  <1>4. mantissa[1] = "0" => Len(mantissa) = 1 \/ mantissa[2] = "."
    <2>1. CASE fraction = <<>>
      <3>1. mantissa = whole
        BY <2>1, <1>0 DEF Point
      <3> HIDE DEF mantissa
      <3> QED BY <3>1, <1>a
    <2>2. CASE fraction # <<>>
      <3>1. point = <<".">> \o fraction
        BY <2>2 DEF Point
      <3>2. "." \in Symbols /\ whole \in Seq(Symbols) /\ fraction \in Seq(Symbols)
        BY <1>0 DEF Symbols
      <3> HIDE DEF point
      <3>3. mantissa[1] = whole[1] /\ mantissa[Len(whole) + 1] = "."
        BY <3>1, <3>2, <1>0
      <3> HIDE DEF mantissa
      <3>4. SUFFICES ASSUME mantissa[1] = "0" PROVE mantissa[2] = "."
        OBVIOUS
      <3>5. Len(whole) = 1
        BY <1>a, <3>3, <3>4
      <3>6. Len(whole) + 1 = 2
        BY <3>5
      <3> QED BY <3>3, <3>6
    <2> QED BY <2>1, <2>2
  <1>5. Contains(mantissa, ".") => Last(mantissa) \notin {"0", "."}
    <2> SUFFICES ASSUME fraction # <<>> PROVE Last(mantissa) \notin {"0", "."}
      BY <1>2
    <2>1. point = <<".">> \o fraction
      BY DEF Point
    <2>2. "." \in Symbols /\ whole \in Seq(Symbols) /\ fraction \in Seq(Symbols)
      BY <1>0 DEF Symbols
    <2> HIDE DEF point
    <2>3. point \in Seq(Symbols) /\ point # <<>> /\ point[Len(point)] = fraction[Len(fraction)]
      BY <2>1, <2>2
    <2>4. mantissa[Len(mantissa)] = point[Len(point)]
      BY <2>2, <2>3
    <2>5. fraction[Len(fraction)] \in DigitSet
      BY <1>0
    <2>6. fraction[Len(fraction)] # "."
      BY <2>5, DigitsAreNoMarks
    <2> QED BY <2>3, <2>4, <2>6, <1>b DEF Last
  <1>6. Contains(text, "e") <=> value.n \notin -5..21
    <2>1. value.n = n
      BY DEF NumberOf
    <2> HIDE DEF value
    <2> QED BY <1>2, <1>c, <2>1
  <1>7. Contains(text, "e") => At(mantissa, ".") = 2
    <2> SUFFICES ASSUME Contains(text, "e") PROVE At(mantissa, ".") = 2
      OBVIOUS
    <2>1. Len(whole) = 1
      BY <1>2, <1>c
    <2>2. Len(whole) + 1 = 2
      BY <2>1
    <2> QED BY <1>2, <2>2
  <1>8. IsShortest(text, value)
    <2> HIDE DEF mantissa, value
    <2> QED BY <1>2, <1>4, <1>5, <1>6, <1>7 DEF IsShortest
  <1> QED BY <1>3, <1>8 DEF text, sign, IsTextOf

LEMMA NothingIsZero == IntOf(<<>>) = 0
BY DEF IntOf

(* Without an exponent. *)
LEMMA PlainNumber ==
  ASSUME NEW neg \in BOOLEAN, NEW digits, IsSignificant(digits), NEW n \in Int,
         NEW whole, NEW fraction, NEW a \in Nat, NEW b \in Nat,
         ArePartsOf(digits, n, whole, fraction, <<>>),
         IsPadded(whole, fraction, digits, a, b), n = Len(whole) - a
  PROVE  IsTextOf(TextOf(SignOf(neg), whole, fraction, <<>>), neg, digits, n)
  <1>1. PICK zero \in Int : zero = IntOf(<<>>) /\ zero = 0
    BY NothingIsZero
  <1>2. whole \in Seq(DigitSet) /\ fraction \in Seq(DigitSet)
    BY DEF ArePartsOf
  <1>3. n = Len(whole) + zero - a
    BY <1>1, <1>2
  <1>4. Value(neg, whole, fraction, zero) = NumberOf(neg, digits, n)
    BY <1>2, <1>3, ValueIs
  <1>5. Value(neg, whole, fraction, IntOf(<<>>)) = NumberOf(neg, digits, n)
    BY <1>1, <1>4
  <1> QED BY <1>5, PartsAreShortest

LEMMA LayoutCases ==
  ASSUME NEW digits, NEW k \in Nat \ {0}, k = Len(digits), NEW n \in Int
  PROVE  /\ k <= n /\ n <= 21 => Layout(digits, n) = digits \o Zeros(n - k)
         /\ k > n /\ 0 < n /\ n <= 21 =>
              Layout(digits, n) = (SubSeq(digits, 1, n) \o <<".">>) \o SubSeq(digits, n + 1, k)
         /\ -6 < n /\ n <= 0 => Layout(digits, n) = (<<"0", ".">> \o Zeros(- n)) \o digits
         /\ n \notin -5..21 => Layout(digits, n) = Scientific(digits, n)
  <1> DEFINE first  == digits \o Zeros(n - k)
             second == (SubSeq(digits, 1, n) \o <<".">>) \o SubSeq(digits, n + 1, k)
             third  == (<<"0", ".">> \o Zeros(- n)) \o digits
             fourth == Scientific(digits, n)
  <1>1. Layout(digits, n) =
          CASE k <= n /\ n <= 21 -> first
            [] k > n /\ 0 < n /\ n <= 21 -> second
            [] -6 < n /\ n <= 0 -> third
            [] OTHER -> fourth
    BY DEF Layout
  <1> HIDE DEF first, second, third, fourth
  <1>2. k <= n /\ n <= 21 => Layout(digits, n) = first
    BY <1>1
  <1>3. k > n /\ 0 < n /\ n <= 21 => Layout(digits, n) = second
    BY <1>1
  <1>4. -6 < n /\ n <= 0 => Layout(digits, n) = third
    BY <1>1
  <1>5. n \notin -5..21 => Layout(digits, n) = fourth
    <2> SUFFICES ASSUME n \notin -5..21 PROVE Layout(digits, n) = fourth
      OBVIOUS
    <2>1. n <= -6 \/ n >= 22
      OBVIOUS
    <2>2. /\ ~ (k <= n /\ n <= 21) /\ ~ (k > n /\ 0 < n /\ n <= 21) /\ ~ (-6 < n /\ n <= 0)
      BY <2>1
    <2> QED BY <1>1, <2>2, Zenon
  <1> QED BY <1>2, <1>3, <1>4, <1>5 DEF first, second, third, fourth

(* Joining texts associates. *)
Associate(a, b, c) == (a \o b) \o c = a \o (b \o c)

LEMMA JoinsAssociate ==
  ASSUME NEW a \in Seq(Symbols), NEW b \in Seq(Symbols), NEW c \in Seq(Symbols)
  PROVE  Associate(a, b, c)
BY DEF Associate

(* A text in parts, joined in the order the code appends them. *)
LEMMA PartsJoined ==
  ASSUME NEW sign \in Seq(Symbols), NEW whole \in Seq(DigitSet),
         NEW fraction \in Seq(DigitSet)
  PROVE  /\ TextOf(sign, whole, <<>>, <<>>) = sign \o whole
         /\ fraction # <<>> =>
              TextOf(sign, whole, fraction, <<>>) = sign \o ((whole \o <<".">>) \o fraction)
  <1>1. whole \in Seq(Symbols) /\ fraction \in Seq(Symbols) /\ <<".">> \in Seq(Symbols)
    BY DEF Symbols
  <1>2. TextOf(sign, whole, <<>>, <<>>) = sign \o whole
    BY <1>1 DEF TextOf, Point, Power
  <1>3. ASSUME fraction # <<>>
        PROVE  TextOf(sign, whole, fraction, <<>>) = sign \o ((whole \o <<".">>) \o fraction)
    <2>1. TextOf(sign, whole, fraction, <<>>) = (sign \o (whole \o (<<".">> \o fraction))) \o <<>>
      BY <1>3 DEF TextOf, Point, Power
    <2>2. PICK dot \in Seq(Symbols) : dot = <<".">>
      BY <1>1
    <2>3. (sign \o (whole \o (dot \o fraction))) \o <<>> = sign \o (whole \o (dot \o fraction))
      BY <1>1
    <2>4. whole \o (dot \o fraction) = (whole \o dot) \o fraction
      <3>1. whole \in Seq(Symbols) /\ dot \in Seq(Symbols) /\ fraction \in Seq(Symbols)
        BY <1>1
      <3>2. Associate(whole, dot, fraction)
        BY ONLY <3>1, JoinsAssociate
      <3> QED BY ONLY <3>2 DEF Associate
    <2> QED BY <2>1, <2>2, <2>3, <2>4
  <1> QED BY <1>2, <1>3

LEMMA PowerJoined ==
  ASSUME NEW sign \in Seq(Symbols), NEW whole \in Seq(DigitSet),
         NEW fraction \in Seq(DigitSet), NEW exponent \in Seq(Symbols), exponent # <<>>
  PROVE  TextOf(sign, whole, fraction, exponent)
           = sign \o (((whole \o Point(fraction)) \o <<"e">>) \o exponent)
  <1>1. /\ whole \in Seq(Symbols) /\ fraction \in Seq(Symbols)
        /\ <<".">> \in Seq(Symbols) /\ <<"e">> \in Seq(Symbols)
    BY DEF Symbols
  <1>2. PICK point \in Seq(Symbols) : point = Point(fraction)
    <2>1. <<".">> \o fraction \in Seq(Symbols) /\ <<>> \in Seq(Symbols)
      BY <1>1
    <2>2. Point(fraction) \in Seq(Symbols)
      BY <2>1 DEF Point
    <2> QED BY <2>2
  <1>3. PICK mark \in Seq(Symbols) : mark = <<"e">>
    <2>1. <<"e">> \in Seq(Symbols)
      BY DEF Symbols
    <2> QED BY <2>1
  <1>4. TextOf(sign, whole, fraction, exponent) = (sign \o (whole \o point)) \o (mark \o exponent)
    <2>1. Power(exponent) = mark \o exponent
      BY <1>3 DEF Power
    <2> QED BY <1>2, <2>1 DEF TextOf
  <1>5. (sign \o (whole \o point)) \o (mark \o exponent)
          = sign \o (((whole \o point) \o mark) \o exponent)
    <2>1. PICK first \in Seq(Symbols) : first = whole \o point
      <3>1. whole \o point \in Seq(Symbols)
        BY <1>1
      <3> QED BY <3>1
    <2>2. PICK rest \in Seq(Symbols) : rest = mark \o exponent
      <3>1. mark \o exponent \in Seq(Symbols)
        OBVIOUS
      <3> QED BY <3>1
    <2>3. (sign \o first) \o rest = sign \o (first \o rest)
      <3>1. sign \in Seq(Symbols) /\ first \in Seq(Symbols) /\ rest \in Seq(Symbols)
        OBVIOUS
      <3>2. Associate(sign, first, rest)
        BY ONLY <3>1, JoinsAssociate
      <3> QED BY ONLY <3>2 DEF Associate
    <2>4. first \o rest = (first \o mark) \o exponent
      <3>1. first \in Seq(Symbols) /\ mark \in Seq(Symbols) /\ exponent \in Seq(Symbols)
        OBVIOUS
      <3>2. Associate(first, mark, exponent)
        BY ONLY <3>1, JoinsAssociate
      <3> QED BY ONLY <2>2, <3>2 DEF Associate
    <2> QED BY <2>1, <2>2, <2>3, <2>4
  <1> QED BY <1>2, <1>3, <1>4, <1>5

LEMMA SignsAreSymbols ==
  ASSUME NEW neg \in BOOLEAN
  PROVE  SignOf(neg) \in Seq(Symbols)
  <1>1. <<>> \in Seq(Symbols) /\ <<"-">> \in Seq(Symbols)
    BY DEF Symbols
  <1>2. SignOf(neg) = <<>> \/ SignOf(neg) = <<"-">>
    BY DEF SignOf
  <1> QED BY <1>1, <1>2

-----------------------------------------------------------------------------
(***************************************************************************)
(* The layouts, one by one.                                                *)
(***************************************************************************)
LEMMA LongNumbers ==
  ASSUME NEW neg \in BOOLEAN, NEW digits, IsSignificant(digits), NEW n \in Int,
         NEW k \in Nat \ {0}, k = Len(digits), k <= n, n <= 21
  PROVE  IsTextOf(SignOf(neg) \o Layout(digits, n), neg, digits, n)
  <1>1. PICK b \in Nat : b = n - k
    OBVIOUS
  <1>2. PICK zeros \in Seq(DigitSet) : zeros = Zeros(b) /\ Len(zeros) = b
    BY ZerosAre
  <1>3. digits \in Seq(DigitSet) /\ digits # <<>> /\ digits[1] # "0"
    BY DEF IsSignificant
  <1>4. PICK whole \in Seq(DigitSet) : whole = digits \o zeros
    <2>1. digits \o zeros \in Seq(DigitSet)
      BY <1>2, <1>3
    <2> QED BY <2>1
  <1>5. whole # <<>> /\ Len(whole) = n /\ whole[1] = digits[1]
    BY <1>1, <1>2, <1>3, <1>4
  <1>6. <<>> \in Seq(DigitSet) /\ <<>> \in Seq(Symbols) /\ n \in -5..21
    OBVIOUS
  <1>7. ArePartsOf(digits, n, whole, <<>>, <<>>)
    BY <1>3, <1>5, <1>6 DEF ArePartsOf
  <1>8. whole \o <<>> = Zeros(0) \o digits \o zeros
    BY <1>2, <1>3, <1>4 DEF Zeros
  <1>9. IsPadded(whole, <<>>, digits, 0, b)
    BY <1>2, <1>8 DEF IsPadded
  <1>10. PICK a \in Nat : a = 0 /\ n = Len(whole) - a
    BY <1>5
  <1>11. IsTextOf(TextOf(SignOf(neg), whole, <<>>, <<>>), neg, digits, n)
    BY <1>7, <1>9, <1>10, PlainNumber
  <1>12. SignOf(neg) \in Seq(Symbols)
    BY SignsAreSymbols
  <1>13. TextOf(SignOf(neg), whole, <<>>, <<>>) = SignOf(neg) \o whole
    BY <1>6, <1>12, PartsJoined
  <1>14. Layout(digits, n) = whole
    <2>1. Layout(digits, n) = digits \o Zeros(n - k)
      <3>1. k \in Nat \ {0} /\ k = Len(digits) /\ n \in Int /\ k <= n /\ n <= 21
        OBVIOUS
      <3> QED BY ONLY <3>1, LayoutCases
    <2> QED BY <1>1, <1>2, <1>4, <2>1
  <1> QED BY <1>11, <1>13, <1>14

LEMMA CutInTwo ==
  ASSUME NEW S, NEW s \in Seq(S), NEW n \in 1..Len(s)
  PROVE  /\ SubSeq(s, 1, n) \in Seq(S) /\ SubSeq(s, n + 1, Len(s)) \in Seq(S)
         /\ SubSeq(s, 1, n) \o SubSeq(s, n + 1, Len(s)) = s
  <1>1. PICK front \in Seq(S) : /\ front = SubSeq(s, 1, n) /\ Len(front) = n
                               /\ \A i \in 1..n : front[i] = s[i]
    <2>1. /\ SubSeq(s, 1, n) \in Seq(S) /\ Len(SubSeq(s, 1, n)) = n
          /\ \A i \in 1..n : SubSeq(s, 1, n)[i] = s[i]
      OBVIOUS
    <2> QED BY <2>1
  <1>2. PICK rear \in Seq(S) : /\ rear = SubSeq(s, n + 1, Len(s)) /\ Len(rear) = Len(s) - n
                              /\ \A i \in 1..(Len(s) - n) : rear[i] = s[n + i]
    <2>1. /\ SubSeq(s, n + 1, Len(s)) \in Seq(S) /\ Len(SubSeq(s, n + 1, Len(s))) = Len(s) - n
          /\ \A i \in 1..(Len(s) - n) : SubSeq(s, n + 1, Len(s))[i] = s[n + i]
      OBVIOUS
    <2> QED BY <2>1
  <1>3. front \o rear = s
    BY <1>1, <1>2
  <1> QED BY <1>1, <1>2, <1>3

LEMMA PointedNumbers ==
  ASSUME NEW neg \in BOOLEAN, NEW digits, IsSignificant(digits), NEW n \in Int,
         NEW k \in Nat \ {0}, k = Len(digits), k > n, 0 < n, n <= 21
  PROVE  IsTextOf(SignOf(neg) \o Layout(digits, n), neg, digits, n)
  <1>1. digits \in Seq(DigitSet) /\ digits # <<>> /\ digits[1] # "0" /\ digits[k] # "0"
    BY DEF IsSignificant
  <1>2. PICK whole \in Seq(DigitSet) : whole = SubSeq(digits, 1, n)
    <2>1. SubSeq(digits, 1, n) \in Seq(DigitSet)
      BY <1>1
    <2> QED BY <2>1
  <1>3. PICK fraction \in Seq(DigitSet) : fraction = SubSeq(digits, n + 1, k)
    <2>1. SubSeq(digits, n + 1, k) \in Seq(DigitSet)
      BY <1>1
    <2> QED BY <2>1
  <1>4. whole # <<>> /\ Len(whole) = n /\ whole[1] = digits[1]
    BY <1>1, <1>2
  <1>5. fraction # <<>> /\ Len(fraction) = k - n /\ fraction[k - n] = digits[k]
    <2>1. PICK m \in Nat \ {0} : m = k - n /\ n + m = k
      <3>1. k - n \in Nat \ {0} /\ n + (k - n) = k
        OBVIOUS
      <3> QED BY <3>1
    <2>2. Len(fraction) = m
      BY <1>1, <1>3, <2>1
    <2>3. fraction[m] = digits[n + m]
      BY <1>1, <1>3, <2>1
    <2> QED BY <2>1, <2>2, <2>3
  <1>6. <<>> \in Seq(Symbols) /\ n \in -5..21
    OBVIOUS
  <1>7. ArePartsOf(digits, n, whole, fraction, <<>>)
    BY <1>1, <1>4, <1>5, <1>6 DEF ArePartsOf
  <1>8. whole \o fraction = digits
    <2>1. n \in 1..Len(digits)
      OBVIOUS
    <2> QED BY <1>1, <1>2, <1>3, <2>1, CutInTwo
  <1>9. digits = Zeros(0) \o digits \o Zeros(0)
    BY <1>1 DEF Zeros
  <1>10. IsPadded(whole, fraction, digits, 0, 0)
    BY ONLY <1>8, <1>9 DEF IsPadded
  <1>11. PICK a \in Nat : a = 0 /\ n = Len(whole) - a
    BY <1>4
  <1>12. IsTextOf(TextOf(SignOf(neg), whole, fraction, <<>>), neg, digits, n)
    BY <1>7, <1>10, <1>11, PlainNumber
  <1>13. SignOf(neg) \in Seq(Symbols)
    BY SignsAreSymbols
  <1>14. TextOf(SignOf(neg), whole, fraction, <<>>)
           = SignOf(neg) \o ((whole \o <<".">>) \o fraction)
    BY <1>5, <1>6, <1>13, PartsJoined
  <1>15. Layout(digits, n) = (whole \o <<".">>) \o fraction
    BY <1>2, <1>3, LayoutCases
  <1> QED BY <1>12, <1>14, <1>15

LEMMA SmallNumbers ==
  ASSUME NEW neg \in BOOLEAN, NEW digits, IsSignificant(digits), NEW n \in Int, -6 < n, n <= 0
  PROVE  IsTextOf(SignOf(neg) \o Layout(digits, n), neg, digits, n)
  <1>1. PICK k \in Nat \ {0} : k = Len(digits) /\ digits[k] # "0"
    BY DEF IsSignificant
  <1>2. digits \in Seq(DigitSet) /\ digits # <<>>
    BY DEF IsSignificant
  <1>3. PICK m \in Nat : m = - n
    OBVIOUS
  <1>4. PICK zeros \in Seq(DigitSet) : zeros = Zeros(m) /\ Len(zeros) = m
    BY ZerosAre
  <1>5. PICK whole \in Seq(DigitSet) : whole = <<"0">>
    <2>1. <<"0">> \in Seq(DigitSet)
      BY DigitsAreNoMarks
    <2> QED BY <2>1
  <1>6. PICK fraction \in Seq(DigitSet) : fraction = zeros \o digits
    <2>1. zeros \o digits \in Seq(DigitSet)
      BY <1>2
    <2> QED BY <2>1
  <1>7. whole # <<>> /\ Len(whole) = 1
    BY <1>5
  <1>8. fraction # <<>> /\ fraction[Len(fraction)] = digits[k]
    BY <1>1, <1>2, <1>4, <1>6
  <1>9. <<>> \in Seq(Symbols) /\ n \in -5..21
    OBVIOUS
  <1>10. ArePartsOf(digits, n, whole, fraction, <<>>)
    BY <1>1, <1>7, <1>8, <1>9 DEF ArePartsOf
  <1>11. Zeros(m + 1) = <<"0">> \o zeros
    BY <1>3, <1>4 DEF Zeros
  <1>12. Zeros(0) = <<>>
    BY DEF Zeros
  <1>13. whole \o (zeros \o digits) = ((whole \o zeros) \o digits) \o <<>>
    BY <1>2
  <1>14. IsPadded(whole, fraction, digits, m + 1, 0)
    BY ONLY <1>5, <1>6, <1>11, <1>12, <1>13 DEF IsPadded
  <1>15. PICK a \in Nat : a = m + 1 /\ n = Len(whole) - a
    BY <1>3, <1>7
  <1>16. IsTextOf(TextOf(SignOf(neg), whole, fraction, <<>>), neg, digits, n)
    BY <1>10, <1>14, <1>15, PlainNumber
  <1>17. SignOf(neg) \in Seq(Symbols)
    BY SignsAreSymbols
  <1>18. TextOf(SignOf(neg), whole, fraction, <<>>)
           = SignOf(neg) \o ((whole \o <<".">>) \o fraction)
    BY <1>8, <1>9, <1>17, PartsJoined
  <1>19. Layout(digits, n) = (<<"0", ".">> \o zeros) \o digits
    BY <1>1, <1>3, <1>4, LayoutCases
  <1>20. (<<"0", ".">> \o zeros) \o digits = (whole \o <<".">>) \o fraction
    <2>1. PICK dot \in Seq(Symbols) : dot = <<".">>
      <3>1. <<".">> \in Seq(Symbols)
        BY DEF Symbols
      <3> QED BY <3>1
    <2>2. <<"0", ".">> = whole \o dot
      BY <1>5, <2>1
    <2>3. whole \in Seq(Symbols) /\ zeros \in Seq(Symbols) /\ digits \in Seq(Symbols)
      BY <1>2 DEF Symbols
    <2>4. ((whole \o dot) \o zeros) \o digits = (whole \o dot) \o (zeros \o digits)
      BY <2>3
    <2> QED BY <1>6, <2>1, <2>2, <2>4
  <1> QED BY <1>16, <1>18, <1>19, <1>20

LEMMA ScientificNumbers ==
  ASSUME NEW neg \in BOOLEAN, NEW digits, IsSignificant(digits), NEW n \in Int, n \notin -5..21
  PROVE  IsTextOf(SignOf(neg) \o Layout(digits, n), neg, digits, n)
  <1>1. PICK k \in Nat \ {0} : k = Len(digits) /\ digits[k] # "0" /\ digits[1] # "0"
    BY DEF IsSignificant
  <1>2. digits \in Seq(DigitSet) /\ digits # <<>>
    BY DEF IsSignificant
  <1>3. PICK e \in Int : e = n - 1
    OBVIOUS
  <1>4. PICK exponent \in Seq(Symbols) :
          exponent = Signed(e) /\ exponent # <<>> /\ IntOf(exponent) = e
    BY ExponentIsRead
  <1>5. PICK whole \in Seq(DigitSet) : whole = <<digits[1]>>
    <2>1. <<digits[1]>> \in Seq(DigitSet)
      BY <1>2
    <2> QED BY <2>1
  <1>6. PICK fraction \in Seq(DigitSet) : fraction = Tail(digits)
    <2>1. Tail(digits) \in Seq(DigitSet)
      BY <1>2
    <2> QED BY <2>1
  <1>7. whole # <<>> /\ Len(whole) = 1 /\ whole[1] # "0"
    BY <1>1, <1>5
  <1>8. (fraction # <<>> <=> k > 1) /\ (fraction # <<>> => fraction[Len(fraction)] # "0")
    <2>1. Len(fraction) = k - 1 /\ \A i \in 1..(k - 1) : fraction[i] = digits[i + 1]
      BY <1>1, <1>2, <1>6
    <2>2. fraction # <<>> <=> k > 1
      BY <1>1, <2>1
    <2>3. ASSUME fraction # <<>> PROVE fraction[Len(fraction)] # "0"
      <3>1. k - 1 \in 1..(k - 1) /\ (k - 1) + 1 = k
        BY <2>2, <2>3
      <3>2. fraction[k - 1] = digits[(k - 1) + 1]
        BY <2>1, <3>1
      <3> QED BY <1>1, <2>1, <3>1, <3>2
    <2> QED BY <2>2, <2>3
  <1>9. ArePartsOf(digits, n, whole, fraction, exponent)
    BY <1>4, <1>7, <1>8 DEF ArePartsOf
  <1>10. whole \o fraction = digits
    BY <1>2, <1>5, <1>6
  <1>11. digits = Zeros(0) \o digits \o Zeros(0)
    BY <1>2 DEF Zeros
  <1>12. IsPadded(whole, fraction, digits, 0, 0)
    BY ONLY <1>10, <1>11 DEF IsPadded
  <1>13. PICK a \in Nat : a = 0
    OBVIOUS
  <1>14. Value(neg, whole, fraction, IntOf(exponent)) = NumberOf(neg, digits, n)
    <2>1. IsPadded(whole, fraction, digits, a, a)
      BY ONLY <1>12, <1>13
    <2>2. n = Len(whole) + e - a
      BY <1>3, <1>7, <1>13
    <2>3. Value(neg, whole, fraction, e) = NumberOf(neg, digits, n)
      BY ONLY IsSignificant(digits), <2>1, <2>2, ValueIs
    <2> QED BY <1>4, <2>3
  <1>15. IsTextOf(TextOf(SignOf(neg), whole, fraction, exponent), neg, digits, n)
    BY <1>9, <1>14, PartsAreShortest
  <1>16. SignOf(neg) \in Seq(Symbols)
    BY SignsAreSymbols
  <1>17. TextOf(SignOf(neg), whole, fraction, exponent)
           = SignOf(neg) \o (((whole \o Point(fraction)) \o <<"e">>) \o exponent)
    <2>1. /\ SignOf(neg) \in Seq(Symbols) /\ whole \in Seq(DigitSet)
          /\ fraction \in Seq(DigitSet) /\ exponent \in Seq(Symbols) /\ exponent # <<>>
      BY <1>4, <1>16
    <2> QED BY ONLY <2>1, PowerJoined
  <1>18. Layout(digits, n) = Scientific(digits, n)
    BY <1>1, LayoutCases
  <1>19. Scientific(digits, n) = ((whole \o Point(fraction)) \o <<"e">>) \o exponent
    <2>1. PICK point \in Seq(Symbols) : point = Point(fraction)
      <3>1. fraction \in Seq(Symbols) /\ "." \in Symbols
        BY DEF Symbols
      <3>2. <<".">> \o fraction \in Seq(Symbols) /\ <<>> \in Seq(Symbols)
        BY <3>1
      <3>3. Point(fraction) \in Seq(Symbols)
        BY <3>2 DEF Point
      <3> QED BY <3>3
    <2>2. PICK mark \in Seq(Symbols) : mark = <<"e">>
      <3>1. <<"e">> \in Seq(Symbols)
        BY DEF Symbols
      <3> QED BY <3>1
    <2> DEFINE plus == IF e >= 0 THEN <<"+">> ELSE <<>>
    <2>3. Scientific(digits, n) = (((whole \o point) \o mark) \o plus) \o AppendInt(e)
      <3>1. point = IF Len(digits) > 1 THEN <<".">> \o Tail(digits) ELSE <<>>
        BY <1>1, <1>6, <1>8, <2>1 DEF Point
      <3> QED BY <1>3, <1>5, <2>2, <3>1 DEF Scientific
    <2>4. exponent = plus \o AppendInt(e)
      BY <1>4 DEF Signed
    <2>5. plus \in Seq(Symbols) /\ AppendInt(e) \in Seq(Symbols)
      BY AppendedIntegers
    <2> DEFINE written_ == AppendInt(e)
    <2> HIDE DEF plus, written_
    <2>6. (((whole \o point) \o mark) \o plus) \o written_
            = ((whole \o point) \o mark) \o (plus \o written_)
      <3>1. PICK front \in Seq(Symbols) : front = (whole \o point) \o mark
        <4>1. whole \in Seq(Symbols)
          BY DEF Symbols
        <4>2. (whole \o point) \o mark \in Seq(Symbols)
          BY <4>1
        <4> QED BY <4>2
      <3>2. front \in Seq(Symbols) /\ plus \in Seq(Symbols) /\ written_ \in Seq(Symbols)
        BY <2>5 DEF written_
      <3>3. Associate(front, plus, written_)
        BY ONLY <3>2, JoinsAssociate
      <3> QED BY ONLY <3>1, <3>3 DEF Associate
    <2> QED BY <2>1, <2>2, <2>3, <2>4, <2>6 DEF written_
  <1> QED BY <1>15, <1>17, <1>18, <1>19

(* Each layout is a text of its number. *)
LEMMA LayoutIsRead ==
  ASSUME NEW neg \in BOOLEAN, NEW digits, IsSignificant(digits), NEW n \in Int
  PROVE  IsTextOf(SignOf(neg) \o Layout(digits, n), neg, digits, n)
  <1>1. PICK k \in Nat \ {0} : k = Len(digits)
    BY DEF IsSignificant
  <1>2. (k <= n /\ n <= 21) \/ (k > n /\ 0 < n /\ n <= 21) \/ (-6 < n /\ n <= 0) \/ n \notin -5..21
    BY <1>1
  <1> QED BY <1>1, <1>2, LongNumbers, PointedNumbers, SmallNumbers, ScientificNumbers

LEMMA ZeroIsRead ==
  IsTextOf(<<"0">>, FALSE, <<>>, 0)
  <1>1. PICK neg \in BOOLEAN : neg = FALSE
    OBVIOUS
  <1>2. PICK whole \in Seq(DigitSet) : whole = <<"0">>
    <2>1. <<"0">> \in Seq(DigitSet)
      BY DigitsAreNoMarks
    <2> QED BY <2>1
  <1>3. PICK n \in Int : n = 0
    OBVIOUS
  <1>4. <<>> \in Seq(DigitSet) /\ <<>> \in Seq(Symbols) /\ n \in -5..21
    BY <1>3
  <1>5. whole # <<>> /\ Len(whole) = 1
    BY <1>2
  <1>6. ArePartsOf(<<>>, n, whole, <<>>, <<>>)
    BY <1>4, <1>5 DEF ArePartsOf
  <1>7. whole \o <<>> = <<"0">> /\ significant(<<"0">>) = {}
    BY <1>2 DEF significant
  <1>8. Value(neg, whole, <<>>, IntOf(<<>>)) = NumberOf(FALSE, <<>>, 0)
    BY <1>7 DEF Value, NumberOf
  <1>9. NumberOf(FALSE, <<>>, 0) = NumberOf(neg, <<>>, n)
    BY <1>1, <1>3
  <1>10. IsTextOf(TextOf(SignOf(neg), whole, <<>>, <<>>), neg, <<>>, n)
    BY <1>6, <1>8, <1>9, PartsAreShortest
  <1>11. TextOf(SignOf(neg), whole, <<>>, <<>>) = SignOf(neg) \o whole
    BY <1>4, SignsAreSymbols, PartsJoined
  <1>12. SignOf(neg) = <<>>
    BY <1>1 DEF SignOf
  <1>13. <<>> \o whole = <<"0">>
    BY <1>2
  <1> QED BY <1>1, <1>3, <1>10, <1>11, <1>12, <1>13

LEMMA NumbersAreRead ==
  ASSUME NEW spelled \in [neg : BOOLEAN, whole : Spelling, fraction : Spelling, exponent : Int]
  PROVE  LET text  == appendJSNumber(spelled)
             value == Value(spelled.neg, spelled.whole, spelled.fraction, spelled.exponent)
         IN ReadNumber(text) = value /\ IsShortest(text, value)
  <1> DEFINE text  == appendJSNumber(spelled)
             value == Value(spelled.neg, spelled.whole, spelled.fraction, spelled.exponent)
  <1>1. /\ spelled.neg \in BOOLEAN /\ spelled.whole \in Seq(DigitSet)
        /\ spelled.fraction \in Seq(DigitSet) /\ spelled.exponent \in Int
    BY DEF Spelling, DigitSet
  <1>2. \/ value = [neg |-> FALSE, digits |-> <<>>, n |-> 0]
        \/ /\ value = NumberOf(value.neg, value.digits, value.n)
           /\ value.neg \in BOOLEAN /\ IsSignificant(value.digits) /\ value.n \in Int
    BY <1>1, ValueIsShort
  <1>3. text = IF value.digits = <<>> THEN <<"0">>
               ELSE (IF value.neg THEN <<"-">> ELSE <<>>) \o Layout(value.digits, value.n)
    BY DEF appendJSNumber
  <1> HIDE DEF value, text
  <1>4. CASE value = [neg |-> FALSE, digits |-> <<>>, n |-> 0]
    <2>1. value = NumberOf(FALSE, <<>>, 0)
      BY <1>4 DEF NumberOf
    <2>2. text = <<"0">>
      BY <1>3, <1>4
    <2>3. IsTextOf(text, FALSE, <<>>, 0)
      BY <2>2, ZeroIsRead
    <2>4. ReadNumber(text) = value /\ IsShortest(text, value)
      BY <2>1, <2>3 DEF IsTextOf
    <2> QED BY <2>2, <2>4 DEF text, value
  <1>5. CASE /\ value = NumberOf(value.neg, value.digits, value.n)
             /\ value.neg \in BOOLEAN /\ IsSignificant(value.digits) /\ value.n \in Int
    <2>1. PICK neg \in BOOLEAN : neg = value.neg
      BY <1>5
    <2>2. PICK digits : digits = value.digits
      OBVIOUS
    <2>3. PICK n \in Int : n = value.n
      BY <1>5
    <2>4. IsSignificant(digits) /\ digits # <<>> /\ value = NumberOf(neg, digits, n)
      <3>1. IsSignificant(digits) /\ value = NumberOf(neg, digits, n)
        BY <1>5, <2>1, <2>2, <2>3
      <3>2. digits # <<>>
        BY <3>1 DEF IsSignificant
      <3> QED BY <3>1, <3>2
    <2>5. text = SignOf(neg) \o Layout(digits, n)
      BY <1>3, <2>1, <2>2, <2>3, <2>4 DEF SignOf
    <2>6. IsTextOf(text, neg, digits, n)
      BY <2>4, <2>5, LayoutIsRead
    <2>7. ReadNumber(text) = value /\ IsShortest(text, value)
      BY <2>4, <2>6 DEF IsTextOf
    <2> QED BY <2>7 DEF text, value
  <1> QED BY <1>2, <1>4, <1>5

-----------------------------------------------------------------------------
(***************************************************************************)
(* Strings: the code units of pieces.                                      *)
(***************************************************************************)
Pieces == [form : {"raw", "short", "hex"}, units : Seq(STRING)]

UnitSums(pieces) ==
  LET upTo[k \in 0..Len(pieces)] == IF k = 0 THEN <<>> ELSE upTo[k - 1] \o pieces[k].units
  IN upTo

LEMMA UnitSumsExist ==
  ASSUME NEW pieces \in Seq(Pieces)
  PROVE  LET s == UnitSums(pieces) IN
         /\ s \in [0..Len(pieces) -> Seq(STRING)] /\ s[0] = <<>>
         /\ \A k \in 1..Len(pieces) : s[k] = s[k - 1] \o pieces[k].units
  <1> DEFINE L == Len(pieces)
             X == Seq(STRING)
             none == <<>>
             step == [k \in 1..L |-> [s \in X |-> s \o pieces[k].units]]
             Body(g) == [k \in 0..L |-> IF k = 0 THEN <<>> ELSE g[k - 1] \o pieces[k].units]
             e == UnitSums(pieces)
  <1>1. \A k \in 1..L : pieces[k].units \in X
    <2> TAKE k \in 1..L
    <2>1. pieces[k] \in Pieces
      OBVIOUS
    <2> QED BY <2>1 DEF Pieces
  <1>2. step \in Steps(X, L)
    BY <1>1 DEF Steps
  <1>3. \A s \in X, k \in 1..L : step[k][s] = s \o pieces[k].units
    OBVIOUS
  <1>4. L \in Nat /\ none \in X /\ none = <<>>
    OBVIOUS
  <1> HIDE DEF step
  <1>5. \E s \in Results(X, L) : IsLoop(s, none, step, L)
    <2> HIDE DEF L, none, X
    <2> QED BY <1>2, <1>4, LoopExists
  <1>6. PICK s \in [0..L -> X] : s[0] = none /\ \A k \in 1..L : s[k] = step[k][s[k - 1]]
    BY <1>5 DEF Results, IsLoop
  <1>7. s = Body(s)
    <2>1. \A k \in 0..L : s[k] = Body(s)[k]
      <3> TAKE k \in 0..L
      <3>1. CASE k = 0
        BY <3>1, <1>6
      <3>2. CASE k # 0
        <4>1. k \in 1..L /\ s[k - 1] \in X
          BY <3>2, <1>4
        <4> HIDE DEF X
        <4> QED BY <4>1, <3>2, <1>3, <1>6
      <3> QED BY <3>1, <3>2
    <2>2. s = [k \in 0..L |-> s[k]]
      OBVIOUS
    <2> HIDE DEF L
    <2> QED BY <2>1, <2>2
  <1>8. e = CHOOSE g : g = Body(g)
    BY DEF UnitSums
  <1>9. e = Body(e)
    <2> HIDE DEF Body, e
    <2> QED BY <1>7, <1>8
  <1> HIDE DEF e
  <1>10. /\ e = [k \in 0..L |-> e[k]] /\ e[0] = none
         /\ \A k \in 1..L : e[k] = e[k - 1] \o pieces[k].units
    <2>1. e = [k \in 0..L |-> IF k = 0 THEN <<>> ELSE e[k - 1] \o pieces[k].units]
      BY <1>9
    <2>2. e = [k \in 0..L |-> e[k]]
      BY ONLY <2>1
    <2>3. 0 \in 0..L /\ \A k \in 1..L : k \in 0..L /\ k # 0
      BY <1>4
    <2> HIDE DEF L
    <2>4. e[0] = <<>>
      BY ONLY <2>1, <2>3
    <2>5. \A k \in 1..L : e[k] = e[k - 1] \o pieces[k].units
      BY ONLY <2>1, <2>3
    <2> QED BY <1>4, <2>2, <2>4, <2>5
  <1>11. \A k \in 1..L : e[k - 1] \in X => e[k] = step[k][e[k - 1]]
    <2> HIDE DEF L, X, Body
    <2> SUFFICES ASSUME NEW k \in 1..L, e[k - 1] \in X PROVE e[k] = step[k][e[k - 1]]
      OBVIOUS
    <2>1. e[k] = e[k - 1] \o pieces[k].units
      BY ONLY <1>10, k \in 1..L
    <2>2. step[k][e[k - 1]] = e[k - 1] \o pieces[k].units
      BY <1>3
    <2> QED BY <2>1, <2>2
  <1>12. e \in Results(X, L)
    <2> HIDE DEF Body, L, none, X
    <2> QED BY <1>2, <1>4, <1>10, <1>11, LoopStays
  <1> QED BY <1>10, <1>12 DEF e, Results

LEMMA UnitsOfNone == unitsOf(<<>>) = <<>>
  <1>1. <<>> \in Seq(Pieces) /\ Len(<<>>) = 0
    OBVIOUS
  <1>2. unitsOf(<<>>) = UnitSums(<<>>)[Len(<<>>)]
    BY DEF unitsOf, UnitSums
  <1> QED BY <1>1, <1>2, UnitSumsExist

(* The loop goes from the left, the literal is taken apart from its front. *)
LEMMA UnitsOfMore ==
  ASSUME NEW piece \in Pieces, NEW pieces \in Seq(Pieces)
  PROVE  /\ unitsOf(pieces) \in Seq(STRING)
         /\ unitsOf(<<piece>> \o pieces) = piece.units \o unitsOf(pieces)
  <1> DEFINE L == Len(pieces)
             more == <<piece>> \o pieces
             s == UnitSums(pieces)
             t == UnitSums(more)
             u == piece.units
             Same == {m \in Nat : m <= L => t[m + 1] = u \o s[m]}
  <1>1. /\ L \in Nat /\ more \in Seq(Pieces) /\ Len(more) = L + 1 /\ more[1] = piece
        /\ \A k \in 1..L : more[k + 1] = pieces[k] /\ pieces[k] \in Pieces
    OBVIOUS
  <1>2. unitsOf(pieces) = s[L] /\ unitsOf(more) = t[L + 1]
    BY <1>1 DEF unitsOf, UnitSums
  <1>3. /\ s \in [0..L -> Seq(STRING)] /\ s[0] = <<>>
        /\ \A k \in 1..L : s[k] = s[k - 1] \o pieces[k].units
    BY UnitSumsExist
  <1>4. /\ t \in [0..(L + 1) -> Seq(STRING)] /\ t[0] = <<>>
        /\ \A k \in 1..(L + 1) : t[k] = t[k - 1] \o more[k].units
    <2> HIDE DEF more
    <2> QED BY <1>1, UnitSumsExist
  <1>5. PICK units \in Seq(STRING) : units = u
    BY DEF Pieces
  <1> HIDE DEF s, t, more, u, L
  <1>6. \A m \in Nat : m \in Same
    <2>1. 0 \in Same
      <3>1. t[1] = t[0] \o more[1].units /\ more[1].units = u
        <4>1. 1 \in 1..(L + 1) /\ 1 - 1 = 0
          BY <1>1
        <4>2. t[1] = t[1 - 1] \o more[1].units
          BY ONLY <1>4, <4>1
        <4>3. more[1].units = u
          BY <1>1 DEF u
        <4> QED BY <4>1, <4>2, <4>3
      <3>2. <<>> \o units = units \o <<>>
        OBVIOUS
      <3> QED BY <1>3, <1>4, <1>5, <3>1, <3>2
    <2>2. ASSUME NEW m \in Nat, m \in Same PROVE m + 1 \in Same
      <3> SUFFICES ASSUME m + 1 <= L PROVE t[(m + 1) + 1] = u \o s[m + 1]
        OBVIOUS
      <3>1. /\ m + 1 \in 1..L /\ (m + 1) - 1 = m /\ m \in 0..L
            /\ (m + 1) + 1 \in 1..(L + 1) /\ ((m + 1) + 1) - 1 = m + 1
        BY <1>1
      <3>2. t[m + 1] = u \o s[m]
        BY <2>2, <3>1
      <3>3. PICK next \in Seq(STRING) : next = pieces[m + 1].units
        BY <1>1, <3>1 DEF Pieces
      <3>4. t[(m + 1) + 1] = t[m + 1] \o next
        BY <1>1, <1>4, <3>1, <3>3
      <3>5. s[m + 1] = s[m] \o next /\ s[m] \in Seq(STRING)
        BY <1>3, <3>1, <3>3
      <3>6. PICK done \in Seq(STRING) : done = s[m]
        BY <3>5
      <3>7. (units \o done) \o next = units \o (done \o next)
        OBVIOUS
      <3> QED BY <1>5, <3>2, <3>4, <3>5, <3>6, <3>7
    <2> HIDE DEF Same
    <2> QED BY <2>1, <2>2, NumberInduction
  <1>7. t[L + 1] = u \o s[L] /\ s[L] \in Seq(STRING)
    <2>1. L \in Nat /\ L <= L /\ L \in 0..L
      BY <1>1
    <2>2. t[L + 1] = u \o s[L]
      BY <1>6, <2>1
    <2>3. s[L] \in Seq(STRING)
      BY <1>3, <2>1
    <2> QED BY <2>2, <2>3
  <1> QED BY <1>2, <1>7 DEF more, u

-----------------------------------------------------------------------------
(***************************************************************************)
(* The loop of appendJSStringToken, from each unit on.                     *)
(***************************************************************************)
(* What is written from unit i on, what follows being in from. *)
Rest(units, from, i) ==
  IF i > Len(units) THEN <<>>
  ELSE IF IsPair(units, i)
  THEN <<Piece("raw", <<units[i], units[i + 1]>>)>> \o from[i + 2]
  ELSE <<Piece(formOf(units[i]), <<units[i]>>)>> \o from[i + 1]

Rests(units) ==
  LET from[i \in 1..Len(units) + 2] ==
        IF i > Len(units) THEN <<>>
        ELSE IF IsPair(units, i)
        THEN <<Piece("raw", <<units[i], units[i + 1]>>)>> \o from[i + 2]
        ELSE <<Piece(formOf(units[i]), <<units[i]>>)>> \o from[i + 1]
  IN from

LEMMA RestsExist ==
  ASSUME NEW units \in Seq(STRING)
  PROVE  \A i \in 1..(Len(units) + 2) : Rests(units)[i] = Rest(units, Rests(units), i)
  <1> DEFINE L == Len(units)
             S == {m \in Nat : m <= L + 1 =>
                     \E f : f = [i \in (L + 2 - m)..(L + 2) |-> Rest(units, f, i)]}
             Body(g) == [i \in 1..(L + 2) |-> Rest(units, g, i)]
             e == Rests(units)
  <1>1. L \in Nat
    OBVIOUS
  <1>2. 0 \in S
    <2> DEFINE f == [i \in (L + 2 - 0)..(L + 2) |-> <<>>]
    <2>1. \A i \in (L + 2 - 0)..(L + 2) : Rest(units, f, i) = <<>>
      BY <1>1 DEF Rest
    <2>2. f = [i \in (L + 2 - 0)..(L + 2) |-> Rest(units, f, i)]
      BY <2>1
    <2> QED BY <2>2
  <1>3. ASSUME NEW m \in Nat, m \in S PROVE m + 1 \in S
    <2> SUFFICES ASSUME m + 1 <= L + 1
                 PROVE  \E f : f = [i \in (L + 2 - (m + 1))..(L + 2) |-> Rest(units, f, i)]
      OBVIOUS
    <2>1. PICK f : f = [i \in (L + 2 - m)..(L + 2) |-> Rest(units, f, i)]
      BY <1>1, <1>3
    <2>2. PICK j \in 1..(L + 1) : j = L + 2 - (m + 1) /\ j + 1 = L + 2 - m
      <3>1. /\ L + 2 - (m + 1) \in 1..(L + 1)
            /\ (L + 2 - (m + 1)) + 1 = L + 2 - m
        BY <1>1
      <3> QED BY <3>1
    <2> DEFINE g == [i \in j..(L + 2) |-> IF i = j THEN Rest(units, f, j) ELSE f[i]]
    <2>3. \A i \in (j + 1)..(L + 2) : g[i] = f[i] /\ f[i] = Rest(units, f, i)
      <3> TAKE i \in (j + 1)..(L + 2)
      <3>1. i \in (L + 2 - m)..(L + 2) /\ i \in j..(L + 2) /\ i # j
        BY <1>1, <2>2
      <3>2. f[i] = Rest(units, f, i)
        BY ONLY <2>1, <3>1
      <3> QED BY <3>1, <3>2
    <2>4. g[j] = Rest(units, f, j)
      BY <1>1
    <2>5. g = [i \in j..(L + 2) |-> g[i]]
      OBVIOUS
    <2> HIDE DEF g
    <2>6. \A i \in j..(L + 2) : Rest(units, g, i) = Rest(units, f, i)
      <3> TAKE i \in j..(L + 2)
      <3>1. CASE i > L
        BY <3>1 DEF Rest
      <3>2. CASE ~ i > L
        <4>1. i + 1 \in (j + 1)..(L + 2) /\ i + 2 \in (j + 1)..(L + 2)
          BY <1>1, <3>2
        <4>2. g[i + 1] = f[i + 1] /\ g[i + 2] = f[i + 2]
          BY <2>3, <4>1
        <4> QED BY <3>2, <4>2 DEF Rest
      <3> QED BY <3>1, <3>2
    <2>7. \A i \in j..(L + 2) : g[i] = Rest(units, g, i)
      <3> TAKE i \in j..(L + 2)
      <3>1. i = j \/ i \in (j + 1)..(L + 2)
        OBVIOUS
      <3> QED BY <2>3, <2>4, <2>6, <3>1
    <2>8. g = [i \in j..(L + 2) |-> Rest(units, g, i)]
      BY <2>5, <2>7
    <2> QED BY <2>2, <2>8
  <1>4. L + 1 \in S
    <2>1. L + 1 \in Nat
      BY <1>1
    <2> HIDE DEF S, L
    <2> QED BY <1>2, <1>3, <2>1, NumberInduction
  <1>5. \E f : f = Body(f)
    <2>1. PICK f : f = [i \in (L + 2 - (L + 1))..(L + 2) |-> Rest(units, f, i)]
      BY <1>1, <1>4
    <2>2. L + 2 - (L + 1) = 1
      BY <1>1
    <2>3. f = Body(f)
      BY <2>1, <2>2
    <2> QED BY <2>3
  <1>6. e = CHOOSE g : g = Body(g)
    BY DEF Rests, Rest
  <1>7. e = Body(e)
    <2> HIDE DEF Body, e
    <2> QED BY <1>5, <1>6
  <1> HIDE DEF e, L
  <1>8. \A i \in 1..(L + 2) : e[i] = Rest(units, e, i)
    BY ONLY <1>7
  <1> QED BY <1>8 DEF e, L

LEMMA FormsAre ==
  \A unit : /\ formOf(unit) \in {"raw", "short", "hex"}
            /\ IsSurrogate(unit) => formOf(unit) = "hex"
  <1> TAKE unit
  <1> DEFINE hex == IsSurrogate(unit) \/ unit \in Controls
             short == unit \in ShortEscapes
             other == "raw"
             asHex == "hex"
             asShort == "short"
  <1>1. formOf(unit) = CASE hex -> asHex [] short -> asShort [] OTHER -> other
    BY DEF formOf
  <1>2. ~ (hex /\ short)
    BY DEF IsSurrogate, High, Low, Controls, ShortEscapes
  <1>3. asHex \in {"raw", "short", "hex"} /\ asShort \in {"raw", "short", "hex"}
        /\ other \in {"raw", "short", "hex"}
    OBVIOUS
  <1>4. IsSurrogate(unit) => hex
    OBVIOUS
  <1> HIDE DEF asHex, asShort, other, hex, short
  <1>5. hex => formOf(unit) = asHex
    BY ONLY <1>1, <1>2
  <1>6. short => formOf(unit) = asShort
    BY ONLY <1>1, <1>2
  <1>7. ~ hex /\ ~ short => formOf(unit) = other
    BY ONLY <1>1, <1>2
  <1>8. asHex = "hex"
    BY DEF asHex
  <1> QED BY <1>3, <1>4, <1>5, <1>6, <1>7, <1>8

(* Surrogates that could be one character are not escaped side by side. *)
Escaped(piece, kinds) == piece.form = "hex" /\ piece.units[1] \in kinds

(* Two units are one character, and written as it is. *)
IsShaped(piece) ==
  Len(piece.units) = 2 <=> IsSurrogate(piece.units[1]) /\ piece.form = "raw"

IsFine(pieces) ==
  \A i \in 1..Len(pieces) :
    /\ IsShaped(pieces[i])
    /\ Escaped(pieces[i], High) /\ i < Len(pieces) => ~ Escaped(pieces[i + 1], Low)

LEMMA FineGrows ==
  ASSUME NEW piece \in Pieces, NEW pieces \in Seq(Pieces), IsShaped(piece), IsFine(pieces),
         pieces # <<>> => ~ (Escaped(piece, High) /\ Escaped(pieces[1], Low))
  PROVE  IsFine(<<piece>> \o pieces)
  <1> DEFINE more == <<piece>> \o pieces
             L == Len(pieces)
  <1>1. /\ L \in Nat /\ Len(more) = L + 1 /\ more[1] = piece
        /\ \A k \in 1..L : more[k + 1] = pieces[k]
    OBVIOUS
  <1>2. pieces # <<>> <=> L >= 1
    OBVIOUS
  <1> HIDE DEF more
  <1> SUFFICES ASSUME NEW i \in 1..(L + 1)
               PROVE  /\ IsShaped(more[i])
                      /\ Escaped(more[i], High) /\ i < L + 1 => ~ Escaped(more[i + 1], Low)
    BY <1>1 DEF IsFine, more
  <1>3. CASE i = 1
    <2>1. 1 < L + 1 => more[1 + 1] = pieces[1] /\ pieces # <<>>
      BY <1>1, <1>2
    <2> HIDE DEF L
    <2> QED BY <1>1, <1>3, <2>1
  <1>4. CASE i # 1
    <2>1. PICK k \in 1..L : i = k + 1
      <3>1. i - 1 \in 1..L /\ i = (i - 1) + 1
        BY <1>1, <1>4
      <3> QED BY <3>1
    <2>2. more[i] = pieces[k] /\ (i < L + 1 => k < L /\ more[i + 1] = pieces[k + 1])
      <3>1. i < L + 1 => k < L /\ k + 1 \in 1..L
        BY <1>1, <2>1
      <3> HIDE DEF L
      <3> QED BY <1>1, <2>1, <3>1
    <2>3. /\ IsShaped(pieces[k])
          /\ (Escaped(pieces[k], High) /\ k < L => ~ Escaped(pieces[k + 1], Low))
      BY DEF IsFine
    <2> HIDE DEF L
    <2> QED BY <2>2, <2>3
  <1> QED BY <1>3, <1>4

(* What is written from unit i on. *)
IsWritten(units, i, pieces) ==
  /\ pieces \in Seq(Pieces)
  /\ unitsOf(pieces) = SubSeq(units, i, Len(units))
  /\ IsFine(pieces)
  /\ IF i > Len(units) THEN pieces = <<>>
     ELSE pieces # <<>> /\ pieces[1].units[1] = units[i]

LEMMA NothingIsWritten ==
  ASSUME NEW units \in Seq(STRING), NEW i \in Nat, i > Len(units)
  PROVE  IsWritten(units, i, <<>>)
  <1>1. <<>> \in Seq(Pieces) /\ SubSeq(units, i, Len(units)) = <<>> /\ Len(<<>>) = 0
    OBVIOUS
  <1>2. IsFine(<<>>)
    BY <1>1 DEF IsFine
  <1> QED BY <1>1, <1>2, UnitsOfNone DEF IsWritten

LEMMA PartIs ==
  ASSUME NEW units \in Seq(STRING), NEW i \in 1..(Len(units) + 1), NEW k \in (i - 1)..Len(units)
  PROVE  /\ SubSeq(units, i, k) \in Seq(STRING) /\ Len(SubSeq(units, i, k)) = k + 1 - i
         /\ \A j \in 1..(k + 1 - i) : SubSeq(units, i, k)[j] = units[i + j - 1]
  <1>1. SubSeq(units, i, k) \in Seq(STRING)
    OBVIOUS
  <1>2. Len(SubSeq(units, i, k)) = k + 1 - i
    OBVIOUS
  <1> QED BY <1>1, <1>2

LEMMA TwoParts ==
  ASSUME NEW a \in Seq(STRING), NEW b \in Seq(STRING), NEW c \in Seq(STRING),
         Len(c) = Len(a) + Len(b),
   \A j \in 1..Len(a) : a[j] = c[j], \A j \in 1..Len(b) : b[j] = c[Len(a)+j]
   PROVE a \o b = c
  <1>1. a \o b \in Seq(STRING) /\ Len(a \o b) = Len(c)
     OBVIOUS
  <1>2. \A j \in 1..Len(c) : (a \o b)[j] = c[j]
      <3> TAKE j \in 1..Len(c)
      <3>1. CASE j <= Len(a)
        BY <3>1
      <3>2. CASE ~ j <= Len(a)
        <4>1. j - Len(a) \in 1..Len(b) /\ Len(a) + (j - Len(a)) = j
          BY <3>2
        <4>2. (a \o b)[j] = b[j - Len(a)]
          BY <3>2
        <4> QED BY <4>1, <4>2
      <3> QED BY <3>1, <3>2
  <1> QED BY <1>1, <1>2

(* One step of the loop, over a unit or over two that are one character. *)
LEMMA PieceIsWritten ==
  ASSUME NEW units \in Seq(STRING), NEW i \in 1..Len(units), NEW k \in (i + 1)..(Len(units) + 1),
         NEW piece \in Pieces, piece.units = SubSeq(units, i, k - 1), IsShaped(piece),
         NEW pieces, IsWritten(units, k, pieces),
         k <= Len(units) => ~ (Escaped(piece, High) /\ units[k] \in Low)
  PROVE  IsWritten(units, i, <<piece>> \o pieces)
  <1> DEFINE more == <<piece>> \o pieces
  <1>1. /\ pieces \in Seq(Pieces) /\ unitsOf(pieces) = SubSeq(units, k, Len(units))
        /\ IsFine(pieces)
        /\ pieces # <<>> => k <= Len(units) /\ pieces[1].units[1] = units[k]
    BY DEF IsWritten
  <1>2. more \in Seq(Pieces) /\ more # <<>> /\ more[1] = piece
    BY <1>1
  <1>3. unitsOf(more) = piece.units \o unitsOf(pieces)
    BY <1>1, UnitsOfMore
  <1>4. SubSeq(units, i, k - 1) \o SubSeq(units, k, Len(units)) = SubSeq(units, i, Len(units))
    <2>1. PICK m \in Int : m = k - 1
      <3>1. k - 1 \in Int
        OBVIOUS
      <3> QED BY <3>1
    <2>2. m \in (i - 1)..Len(units) /\ m + 1 = k /\ i \in 1..(Len(units) + 1)
          /\ k \in 1..(Len(units) + 1) /\ Len(units) \in (k - 1)..Len(units)
          /\ Len(units) \in (i - 1)..Len(units) /\ Len(units) \in Nat
          /\ Len(units) + 1 - i = (m + 1 - i) + (Len(units) + 1 - k)
      BY <2>1
    <2>3. PICK a \in Seq(STRING) :
            /\ a = SubSeq(units, i, m) /\ Len(a) = m + 1 - i
            /\ \A j \in 1..(m + 1 - i) : a[j] = units[i + j - 1]
      <3>1. /\ SubSeq(units, i, m) \in Seq(STRING) /\ Len(SubSeq(units, i, m)) = m + 1 - i
            /\ \A j \in 1..(m + 1 - i) : SubSeq(units, i, m)[j] = units[i + j - 1]
        BY <2>2, PartIs
      <3> QED BY <3>1
    <2>4. PICK b \in Seq(STRING) :
            /\ b = SubSeq(units, k, Len(units)) /\ Len(b) = Len(units) + 1 - k
            /\ \A j \in 1..(Len(units) + 1 - k) : b[j] = units[k + j - 1]
      <3>1. /\ SubSeq(units, k, Len(units)) \in Seq(STRING)
            /\ Len(SubSeq(units, k, Len(units))) = Len(units) + 1 - k
            /\ \A j \in 1..(Len(units) + 1 - k) : SubSeq(units, k, Len(units))[j] = units[k + j - 1]
        BY <2>2, PartIs
      <3> QED BY <3>1
    <2>5. PICK c \in Seq(STRING) :
            /\ c = SubSeq(units, i, Len(units)) /\ Len(c) = Len(units) + 1 - i
            /\ \A j \in 1..(Len(units) + 1 - i) : c[j] = units[i + j - 1]
      <3>1. /\ SubSeq(units, i, Len(units)) \in Seq(STRING)
            /\ Len(SubSeq(units, i, Len(units))) = Len(units) + 1 - i
            /\ \A j \in 1..(Len(units) + 1 - i) : SubSeq(units, i, Len(units))[j] = units[i + j - 1]
        BY <2>2, PartIs
      <3> QED BY <3>1
    <2>6. Len(c) = Len(a) + Len(b)
      BY ONLY <2>2, <2>3, <2>4, <2>5
    <2>7. \A j \in 1..Len(a) : a[j] = c[j]
      BY <2>2, <2>3, <2>5
    <2>8. \A j \in 1..Len(b) : b[j] = c[Len(a) + j]
      <3> TAKE j \in 1..Len(b)
      <3>1. b[j] = units[k + j - 1]
        BY <2>4
      <3>2. /\ Len(a) + j \in 1..(Len(units) + 1 - i)
            /\ i + (Len(a) + j) - 1 = k + j - 1
        BY <2>2, <2>3, <2>4
      <3> QED BY <2>5, <3>1, <3>2
    <2>9. a \o b = c
      BY <2>6, <2>7, <2>8, TwoParts
    <2> QED BY <2>1, <2>3, <2>4, <2>5, <2>9
  <1>5. piece.units[1] = units[i]
    OBVIOUS
  <1>6. IsFine(more)
    BY <1>1, FineGrows DEF Escaped
  <1>7. ~ (i > Len(units))
    OBVIOUS
  <1> HIDE DEF more
  <1>8. more[1].units[1] = units[i]
    BY <1>2, <1>5
  <1>9. unitsOf(more) = SubSeq(units, i, Len(units))
    BY <1>1, <1>3, <1>4
  <1>10. IsWritten(units, i, more)
    BY <1>2, <1>6, <1>7, <1>8, <1>9 DEF IsWritten
  <1> QED BY <1>10 DEF more

LEMMA RestsAreWritten ==
  ASSUME NEW units \in Seq(STRING)
  PROVE  \A i \in 1..(Len(units) + 2) : IsWritten(units, i, Rests(units)[i])
  <1> DEFINE L == Len(units)
             r == Rests(units)
             S == {m \in Nat : m <= L + 1 =>
                     \A i \in (L + 2 - m)..(L + 2) : IsWritten(units, i, r[i])}
  <1>1. L \in Nat
    OBVIOUS
  <1>2. \A i \in 1..(L + 2) : r[i] = Rest(units, r, i)
    BY RestsExist
  <1>3. \A i \in 1..(L + 2) : i > L => IsWritten(units, i, r[i])
    <2> SUFFICES ASSUME NEW i \in 1..(L + 2), i > L PROVE IsWritten(units, i, r[i])
      OBVIOUS
    <2>1. r[i] = <<>>
      BY <1>2 DEF Rest
    <2>2. i \in Nat /\ i > Len(units)
      BY <1>1
    <2> HIDE DEF r
    <2>3. IsWritten(units, i, <<>>)
      BY <2>2, NothingIsWritten
    <2> QED BY <2>1, <2>3
  <1> HIDE DEF r
  <1>4. ASSUME NEW i \in 1..L, IsWritten(units, i + 1, r[i + 1]), IsWritten(units, i + 2, r[i + 2])
        PROVE  IsWritten(units, i, r[i])
    <2>1. /\ i \in 1..Len(units) /\ i \in 1..(L + 2) /\ ~ i > Len(units)
          /\ units[i] \in STRING
      BY <1>1
    <2>2. CASE IsPair(units, i)
      <3>1. /\ units[i] \in High /\ units[i + 1] \in Low /\ i + 1 \in 1..Len(units)
            /\ units[i + 1] \in STRING
        BY <2>2 DEF IsPair
      <3> DEFINE piece == Piece("raw", <<units[i], units[i + 1]>>)
      <3>2. r[i] = <<piece>> \o r[i + 2]
        BY <1>2, <2>1, <2>2 DEF Rest
      <3>3. i + 2 \in (i + 1)..(Len(units) + 1) /\ (i + 2) - 1 = i + 1
        BY <3>1
      <3>4. piece.units = SubSeq(units, i, (i + 2) - 1)
        BY <2>1, <3>1, <3>3 DEF Piece
      <3>5. /\ piece \in Pieces /\ piece.form = "raw"
            /\ Len(piece.units) = 2 /\ piece.units[1] = units[i]
        BY <2>1, <3>1 DEF Piece, Pieces
      <3> HIDE DEF piece
      <3>6. IsShaped(piece)
        BY <3>1, <3>5 DEF IsShaped, IsSurrogate
      <3>7. ~ Escaped(piece, High)
        BY <3>5 DEF Escaped
      <3>8. IsWritten(units, i, <<piece>> \o r[i + 2])
        BY <1>4, <2>1, <3>3, <3>4, <3>5, <3>6, <3>7, PieceIsWritten
      <3> QED BY <3>2, <3>8
    <2>3. CASE ~ IsPair(units, i)
      <3> DEFINE piece == Piece(formOf(units[i]), <<units[i]>>)
      <3>1. r[i] = <<piece>> \o r[i + 1]
        BY <1>2, <2>1, <2>3 DEF Rest
      <3>2. i + 1 \in (i + 1)..(Len(units) + 1) /\ (i + 1) - 1 = i
        BY <2>1
      <3>3. piece.units = SubSeq(units, i, (i + 1) - 1)
        BY <2>1, <3>2 DEF Piece
      <3>4. /\ piece \in Pieces /\ piece.form = formOf(units[i])
            /\ Len(piece.units) = 1 /\ piece.units[1] = units[i]
        BY <2>1, FormsAre DEF Piece, Pieces
      <3> HIDE DEF piece
      <3>5. IsShaped(piece)
        <4>1. IsSurrogate(units[i]) => piece.form # "raw"
          BY <3>4, FormsAre
        <4> QED BY <3>4, <4>1 DEF IsShaped
      <3>6. i + 1 <= Len(units) => ~ (Escaped(piece, High) /\ units[i + 1] \in Low)
        BY <2>1, <2>3, <3>4 DEF Escaped, IsPair
      <3>7. IsWritten(units, i, <<piece>> \o r[i + 1])
        BY <1>4, <2>1, <3>2, <3>3, <3>4, <3>5, <3>6, PieceIsWritten
      <3> QED BY <3>1, <3>7
    <2> QED BY <2>2, <2>3
  <1>5. 0 \in S
    <2>1. \A i \in (L + 2 - 0)..(L + 2) : i \in 1..(L + 2) /\ i > L
      BY <1>1
    <2> QED BY <1>3, <2>1
  <1>6. ASSUME NEW m \in Nat, m \in S PROVE m + 1 \in S
    <2> SUFFICES ASSUME m + 1 <= L + 1, NEW i \in (L + 2 - (m + 1))..(L + 2)
                 PROVE  IsWritten(units, i, r[i])
      OBVIOUS
    <2>1. \A j \in (L + 2 - m)..(L + 2) : IsWritten(units, j, r[j])
      BY <1>1, <1>6
    <2>2. CASE i > L
      BY <1>1, <1>3, <2>2
    <2>3. CASE ~ i > L
      <3>1. i \in 1..L /\ i + 1 \in (L + 2 - m)..(L + 2) /\ i + 2 \in (L + 2 - m)..(L + 2)
        BY <1>1, <2>3
      <3> QED BY <1>4, <2>1, <3>1
    <2> QED BY <2>2, <2>3
  <1>7. L + 1 \in S
    <2>1. L + 1 \in Nat
      BY <1>1
    <2> HIDE DEF S, L
    <2> QED BY <1>5, <1>6, <2>1, NumberInduction
  <1>8. \A i \in 1..(L + 2) : i \in (L + 2 - (L + 1))..(L + 2)
    BY <1>1
  <1> QED BY <1>1, <1>7, <1>8 DEF r

(* What is written for units has those units, and is fine. *)
LEMMA UnitsAreWritten ==
  ASSUME NEW units \in Seq(STRING)
  PROVE  /\ appendUnits(units) \in Seq(Pieces)
         /\ unitsOf(appendUnits(units)) = units
         /\ IsFine(appendUnits(units))
  <1>1. appendUnits(units) = Rests(units)[1]
    BY DEF appendUnits, Rests
  <1>2. 1 \in 1..(Len(units) + 2)
    OBVIOUS
  <1>3. IsWritten(units, 1, Rests(units)[1])
    BY <1>2, RestsAreWritten
  <1>4. SubSeq(units, 1, Len(units)) = units
    OBVIOUS
  <1> QED BY <1>1, <1>3, <1>4 DEF IsWritten

LEMMA UnitsAreUnits ==
  ASSUME NEW pieces \in Seq(Pieces)
  PROVE  unitsOf(pieces) \in Seq(STRING)
  <1>1. Piece("raw", <<>>) \in Pieces
    BY DEF Piece, Pieces
  <1> QED BY <1>1, UnitsOfMore

-----------------------------------------------------------------------------
(***************************************************************************)
(* The theorem.                                                            *)
(***************************************************************************)
Written(it) ==
  IF it.kind = "number" THEN appendJSNumber(it.spelled) ELSE appendJSStringToken(it.spelled)

(* Written once, from the token. *)
TextInv ==
  /\ token \in [kind : {"number"}, spelled : Numbers] \cup [kind : {"string"}, spelled : Strings]
  /\ written = <<>> \/ written = Written(token)

LEMMA TextInvIsGood == TextInv => TextIsJavaScripts
  <1> SUFFICES ASSUME TextInv, written # <<>> PROVE TextIsJavaScripts
    BY DEF TextIsJavaScripts
  <1>1. CASE token \in [kind : {"number"}, spelled : Numbers]
    <2>1. /\ token.kind = "number" /\ token.spelled \in Numbers
          /\ written = appendJSNumber(token.spelled)
      BY <1>1 DEF TextInv, Written
    <2>2. token.spelled \in
            [neg : BOOLEAN, whole : Spelling, fraction : Spelling, exponent : Int]
      BY <2>1, SpellingAssumption
    <2>3. PICK spelled \in
            [neg : BOOLEAN, whole : Spelling, fraction : Spelling, exponent : Int] :
            token.spelled = spelled
      BY <2>2
    <2> DEFINE value == Value(spelled.neg, spelled.whole, spelled.fraction, spelled.exponent)
    <2>4. /\ ReadNumber(appendJSNumber(spelled)) = value
          /\ IsShortest(appendJSNumber(spelled), value)
      BY NumbersAreRead
    <2> HIDE DEF value
    <2>5. ReadNumber(written) = value /\ IsShortest(written, value)
      BY <2>1, <2>3, <2>4
    <2>6. value = Value(token.spelled.neg, token.spelled.whole, token.spelled.fraction,
                        token.spelled.exponent)
      BY <2>3 DEF value
    <2> QED BY <2>1, <2>5, <2>6 DEF TextIsJavaScripts
  <1>2. CASE token \in [kind : {"string"}, spelled : Strings]
    <2>1. /\ token.kind = "string" /\ token.spelled \in Strings
          /\ written = appendUnits(unitsOf(token.spelled))
      BY <1>2 DEF TextInv, Written, appendJSStringToken
    <2>2. token.spelled \in Seq(Pieces)
      BY <2>1, SpellingAssumption DEF Pieces
    <2>3. /\ written \in Seq(Pieces) /\ unitsOf(written) = unitsOf(token.spelled)
          /\ IsFine(written)
      BY <2>1, <2>2, UnitsAreUnits, UnitsAreWritten
    <2>4. \A i \in 1..Len(written) :
            /\ Len(written[i].units) = 2 <=>
                 IsSurrogate(written[i].units[1]) /\ written[i].form = "raw"
            /\ written[i].form = "hex" /\ written[i].units[1] \in High /\ i < Len(written) =>
                 written[i + 1].form # "hex" \/ written[i + 1].units[1] \notin Low
      BY <2>3 DEF IsFine, IsShaped, Escaped
    <2>5. DOMAIN written = 1..Len(written)
      BY <2>3
    <2> QED BY <2>1, <2>3, <2>4, <2>5 DEF TextIsJavaScripts
  <1> QED BY <1>1, <1>2 DEF TextInv

(* Every number and every string is written as JavaScript writes it: the   *)
(* digest of appendJSNumber's and appendJSStringToken's text is the        *)
(* provider's, however the value was spelled.                              *)
THEOREM TextIsCanonical == TextSpec => []TextIsJavaScripts
  <1>1. TextInit => TextInv
    BY DEF TextInit, TextInv
  <1>2. TextInv /\ [Write]_textVars => TextInv'
    BY DEF TextInv, Write, textVars, Written
  <1> QED BY <1>1, <1>2, TextInvIsGood, PTL DEF TextSpec
==============================================================================
