----------------------------- MODULE EventText -----------------------------
(***************************************************************************)
(* The text under the digest of an event ID: webhookEventID writes what it *)
(* read as JavaScript's JSON.stringify would, which the provider used, and *)
(* which knows one text for every value however it was spelled.            *)
(*                                                                         *)
(* A number is the digits and the exponent it is spelled with; a float64   *)
(* holds the ones here exactly.  A string is UTF-16 code units by name,    *)
(* each spelled as itself, by its short escape or in hexadecimal.          *)
(***************************************************************************)
EXTENDS Integers, FiniteSetsExt, SequencesExt

CONSTANTS
  Numbers,  \* spellings of numbers: sign, whole and fractional digits, exponent
  Strings   \* spellings of strings: sequences of pieces

VARIABLES token, written

textVars == <<token, written>>

Digits == <<"0", "1", "2", "3", "4", "5", "6", "7", "8", "9">>

Spelling == Seq(Range(Digits))

ASSUME SpellingAssumption ==
  /\ Numbers \subseteq
       [neg : BOOLEAN, whole : Spelling, fraction : Spelling, exponent : Int]
  /\ Strings \subseteq Seq([form : {"raw", "short", "hex"}, units : Seq(STRING)])

Zeros(n) == [i \in 1..n |-> "0"]

(* Without the zeros a number does not need in front and at its end. *)
significant(digits) == {i \in DOMAIN digits : digits[i] # "0"}

(* 0.digits x 10^n, with the shortest digits; n is 0 for zero. *)
Value(neg, whole, fraction, exponent) ==
  LET digits == whole \o fraction
      used   == significant(digits)
  IN IF used = {} THEN [neg |-> FALSE, digits |-> <<>>, n |-> 0]
     ELSE [neg |-> neg, digits |-> SubSeq(digits, Min(used), Max(used)),
           n |-> Len(whole) + exponent - Min(used) + 1]

-----------------------------------------------------------------------------
(***************************************************************************)
(* appendJSNumber.                                                         *)
(***************************************************************************)
Decimal[i \in Nat] ==
  IF i < 10 THEN <<Digits[i + 1]>> ELSE Decimal[i \div 10] \o <<Digits[(i % 10) + 1]>>

AppendInt(i) == IF i < 0 THEN <<"-">> \o Decimal[- i] ELSE Decimal[i]

Scientific(digits, n) ==
  <<digits[1]>>
    \o (IF Len(digits) > 1 THEN <<".">> \o Tail(digits) ELSE <<>>)
    \o <<"e">>
    \o (IF n - 1 >= 0 THEN <<"+">> ELSE <<>>)
    \o AppendInt(n - 1)

(* Slip: FormatFloat's exponent is taken for n. *)
Layout_exponentAsIs(digits, m) ==
  LET k == Len(digits)
      n == m - 1
  IN CASE k <= n /\ n <= 21 -> digits \o Zeros(n - k)
       [] k > n /\ 0 < n /\ n <= 21 -> SubSeq(digits, 1, n) \o <<".">> \o SubSeq(digits, n + 1, k)
       [] -6 < n /\ n <= 0 -> <<"0", ".">> \o Zeros(- n) \o digits
       [] OTHER -> Scientific(digits, n)

Layout(digits, n) ==
  LET k == Len(digits)
  IN CASE k <= n /\ n <= 21 -> digits \o Zeros(n - k)
       [] k > n /\ 0 < n /\ n <= 21 -> SubSeq(digits, 1, n) \o <<".">> \o SubSeq(digits, n + 1, k)
       [] -6 < n /\ n <= 0 -> <<"0", ".">> \o Zeros(- n) \o digits
       [] OTHER -> Scientific(digits, n)

appendJSNumber(spelled) ==
  LET value == Value(spelled.neg, spelled.whole, spelled.fraction, spelled.exponent)
  IN IF value.digits = <<>> THEN <<"0">>
     ELSE (IF value.neg THEN <<"-">> ELSE <<>>) \o Layout(value.digits, value.n)

-----------------------------------------------------------------------------
(***************************************************************************)
(* appendJSStringToken.                                                    *)
(***************************************************************************)
High == {"D83D", "D83E"}
Low  == {"DE00", "DE01"}
IsSurrogate(unit) == unit \in High \cup Low

ShortEscapes == {"quote", "backslash", "backspace", "formfeed", "newline", "return", "tab"}
Controls     == {"0001"}

Piece(form, units) == [form |-> form, units |-> units]

(* The code units of a literal. *)
unitsOf(pieces) ==
  LET upTo[k \in 0..Len(pieces)] == IF k = 0 THEN <<>> ELSE upTo[k - 1] \o pieces[k].units
  IN upTo[Len(pieces)]

(* Two units that are one character, written as it is. *)
IsPair(units, i) ==
  units[i] \in High /\ i + 1 \in DOMAIN units /\ units[i + 1] \in Low

formOf(unit) ==
  CASE IsSurrogate(unit) \/ unit \in Controls -> "hex"
    [] unit \in ShortEscapes -> "short"
    [] OTHER -> "raw"

(* From the left: after a pair, go on behind it. *)
appendUnits(units) ==
  LET from[i \in 1..Len(units) + 2] ==
        IF i > Len(units) THEN <<>>
        ELSE IF IsPair(units, i)
        THEN <<Piece("raw", <<units[i], units[i + 1]>>)>> \o from[i + 2]
        ELSE <<Piece(formOf(units[i]), <<units[i]>>)>> \o from[i + 1]
  IN from[1]

appendJSStringToken(pieces) == appendUnits(unitsOf(pieces))

-----------------------------------------------------------------------------
NoToken == [kind |-> "none", spelled |-> <<>>]

TextInit ==
  /\ token \in [kind : {"number"}, spelled : Numbers] \cup [kind : {"string"}, spelled : Strings]
  /\ written = <<>>

Write ==
  /\ token # NoToken /\ written = <<>>
  /\ written' = IF token.kind = "number" THEN appendJSNumber(token.spelled)
                ELSE appendJSStringToken(token.spelled)
  /\ UNCHANGED token

TextSpec == TextInit /\ [][Write]_textVars

-----------------------------------------------------------------------------
(* JavaScript reads a number: whole digits, a fraction, an exponent. *)
At(text, symbol) == Min({i \in DOMAIN text : text[i] = symbol} \cup {Len(text) + 1})

DigitOf(symbol) == (CHOOSE i \in DOMAIN Digits : Digits[i] = symbol) - 1

NatOf(digits) ==
  LET upTo[k \in 0..Len(digits)] == IF k = 0 THEN 0 ELSE 10 * upTo[k - 1] + DigitOf(digits[k])
  IN upTo[Len(digits)]

IntOf(text) ==
  IF text = <<>> THEN 0
  ELSE CASE text[1] = "-" -> - NatOf(Tail(text))
         [] text[1] = "+" -> NatOf(Tail(text))
         [] OTHER         -> NatOf(text)

Mantissa(text) == SubSeq(text, IF text[1] = "-" THEN 2 ELSE 1, At(text, "e") - 1)

ReadNumber(text) ==
  LET mantissa == Mantissa(text)
      point    == At(mantissa, ".")
  IN Value(text[1] = "-", SubSeq(mantissa, 1, point - 1),
           SubSeq(mantissa, point + 1, Len(mantissa)),
           IntOf(SubSeq(text, At(text, "e") + 1, Len(text))))

(* Nothing to leave out: no zero in front but before a point, none at the  *)
(* end behind one, and no exponent between a millionth and 10^21.          *)
IsShortest(text, value) ==
  LET mantissa == Mantissa(text)
  IN /\ mantissa[1] = "0" => Len(mantissa) = 1 \/ mantissa[2] = "."
     /\ Contains(mantissa, ".") => Last(mantissa) \notin {"0", "."}
     /\ Contains(text, "e") <=> value.n \notin -5..21
     /\ Contains(text, "e") => At(mantissa, ".") = 2

(* The text is the one JavaScript writes for the value, so that receivers  *)
(* in both languages compute one event ID: read again it is the number     *)
(* that was spelled, in the shortest form, or the code units of the        *)
(* string, with surrogates joined where they are one character and escaped *)
(* where they are not.                                                     *)
TextIsJavaScripts ==
  written # <<>> =>
    \/ /\ token.kind = "number"
       /\ LET spelled == token.spelled
              value == Value(spelled.neg, spelled.whole, spelled.fraction, spelled.exponent)
          IN ReadNumber(written) = value /\ IsShortest(written, value)
    \/ /\ token.kind = "string"
       /\ unitsOf(written) = unitsOf(token.spelled)
       /\ \A i \in DOMAIN written :
            /\ Len(written[i].units) = 2 <=> IsSurrogate(written[i].units[1]) /\ written[i].form = "raw"
            /\ written[i].form = "hex" /\ written[i].units[1] \in High /\ i < Len(written) =>
                 written[i + 1].form # "hex" \/ written[i + 1].units[1] \notin Low
=============================================================================
