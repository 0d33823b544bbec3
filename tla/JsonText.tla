------------------------------ MODULE JsonText ------------------------------
(***************************************************************************)
(* The texts of json.c: printing, escaping, numbers, and the scans of the  *)
(* parser.  A text is a sequence of character codes; one that is parsed    *)
(* ends with the '\0' of a C string, and positions count from 1.  What is  *)
(* printed goes through a string builder, which StringBuilder shows to     *)
(* concatenate what is appended.                                           *)
(***************************************************************************)
EXTENDS JsonValue

CONSTANTS
    Decimals,   \* the places of a double that "%lf" prints (6 in the code)
    MaxDigits   \* bound: digits of a number before its point

ASSUME TextAssumption == Decimals \in Nat /\ MaxDigits \in Nat

\* A double is kept in units of its last printed place.
Unit == 10 ^ Decimals

\* json_number_set_float and json_number_from_float
FloatNumber(v) ==
    [type |-> "number", part_float |-> v,
     part_int |-> IF v < 0 THEN -((-v) \div Unit) ELSE v \div Unit]

\* Characters
Quote       == 34
Backslash   == 92
Comma       == 44
Colon       == 58
Minus       == 45
Dot         == 46
OpenArray   == 91
CloseArray  == 93
OpenObject  == 123
CloseObject == 125
WhiteSpace == {32, 10, 9, 13}
Digit == 48..57

TrueWord  == <<116, 114, 117, 101>>
FalseWord == <<102, 97, 108, 115, 101>>
NullWord  == <<110, 117, 108, 108>>

(***************************************************************************)
(* Printing.                                                               *)
(***************************************************************************)

\* Variant: backslashes are not escaped.
EscapedQuotes(s) ==
    FlattenSeq([i \in DOMAIN s |-> IF s[i] = Quote THEN <<Backslash, s[i]>> ELSE <<s[i]>>])

\* json_string_secape
Escaped(s) ==
    FlattenSeq([i \in DOMAIN s |->
                  IF s[i] \in {Quote, Backslash} THEN <<Backslash, s[i]>> ELSE <<s[i]>>])

\* The digits of a natural number, at least n of them.
Digits(v, n) ==
    LET digits == Max({1, n} \union {i \in 1..MaxDigits : 10 ^ (i - 1) <= v})
    IN  [i \in 1..digits |-> 48 + ((v \div 10 ^ (digits - i)) % 10)]

Abs(v) == IF v < 0 THEN -v ELSE v

\* sprintf with JSON_INT_FMT or JSON_FLOAT_FMT
NumberText(num) ==
    IF num.part_float = UnusedFloat
    THEN (IF num.part_int < 0 THEN <<Minus>> ELSE <<>>) \o Digits(Abs(num.part_int), 1)
    ELSE (IF num.part_float < 0 THEN <<Minus>> ELSE <<>>)
         \o Digits(Abs(num.part_float) \div Unit, 1) \o <<Dot>>
         \o Digits(Abs(num.part_float) % Unit, Decimals)

\* The texts of the items with ", " between them.
Listed(texts) ==
    FlattenSeq([i \in DOMAIN texts |-> IF i = 1 THEN texts[i] ELSE <<Comma, 32>> \o texts[i]])

\* What stands in an object or array for each item, printed being the texts of
\* the values.
ItemTexts(h, printed, x) ==
    IF h[x].type = "object"
    THEN [i \in DOMAIN Items(h, x) |->
            printed[h[Items(h, x)[i]].name] \o <<Colon>> \o printed[h[Items(h, x)[i]].value]]
    ELSE [i \in DOMAIN Items(h, x) |-> printed[h[Items(h, x)[i]].value]]

\* json_value_to_string_builder
TextOf(h, printed, x) ==
    CASE h[x].type = "string" -> <<Quote>> \o CString(Escaped(h[x].text)) \o <<Quote>>
      [] h[x].type = "number" -> NumberText(h[x])
      [] h[x].type = "object" ->
           <<OpenObject>> \o Listed(ItemTexts(h, printed, x)) \o <<CloseObject>>
      [] h[x].type = "array" ->
           <<OpenArray>> \o Listed(ItemTexts(h, printed, x)) \o <<CloseArray>>
      [] h[x].type = "true" -> TrueWord
      [] h[x].type = "false" -> FalseWord
      [] h[x].type = "null" -> NullWord

\* What json_convert_value_2_string gets from the string builder.
Printed(h, a) ==
    LET printed[x \in DOMAIN h] == TextOf(h, printed, x)
    IN  printed[a]

(***************************************************************************)
(* The scans of the parser.                                                *)
(***************************************************************************)

\* The first position from p on that holds no character of S.
Past(S, t, p) ==
    CHOOSE q \in p..Len(t) : t[q] \notin S /\ \A r \in p..(q - 1) : t[r] \in S

\* skip_white_space
SkipWhiteSpace(t, p) == Past(WhiteSpace, t, p)

\* skip_string: to a quote that has no backslash before it, or to the end.
SkipString(t, p) ==
    Min({q \in p..Len(t) : t[q] = 0 \/ (t[q] = Quote /\ t[q - 1] # Backslash)})

HexDigit(c) ==
    CASE c \in 48..57  -> c - 48
      [] c \in 97..102 -> c - 97
      [] c \in 65..70  -> c - 65
      [] OTHER -> -1

\* hex2char: the letters count from 0, and what is no digit is returned itself.
Hex2Char(h, l) ==
    IF HexDigit(h) < 0 THEN h
    ELSE IF HexDigit(l) < 0 THEN l
    ELSE 16 * HexDigit(h) + HexDigit(l)

\* What stands for c behind a backslash.
Unescape(c) ==
    CASE c = 98 -> 8 [] c = 102 -> 12 [] c = 110 -> 10 [] c = 116 -> 9 [] c = 114 -> 13
      [] OTHER -> c

\* json_string_unsecape of the characters from i up to, but not with, end.
Unescaped(t, i, end) ==
    LET from[j \in Nat] ==
            IF j >= end THEN <<>>
            ELSE IF t[j] # Backslash THEN <<t[j]>> \o from[j + 1]
            ELSE IF t[j + 1] # 117 THEN <<Unescape(t[j + 1])>> \o from[j + 2]
            ELSE <<Hex2Char(t[j + 2], t[j + 3]), Hex2Char(t[j + 4], t[j + 5])>> \o from[j + 6]
    IN  from[i]

\* The number with the digits from p up to, but not with, q.
DecimalValue(t, p, q) ==
    FoldLeft(LAMBDA v, c : 10 * v + (c - 48), 0, SubSeq(t, p, q - 1))

\* m * 10^e in units, rounded
Scaled(m, e) ==
    IF e + Decimals >= 0 THEN m * 10 ^ (e + Decimals)
    ELSE (2 * m + 10 ^ (-(e + Decimals))) \div (2 * 10 ^ (-(e + Decimals)))

\* Variant: the end of the number is not stored.
ReadNumberInPlace(t, p) ==
    [node |-> IntNumber(DecimalValue(t, p, Past(Digit, t, p))), pos |-> p]

\* read_number: the sign is used for an integer only, and the exponent with a
\* fraction only.
ReadNumber(t, p) ==
    LET b   == IF t[p] = Minus THEN p + 1 ELSE p
        q   == Past(Digit, t, b)
        int == DecimalValue(t, b, q)
        f   == Past(Digit, t, q + 1)
        m   == int * 10 ^ (f - (q + 1)) + DecimalValue(t, q + 1, f)
        s   == IF t[f + 1] \in {43, Minus} THEN f + 2 ELSE f + 1
        x   == Past(Digit, t, s)
        exp == IF t[f + 1] = Minus THEN -DecimalValue(t, s, x) ELSE DecimalValue(t, s, x)
    IN  IF t[q] # Dot
        THEN [node |-> IntNumber(IF t[p] = Minus THEN -int ELSE int), pos |-> q]
        ELSE IF t[f] \in {69, 101}
        THEN [node |-> FloatNumber(Scaled(m, (q + 1) - f + exp)), pos |-> x]
        ELSE [node |-> FloatNumber(Scaled(m, (q + 1) - f)), pos |-> f]

=============================================================================
