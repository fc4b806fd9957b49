------------------------------ MODULE JsonDump ------------------------------
(***************************************************************************)
(* dump() of json.hpp: the text of a value, on one line or indented.        *)
(***************************************************************************)
EXTENDS JsonValue, TLC
LOCAL INSTANCE SequencesExt

CONSTANT DIGITS10  \* numeric_limits<number_float_t>::digits10: 15
ASSUME DigitsAssumption == DIGITS10 \in Nat \ {0}

Repeated(b, n) == [i \in 1..n |-> b]

HexChar(n) == IF n < 10 THEN 48 + n ELSE 87 + n

\* The escapes of one letter.
EscapeLetter == (34 :> 34) @@ (92 :> 92) @@ (8 :> 98) @@ (12 :> 102) @@
                (10 :> 110) @@ (13 :> 114) @@ (9 :> 116)

\* Mutant: a control byte is counted as "\x1f" would need.
ExtraSpaceHex(s) ==
  FoldLeft(LAMBDA n, b : n + (IF b \in DOMAIN EscapeLetter THEN 1 ELSE IF b < 32 THEN 3 ELSE 0), 0, s)

\* extra_space: how many bytes more than s its escaped form takes.
ExtraSpace(s) ==
  FoldLeft(LAMBDA n, b : n + (IF b \in DOMAIN EscapeLetter THEN 1 ELSE IF b < 32 THEN 5 ELSE 0), 0, s)

\* Mutant: only quotation marks and backslashes are escaped.
EscapedByteQuotes(b) == IF b \in {34, 92} THEN <<92, b>> ELSE <<b>>

EscapedByte(b) ==
  CASE b \in DOMAIN EscapeLetter -> <<92, EscapeLetter[b]>>
    [] b < 32 -> <<92, 117, 48, 48, HexChar(b \div 16), HexChar(b % 16)>>
    [] OTHER  -> <<b>>
EscapeString(s) == FlattenSeq([i \in DOMAIN s |-> EscapedByte(s[i])])
Quoted(s) == <<34>> \o EscapeString(s) \o <<34>>

-----------------------------------------------------------------------------
(* numtostr for a floating-point type: %.*g with DIGITS10 digits, and ".0"  *)
(* after what looks like an integer.                                         *)

\* m rounded to n digits, an even one in the middle, and its exponent.
Rounded(m, e, n) ==
  LET cut  == Len(Decimal(m)) - n
      unit == 10 ^ cut
      q    == m \div unit
      up   == 2 * (m % unit) > unit \/ (2 * (m % unit) = unit /\ q % 2 = 1)
  IN  IF cut <= 0 THEN [m |-> m, e |-> e] ELSE [m |-> IF up THEN q + 1 ELSE q, e |-> e + cut]

\* The digits without the zeros at the end.
RECURSIVE Digits(_)
Digits(m) == IF m % 10 = 0 THEN Digits(m \div 10) ELSE Decimal(m)

TwoDigits(n) == IF n < 10 THEN <<48>> \o Decimal(n) ELSE Decimal(n)

DumpExponent(d, power) ==
  <<d[1]>> \o (IF Len(d) = 1 THEN <<>> ELSE <<46>> \o Tail(d))
  \o <<101>> \o (IF power < 0 THEN <<45>> \o TwoDigits(-power) ELSE <<43>> \o TwoDigits(power))

\* Mutant: no fraction is added to what looks like an integer.
DumpFixedBare(d, power) ==
  IF power < 0 THEN <<48, 46>> \o Repeated(48, -power - 1) \o d
  ELSE IF Len(d) <= power + 1 THEN d \o Repeated(48, power + 1 - Len(d))
  ELSE SubSeq(d, 1, power + 1) \o <<46>> \o SubSeq(d, power + 2, Len(d))

DumpFixed(d, power) ==
  IF power < 0 THEN <<48, 46>> \o Repeated(48, -power - 1) \o d
  ELSE IF Len(d) <= power + 1 THEN d \o Repeated(48, power + 1 - Len(d)) \o <<46, 48>>
  ELSE SubSeq(d, 1, power + 1) \o <<46>> \o SubSeq(d, power + 2, Len(d))

DumpFloat(v) ==
  LET r     == Rounded(v.m, v.e, DIGITS10)
      power == Len(Decimal(r.m)) - 1 + r.e
      d     == Digits(r.m)
      sign  == IF v.neg THEN <<45>> ELSE <<>>
  IN  CASE v.m = 0 -> sign \o <<48, 46, 48>>
        [] power < -4 \/ power >= DIGITS10 -> sign \o DumpExponent(d, power)
        [] OTHER -> sign \o DumpFixed(d, power)

-----------------------------------------------------------------------------
(* dump *)

Null_text      == <<110, 117, 108, 108>>
True_text      == <<116, 114, 117, 101>>
False_text     == <<102, 97, 108, 115, 101>>
Discarded_text == <<60, 100, 105, 115, 99, 97, 114, 100, 101, 100, 62>>

RECURSIVE Dump(_, _, _, _)

\* A structure with its items between brackets: on one line, or each item on a
\* line of its own.
Structure(open, items, close, pretty, indent_step, current_indent) ==
  LET new_indent == IF pretty THEN current_indent + indent_step ELSE current_indent
      newline    == IF pretty THEN <<10>> ELSE <<>>
      Item(i)    == (IF i = 1 THEN <<>> ELSE <<44>> \o newline) \o Repeated(32, new_indent) \o items[i]
  IN  IF items = <<>> THEN <<open, close>>
      ELSE <<open>> \o newline \o FlattenSeq([i \in DOMAIN items |-> Item(i)])
           \o newline \o Repeated(32, current_indent) \o <<close>>

Dump(v, pretty, indent_step, current_indent) ==
  LET new_indent == IF pretty THEN current_indent + indent_step ELSE current_indent
      Below(x)   == Dump(x, pretty, indent_step, new_indent)
      Member(k)  == Quoted(k) \o (IF pretty THEN <<58, 32>> ELSE <<58>>) \o Below(v.o[k])
  IN  CASE v.type = "object" ->
             Structure(123, [i \in DOMAIN Keys(v.o) |-> Member(Keys(v.o)[i])], 125,
                       pretty, indent_step, current_indent)
        [] v.type = "array" ->
             Structure(91, [i \in DOMAIN v.a |-> Below(v.a[i])], 93,
                       pretty, indent_step, current_indent)
        [] v.type = "string"    -> Quoted(v.s)
        [] v.type = "boolean"   -> IF v.b THEN True_text ELSE False_text
        [] v.type \in {"number_integer", "number_unsigned"} -> Decimal(v.n)
        [] v.type = "number_float" -> DumpFloat(v)
        [] v.type = "discarded" -> Discarded_text
        [] OTHER -> Null_text
=============================================================================
