----------------------------- MODULE JsonLexer ------------------------------
(***************************************************************************)
(* The lexer of json.hpp.  A text is a sequence of bytes and a position the *)
(* number of bytes before it, as m_cursor is.  scan() is the machine that   *)
(* re2c generated; here each kind of token is read by an operator, with the *)
(* way back to m_marker where the machine has one.  A token is its type and *)
(* the positions m_start and m_cursor are left at.                          *)
(***************************************************************************)
EXTENDS JsonValue, TLC
LOCAL INSTANCE SequencesExt

CONSTANT FloatMaxExp  \* largest power of ten of a number_float: 308

\* *m_cursor.  fill_line_buffer puts a NUL byte after the end of the text.
Byte(text, at) == IF at < Len(text) THEN text[at + 1] ELSE 0

Token(type, from, to) == [type |-> type, from |-> from, to |-> to]

\* The classes of bytes that the machine tells apart.
Blank      == {9, 10, 13, 32}
IsDigitByte(b) == b \in 48..57
IsHexByte(b)   == b \in (48..57) \cup (65..70) \cup (97..102)
Plain      == (32..127) \ {34, 92}
Escapable  == {34, 47, 92, 98, 102, 110, 114, 116}

-----------------------------------------------------------------------------
(* Numbers *)

\* The position after the digits from position at on.
RECURSIVE AfterDigits(_, _)
AfterDigits(text, at) == IF IsDigitByte(Byte(text, at)) THEN AfterDigits(text, at + 1) ELSE at

\* Where the parts of the number that starts at a position end.  A fraction or
\* an exponent that is not complete is given back: m_cursor = m_marker.
IntegerEnd(text, at) == IF Byte(text, at) = 48 THEN at + 1 ELSE AfterDigits(text, at)
FractionEnd(text, at) == IF Byte(text, at) = 46 /\ IsDigitByte(Byte(text, at + 1))
                         THEN AfterDigits(text, at + 1) ELSE at
ExponentStart(text, at) == IF Byte(text, at + 1) \in {43, 45} THEN at + 2 ELSE at + 1
ExponentEnd(text, at) ==
  IF Byte(text, at) \in {69, 101} /\ IsDigitByte(Byte(text, ExponentStart(text, at)))
  THEN AfterDigits(text, ExponentStart(text, at)) ELSE at

NumberToken(text, at) ==
  LET negative == Byte(text, at) = 45
      first    == IF negative THEN at + 1 ELSE at
      int      == IntegerEnd(text, first)
      end      == ExponentEnd(text, FractionEnd(text, int))
  IN  CASE ~IsDigitByte(Byte(text, first)) -> Token("parse_error", at, first)
        [] Byte(text, first) = 48 /\ IsDigitByte(Byte(text, int)) ->
             Token("parse_error", at, AfterDigits(text, int))
        [] end > int -> Token("value_float", at, end)
        [] negative  -> Token("value_integer", at, end)
        [] OTHER     -> Token("value_unsigned", at, end)

-----------------------------------------------------------------------------
(* Strings *)

\* The bytes that may follow the first byte of a sequence of UTF-8, one set
\* for each; none when no sequence starts with it.
Tails(b) ==
  LET any == 128..191
  IN  CASE b \in 194..223 -> <<any>>
        [] b = 224        -> <<160..191, any>>
        [] b = 237        -> <<128..159, any>>
        [] b \in 225..239 -> <<any, any>>
        [] b = 240        -> <<144..191, any, any>>
        [] b \in 241..243 -> <<any, any, any>>
        [] b = 244        -> <<128..143, any, any>>
        [] OTHER          -> <<>>

\* How many bytes the character at a position takes; 0 if there is none.
CharacterLength(text, at) ==
  LET b     == Byte(text, at)
      next  == Byte(text, at + 1)
      tails == Tails(b)
  IN  CASE b \in Plain -> 1
        [] b = 92 /\ next \in Escapable -> 2
        [] b = 92 /\ next = 117 /\ (\A i \in 2..5 : IsHexByte(Byte(text, at + i))) -> 6
        [] tails # <<>> /\ (\A i \in DOMAIN tails : Byte(text, at + i) \in tails[i]) -> Len(tails) + 1
        [] OTHER -> 0

RECURSIVE AfterString(_, _, _)
AfterString(text, at, start) ==
  LET n == CharacterLength(text, at)
  IN  CASE Byte(text, at) = 34 -> Token("value_string", start, at + 1)
        [] n = 0               -> Token("parse_error", start, start + 1)
        [] OTHER               -> AfterString(text, at + n, start)

-----------------------------------------------------------------------------
(* scan() *)

Punctuation == (44 :> "value_separator") @@ (58 :> "name_separator") @@
               (91 :> "begin_array") @@ (93 :> "end_array") @@
               (123 :> "begin_object") @@ (125 :> "end_object") @@ (0 :> "end_of_input")

\* The literals by their first byte.
Literals == (102 :> [type |-> "literal_false", word |-> <<102, 97, 108, 115, 101>>]) @@
            (110 :> [type |-> "literal_null", word |-> <<110, 117, 108, 108>>]) @@
            (116 :> [type |-> "literal_true", word |-> <<116, 114, 117, 101>>])
LiteralToken(text, at) ==
  LET l == Literals[Byte(text, at)]
  IN  IF \A i \in DOMAIN l.word : Byte(text, at + i - 1) = l.word[i]
      THEN Token(l.type, at, at + Len(l.word)) ELSE Token("parse_error", at, at + 1)

RECURSIVE Scan(_, _)
Scan(text, at) ==
  LET b == Byte(text, at)
  IN  CASE b \in Blank                -> Scan(text, at + 1)
        [] b \in DOMAIN Punctuation   -> Token(Punctuation[b], at, at + 1)
        [] b \in DOMAIN Literals      -> LiteralToken(text, at)
        [] b = 34                     -> AfterString(text, at + 1, at)
        [] b = 45 \/ IsDigitByte(b)   -> NumberToken(text, at)
        [] OTHER                      -> Token("parse_error", at, at + 1)

-----------------------------------------------------------------------------
(* What a token stands for *)

HexDigit(b) == IF b < 58 THEN b - 48 ELSE IF b < 71 THEN b - 55 ELSE b - 87
CodePoint(text, at) ==
  FoldLeft(LAMBDA n, i : 16 * n + HexDigit(Byte(text, at + i)), 0, <<0, 1, 2, 3>>)

High == 55296..56319   \* 0xD800..0xDBFF
Low  == 56320..57343   \* 0xDC00..0xDFFF

Trailing(c) == 128 + (c % 64)

\* to_unicode, for a code point that is not a surrogate.
ToUnicode(c) ==
  CASE c < 128   -> <<c>>
    [] c < 2048  -> <<192 + c \div 64, Trailing(c)>>
    [] c < 65536 -> <<224 + c \div 4096, Trailing(c \div 64), Trailing(c)>>
    [] OTHER     -> <<240 + c \div 262144, Trailing(c \div 4096), Trailing(c \div 64), Trailing(c)>>
Paired(high, low) == 65536 + (high - 55296) * 1024 + (low - 56320)

Unescape == (34 :> 34) @@ (47 :> 47) @@ (92 :> 92) @@
            (98 :> 8) @@ (102 :> 12) @@ (110 :> 10) @@ (114 :> 13) @@ (116 :> 9)

\* The high surrogate at a position is followed by the escape of a low one.
Follows(text, at) == /\ Byte(text, at + 6) = 92 /\ Byte(text, at + 7) = 117
                     /\ CodePoint(text, at + 8) \in Low

\* get_string, from position at to the quotation mark at position end.
RECURSIVE GetString(_, _, _, _)

\* ... from the escape of code point c on.
GetUnicode(text, at, end, c, result) ==
  CASE c \in High ->
         IF Follows(text, at)
         THEN GetString(text, at + 12, end, result \o ToUnicode(Paired(c, CodePoint(text, at + 8))))
         ELSE Throw(<<>>, "invalid_argument")
    [] c \in Low -> Throw(<<>>, "invalid_argument")
    [] OTHER     -> GetString(text, at + 6, end, result \o ToUnicode(c))

GetString(text, at, end, result) ==
  CASE at = end -> Done(result)
    [] Byte(text, at) # 92 -> GetString(text, at + 1, end, Append(result, Byte(text, at)))
    [] Byte(text, at + 1) # 117 ->
         GetString(text, at + 2, end, Append(result, Unescape[Byte(text, at + 1)]))
    [] OTHER -> GetUnicode(text, at, end, CodePoint(text, at + 2), result)

DigitsOf(text, from, to) ==
  FoldLeft(LAMBDA n, b : 10 * n + b - 48, 0,
           SelectSeq(SubSeq(text, from + 1, to), IsDigitByte))

\* The number_float m * 10^e: trailing zeros go into the exponent, a number
\* that is too small is zero, and one that is not finite becomes null.
RECURSIVE FloatValue(_, _, _)
FloatValue(neg, m, e) ==
  LET power == Len(Decimal(m)) - 1 + e
  IN  CASE m = 0                -> Float(neg, 0, 0)
        [] m % 10 = 0           -> FloatValue(neg, m \div 10, e + 1)
        [] power > FloatMaxExp  -> Null
        [] power < -FloatMaxExp -> Float(neg, 0, 0)
        [] OTHER                -> Float(neg, m, e)

\* strtonum for a floating-point type.
StrToFloat(text, tok) ==
  LET neg   == Byte(text, tok.from) = 45
      int   == IntegerEnd(text, IF neg THEN tok.from + 1 ELSE tok.from)
      frac  == FractionEnd(text, int)
      power == IF frac = tok.to THEN 0
               ELSE DigitsOf(text, frac, tok.to) * (IF Byte(text, frac + 1) = 45 THEN -1 ELSE 1)
      places == IF frac = int THEN 0 ELSE frac - int - 1
  IN  FloatValue(neg, DigitsOf(text, tok.from, frac), power - places)

\* get_number: an integer that does not fit its type becomes a number_float.
GetNumber(text, tok) ==
  LET n == DigitsOf(text, tok.from, tok.to)
  IN  CASE tok.type = "value_unsigned" /\ n <= UintMax -> Unsigned(n)
        [] tok.type = "value_integer" /\ -n >= IntMin  -> Integer(-n)
        [] OTHER -> StrToFloat(text, tok)
=============================================================================
