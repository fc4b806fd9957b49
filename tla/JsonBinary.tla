----------------------------- MODULE JsonBinary ----------------------------
(***************************************************************************)
(* CBOR and MessagePack: what to_cbor and to_msgpack write and what         *)
(* from_cbor and from_msgpack read.  A message is a sequence of bytes.  The *)
(* byte a value starts with is the one of the formats; the numbers and      *)
(* lengths that follow are written in bytes of RADIX values, and a value    *)
(* fits its first byte up to the limits INLINE, FIXINT, NEGFIX, FIXSTR and  *)
(* FIXMAP, which are small where a run has small documents.  A decoder      *)
(* returns the value, the position of the byte after it and what it threw.  *)
(***************************************************************************)
EXTENDS JsonValue
LOCAL INSTANCE SequencesExt

CONSTANTS RADIX,   \* 256: the values of a byte
          INLINE,  \* 23: CBOR numbers and lengths kept in the first byte
          FIXINT,  \* 127: MessagePack positive fixint
          NEGFIX,  \* 32: MessagePack negative fixint
          FIXSTR,  \* 31: MessagePack fixstr
          FIXMAP   \* 15: MessagePack fixarray and fixmap
ASSUME RadixAssumption == UintMax = RADIX ^ 8 - 1

\* add_to_vector: the last `bytes` bytes of a number, the highest first.
Bytes(bytes, n) == [i \in 1..bytes |-> ((n % RADIX ^ bytes) \div RADIX ^ (bytes - i)) % RADIX]

NumberOf(s) == FoldLeft(LAMBDA n, b : n * RADIX + b, 0, s)
Signed(n, bytes) == IF n < RADIX ^ bytes \div 2 THEN n ELSE n - RADIX ^ bytes

\* The eight bytes of a double: any injective layout.
FloatBytes(f) == <<IF f.neg THEN 1 ELSE 0, f.e % RADIX>> \o Bytes(6, f.m)
FloatOf(s)    == Float(s[1] = 1, NumberOf(SubSeq(s, 3, 8)), Signed(s[2], 1))

Read(value, at) == [value |-> value, at |-> at, thrown |-> "nothing"]
Failed(ex)      == [value |-> Null, at |-> 0, thrown |-> ex]

\* What follows a read r, unless it has thrown.
Then(r, Rest(_)) == IF r.thrown = "nothing" THEN Rest(r) ELSE r

\* get_from_vector: the number in the bytes after position cur.
GetFromVector(v, cur, bytes) ==
  IF cur + bytes + 1 > Len(v) THEN Failed("out_of_range")
  ELSE Read(NumberOf(SubSeq(v, cur + 2, cur + 1 + bytes)), cur + 1 + bytes)

\* Mutant: len + offset is not compared with the size of the message.
StringAtUnchecked(v, len, offset) ==
  IF len > Len(v) \/ offset > Len(v) THEN Failed("out_of_range")
  ELSE Read(String(SubSeq(v, offset + 1, IF len + offset > Len(v) THEN Len(v) ELSE len + offset)),
            offset + len)

\* check_length, and the string it lets pass.
StringAt(v, len, offset) ==
  IF len > Len(v) \/ offset > Len(v) \/ len + offset > Len(v) THEN Failed("out_of_range")
  ELSE Read(String(SubSeq(v, offset + 1, offset + len)), offset + len)

FloatAt(v, cur) == IF cur + 9 > Len(v) THEN Failed("out_of_range")
                   ELSE Read(FloatOf(SubSeq(v, cur + 2, cur + 9)), cur + 9)

-----------------------------------------------------------------------------
(* CBOR *)

\* Mutant: the limit of an unsigned number in one byte is off by one.
CborHeadOffByOne(major, n) ==
  CASE n <= INLINE        -> <<major + n>>
    [] n <= RADIX         -> <<major + 24>> \o Bytes(1, n)
    [] n <= RADIX ^ 2 - 1 -> <<major + 25>> \o Bytes(2, n)
    [] n <= RADIX ^ 4 - 1 -> <<major + 26>> \o Bytes(4, n)
    [] OTHER              -> <<major + 27>> \o Bytes(8, n)

\* The first byte of a value and the number or length that follows it.
CborHead(major, n) ==
  CASE n <= INLINE        -> <<major + n>>
    [] n <= RADIX - 1     -> <<major + 24>> \o Bytes(1, n)
    [] n <= RADIX ^ 2 - 1 -> <<major + 25>> \o Bytes(2, n)
    [] n <= RADIX ^ 4 - 1 -> <<major + 26>> \o Bytes(4, n)
    [] OTHER              -> <<major + 27>> \o Bytes(8, n)

CborNumber(v) == IF v.n >= 0 THEN CborHead(0, v.n) ELSE CborHead(32, -1 - v.n)
CborString(s) == CborHead(96, Len(s)) \o s

RECURSIVE ToCbor(_)
CborArray(a) == CborHead(128, Len(a)) \o FlattenSeq([i \in DOMAIN a |-> ToCbor(a[i])])
CborObject(o) ==
  LET keys == Keys(o)
  IN  CborHead(160, Len(keys))
      \o FlattenSeq([i \in DOMAIN keys |-> CborString(keys[i]) \o ToCbor(o[keys[i]])])

ToCbor(v) == CASE v.type = "null"         -> <<246>>
               [] v.type = "boolean"      -> <<IF v.b THEN 245 ELSE 244>>
               [] v.type = "number_float" -> <<251>> \o FloatBytes(v)
               [] v.type = "string"       -> CborString(v.s)
               [] v.type = "array"        -> CborArray(v.a)
               [] v.type = "object"       -> CborObject(v.o)
               [] v.type = "discarded"    -> <<>>
               [] OTHER                   -> CborNumber(v)

\* The number or length that starts at cur.
CborCount(v, cur) ==
  LET info == v[cur + 1] % 32
  IN  CASE info < 24 -> Read(info, cur + 1)
        [] info = 24 -> GetFromVector(v, cur, 1)
        [] info = 25 -> GetFromVector(v, cur, 2)
        [] info = 26 -> GetFromVector(v, cur, 4)
        [] info = 27 -> GetFromVector(v, cur, 8)
        [] OTHER     -> Failed("invalid_argument")

CborUnsigned(v, cur) == Then(CborCount(v, cur), LAMBDA c : Read(Unsigned(c.value), c.at))
CborNegative(v, cur) ==
  Then(CborCount(v, cur), LAMBDA c : Read(Integer(-1 - AsInteger(c.value)), c.at))

RECURSIVE FromCbor(_, _), FromMsgpack(_, _)
Decode(format, v, idx) == IF format = "cbor" THEN FromCbor(v, idx) ELSE FromMsgpack(v, idx)

\* Elements are read until n of them are there or, where the length is
\* indefinite (n < 0), until the break byte.
RECURSIVE Elements(_, _, _, _, _)
Elements(v, idx, n, a, format) ==
  CASE n = 0 -> Read(Array(a), idx)
    [] n < 0 /\ idx >= Len(v) -> Failed("out_of_range")
    [] n < 0 /\ idx < Len(v) /\ v[idx + 1] = 255 -> Read(Array(a), idx + 1)
    [] OTHER -> Then(Decode(format, v, idx),
                     LAMBDA x : Elements(v, x.at, n - 1, Append(a, x.value), format))

RECURSIVE Members(_, _, _, _, _)

\* ... with the next key read
MemberAt(v, k, n, o, format) ==
  IF k.value.type # "string" THEN Failed("domain_error")
  ELSE Then(Decode(format, v, k.at),
            LAMBDA x : Members(v, x.at, n - 1, WithMember(o, k.value.s, x.value), format))

Members(v, idx, n, o, format) ==
  CASE n = 0 -> Read(Object(o), idx)
    [] n < 0 /\ idx >= Len(v) -> Failed("out_of_range")
    [] n < 0 /\ idx < Len(v) /\ v[idx + 1] = 255 -> Read(Object(o), idx + 1)
    [] OTHER -> Then(Decode(format, v, idx), LAMBDA k : MemberAt(v, k, n, o, format))

\* A string of indefinite length is the concatenation of its chunks up to the
\* break byte.  The first chunk that is no string stops the reader.
RECURSIVE Chunks(_, _, _)
Chunks(v, idx, s) ==
  CASE idx >= Len(v)    -> Failed("out_of_range")
    [] idx < Len(v) /\ v[idx + 1] = 255 -> Read(String(s), idx + 1)
    [] OTHER -> Then(FromCbor(v, idx),
                     LAMBDA c : IF c.value.type # "string" THEN Failed("domain_error")
                                ELSE Chunks(v, c.at, s \o c.value.s))

CborText(v, cur) ==
  IF v[cur + 1] = 127 THEN Chunks(v, cur + 1, <<>>)
  ELSE Then(CborCount(v, cur), LAMBDA c : StringAt(v, c.value, c.at))

CborElements(v, cur) ==
  IF v[cur + 1] = 159 THEN Elements(v, cur + 1, -1, <<>>, "cbor")
  ELSE Then(CborCount(v, cur), LAMBDA c : Elements(v, c.at, c.value, <<>>, "cbor"))

CborMembers(v, cur) ==
  IF v[cur + 1] = 191 THEN Members(v, cur + 1, -1, NoMembers, "cbor")
  ELSE Then(CborCount(v, cur), LAMBDA c : Members(v, c.at, c.value, NoMembers, "cbor"))

\* from_cbor_internal.  The half and single precision numbers 0xf9 and 0xfa,
\* which to_cbor does not write, are left out.
FromCbor(v, cur) ==
  IF cur >= Len(v) THEN Failed("out_of_range")
  ELSE LET b == v[cur + 1]
       IN  CASE b \in 0..31    -> CborUnsigned(v, cur)
             [] b \in 32..63   -> CborNegative(v, cur)
             [] b \in 96..127  -> CborText(v, cur)
             [] b \in 128..159 -> CborElements(v, cur)
             [] b \in 160..191 -> CborMembers(v, cur)
             [] b \in 244..245 -> Read(Boolean(b = 245), cur + 1)
             [] b = 246        -> Read(Null, cur + 1)
             [] b = 251        -> FloatAt(v, cur)
             [] OTHER          -> Failed("invalid_argument")

-----------------------------------------------------------------------------
(* MessagePack *)

MsgpackUnsigned(n) == CASE n <= FIXINT        -> Bytes(1, n)
                        [] n <= RADIX - 1     -> <<204>> \o Bytes(1, n)
                        [] n <= RADIX ^ 2 - 1 -> <<205>> \o Bytes(2, n)
                        [] n <= RADIX ^ 4 - 1 -> <<206>> \o Bytes(4, n)
                        [] OTHER              -> <<207>> \o Bytes(8, n)

\* Mutant: the range of a negative fixint starts one too low.
MsgpackNegativeWide(n) == CASE n >= -NEGFIX                 -> <<256 + n>>
                            [] n >= -(RADIX \div 2) - 1     -> <<208>> \o Bytes(1, n)
                            [] n >= -(RADIX ^ 2 \div 2)     -> <<209>> \o Bytes(2, n)
                            [] n >= -(RADIX ^ 4 \div 2)     -> <<210>> \o Bytes(4, n)
                            [] OTHER                        -> <<211>> \o Bytes(8, n)

\* A negative fixint is the byte 256 + n.
MsgpackNegative(n) == CASE n >= -NEGFIX               -> <<256 + n>>
                        [] n >= -(RADIX \div 2)       -> <<208>> \o Bytes(1, n)
                        [] n >= -(RADIX ^ 2 \div 2)   -> <<209>> \o Bytes(2, n)
                        [] n >= -(RADIX ^ 4 \div 2)   -> <<210>> \o Bytes(4, n)
                        [] OTHER                      -> <<211>> \o Bytes(8, n)

MsgpackString(s) ==
  LET n == Len(s)
  IN  (CASE n <= FIXSTR       -> <<160 + n>>
        [] n <= RADIX - 1     -> <<217>> \o Bytes(1, n)
        [] n <= RADIX ^ 2 - 1 -> <<218>> \o Bytes(2, n)
        [] OTHER              -> <<219>> \o Bytes(4, n)) \o s

RECURSIVE ToMsgpack(_)
MsgpackArray(a) ==
  LET n == Len(a)
  IN  (CASE n <= FIXMAP       -> <<144 + n>>
        [] n <= RADIX ^ 2 - 1 -> <<220>> \o Bytes(2, n)
        [] OTHER              -> <<221>> \o Bytes(4, n))
      \o FlattenSeq([i \in DOMAIN a |-> ToMsgpack(a[i])])

MsgpackObject(o) ==
  LET keys == Keys(o)
      n    == Len(keys)
  IN  (CASE n <= FIXMAP       -> <<128 + n>>
        [] n <= RADIX ^ 2 - 1 -> <<222>> \o Bytes(2, n)
        [] OTHER              -> <<223>> \o Bytes(4, n))
      \o FlattenSeq([i \in DOMAIN keys |-> MsgpackString(keys[i]) \o ToMsgpack(o[keys[i]])])

ToMsgpack(v) == CASE v.type = "null"         -> <<192>>
                  [] v.type = "boolean"      -> <<IF v.b THEN 195 ELSE 194>>
                  [] v.type = "number_float" -> <<203>> \o FloatBytes(v)
                  [] v.type = "string"       -> MsgpackString(v.s)
                  [] v.type = "array"        -> MsgpackArray(v.a)
                  [] v.type = "object"       -> MsgpackObject(v.o)
                  [] v.type = "discarded"    -> <<>>
                  [] OTHER -> IF v.n >= 0 THEN MsgpackUnsigned(v.n) ELSE MsgpackNegative(v.n)

\* The values of one byte: a small number, or a short structure or string.
MsgpackFixed(v, cur) ==
  LET b == v[cur + 1]
  IN  CASE b <= 127 -> Read(Unsigned(b), cur + 1)
        [] b \in 128..143 -> Members(v, cur + 1, b - 128, NoMembers, "msgpack")
        [] b \in 144..159 -> Elements(v, cur + 1, b - 144, <<>>, "msgpack")
        [] b \in 160..191 -> StringAt(v, b - 160, cur + 1)
        [] OTHER          -> Read(Integer(b - 256), cur + 1)

\* The width of the number or length after the first byte, in bytes.
MsgpackWidth(b) == CASE b \in {204, 208, 217} -> 1
                     [] b \in {205, 209, 218, 220, 222} -> 2
                     [] b \in {206, 210, 219, 221, 223} -> 4
                     [] OTHER -> 8

MsgpackNumber(v, cur) ==
  LET b == v[cur + 1]
  IN  Then(GetFromVector(v, cur, MsgpackWidth(b)),
           LAMBDA c : Read(IF b \in 204..207 THEN Unsigned(c.value)
                           ELSE Integer(Signed(c.value, MsgpackWidth(b))), c.at))

\* A string or structure, of type byte b, whose length c is read.
MsgpackSized(v, b, c) ==
  CASE b \in 217..219 -> StringAt(v, c.value, c.at)
    [] b \in 220..221 -> Elements(v, c.at, c.value, <<>>, "msgpack")
    [] OTHER          -> Members(v, c.at, c.value, NoMembers, "msgpack")

\* from_msgpack_internal.  float 32 (0xca), which to_msgpack does not write,
\* is left out.
FromMsgpack(v, cur) ==
  IF cur >= Len(v) THEN Failed("out_of_range")
  ELSE LET b == v[cur + 1]
       IN  CASE b <= 191 \/ b >= 224  -> MsgpackFixed(v, cur)
             [] b = 192               -> Read(Null, cur + 1)
             [] b \in {194, 195}      -> Read(Boolean(b = 195), cur + 1)
             [] b = 203               -> FloatAt(v, cur)
             [] b \in 204..211        -> MsgpackNumber(v, cur)
             [] b \in 217..223        -> Then(GetFromVector(v, cur, MsgpackWidth(b)),
                                              LAMBDA c : MsgpackSized(v, b, c))
             [] OTHER                 -> Failed("invalid_argument")
=============================================================================
