------------------------------ MODULE JsonText ------------------------------
(***************************************************************************)
(* A text that is written piece by piece and parsed after each, as a program *)
(* does that reads json from a socket.  What is parsed is compared with the *)
(* grammar of JSON, written here without a lexer: a text is split wherever   *)
(* it can be.                                                                *)
(***************************************************************************)
EXTENDS JsonParser, JsonDump
LOCAL INSTANCE SequencesExt

CONSTANTS Alphabets,  \* sets of pieces; a text is written with those of one
          MaxPieces,  \* bound on the number of pieces
          Callbacks   \* the callbacks; "none" keeps everything

VARIABLES text, alphabet, count,
          result      \* what parse(text) returned or threw
vars == <<text, alphabet, count, result>>

Init == /\ alphabet \in Alphabets
        /\ text = <<>>
        /\ count = 0
        /\ result = Parse(<<>>, "none")

Write(piece) == /\ count < MaxPieces
                /\ text' = text \o piece
                /\ count' = count + 1
                /\ result' = Parse(text', "none")
                /\ UNCHANGED alphabet

Next == \E piece \in alphabet : Write(piece)
Spec == Init /\ [][Next]_vars

-----------------------------------------------------------------------------
(* The grammar: the trees a text stands for, of which there is at most one.  *)
(* An object is kept as the sequence of its members.                         *)

AllDigits(s) == s # <<>> /\ \A i \in DOMAIN s : s[i] \in 48..57
From(s, i)   == SubSeq(s, i, Len(s))
IsInt(s)  == LET d == IF s # <<>> /\ s[1] = 45 THEN Tail(s) ELSE s
             IN  AllDigits(d) /\ (d[1] = 48 => Len(d) = 1)
IsFrac(s) == s = <<>> \/ (s[1] = 46 /\ AllDigits(Tail(s)))
IsExp(s)  == \/ s = <<>>
             \/ s[1] \in {69, 101} /\ AllDigits(Tail(s))
             \/ s[1] \in {69, 101} /\ Len(s) > 2 /\ s[2] \in {43, 45} /\ AllDigits(From(s, 3))
Natural(s) == FoldLeft(LAMBDA n, b : 10 * n + b - 48, 0, SelectSeq(s, LAMBDA b : b \in 48..57))

NumberTrees(t) ==
  {LET neg   == t[1] = 45
           power == IF cut[2] = Len(t) THEN 0
                    ELSE (IF t[cut[2] + 2] = 45 THEN -1 ELSE 1) * Natural(From(t, cut[2] + 2))
           n     == Natural(SubSeq(t, 1, cut[1]))
       IN  CASE cut[1] < Len(t) \/ n > (IF neg THEN -IntMin ELSE UintMax) ->
                  FloatValue(neg, Natural(SubSeq(t, 1, cut[2])),
                             power - (IF cut[2] = cut[1] THEN 0 ELSE cut[2] - cut[1] - 1))
             [] neg   -> Integer(-n)
             [] OTHER -> Unsigned(n) :
     cut \in {c \in (1..Len(t)) \X (1..Len(t)) :
                /\ c[1] <= c[2]
                /\ IsInt(SubSeq(t, 1, c[1]))
                /\ IsFrac(SubSeq(t, c[1] + 1, c[2]))
                /\ IsExp(From(t, c[2] + 1))}}

\* What a character of a string stands for, or nothing.
Encoded(c) == IF c \in 0..1114111 /\ c \notin High \cup Low THEN {ToUnicode(c)} ELSE {}
IsEscape(s) == Len(s) = 6 /\ s[1] = 92 /\ s[2] = 117 /\ \A i \in 3..6 : IsHexByte(s[i])
Utf8Point(s) == FoldLeft(LAMBDA n, b : 64 * n + b - 128,
                         s[1] - (CASE Len(s) = 2 -> 192 [] Len(s) = 3 -> 224 [] OTHER -> 240), Tail(s))
Character(s) ==
  CASE Len(s) = 1 -> IF s[1] \in 32..127 /\ s[1] \notin {34, 92} THEN {s} ELSE {}
    [] Len(s) = 2 /\ s[1] = 92 -> IF s[2] \in DOMAIN Unescape THEN {<<Unescape[s[2]]>>} ELSE {}
    [] Len(s) \in 2..4 -> {s} \cap Encoded(Utf8Point(s))
    [] Len(s) = 6 -> IF IsEscape(s) THEN Encoded(CodePoint(s, 2)) ELSE {}
    [] Len(s) = 12 ->
         IF /\ IsEscape(SubSeq(s, 1, 6)) /\ CodePoint(s, 2) \in High
            /\ IsEscape(From(s, 7)) /\ CodePoint(s, 8) \in Low
         THEN Encoded(Paired(CodePoint(s, 2), CodePoint(s, 8))) ELSE {}
    [] OTHER -> {}
RECURSIVE Characters(_)
Characters(s) ==
  IF s = <<>> THEN {<<>>}
  ELSE UNION {{c \o rest : c \in Character(SubSeq(s, 1, n)), rest \in Characters(From(s, n + 1))} :
              n \in {m \in {1, 2, 3, 4, 6, 12} : m <= Len(s) /\ Character(SubSeq(s, 1, m)) # {}}}

\* The positions of a byte, and the parts of a text between some of them.
Where(s, b) == {i \in DOMAIN s : s[i] = b}
Parts(s, cuts) ==
  LET ends == SetToSortSeq(cuts \cup {0, Len(s) + 1}, LAMBDA i, j : i < j)
  IN  [i \in 1..(Len(ends) - 1) |-> SubSeq(s, ends[i] + 1, ends[i + 1] - 1)]
\* All the ways to take one element from each of a sequence of sets.
OneOfEach(sets) ==
  FoldLeft(LAMBDA heads, set : {Append(h, x) : h \in heads, x \in set}, {<<>>}, sets)

IsBlank(s) == \A i \in DOMAIN s : s[i] \in {9, 10, 13, 32}
Stripped(s) == LET solid == {i \in DOMAIN s : s[i] \notin {9, 10, 13, 32}}
               IN  IF solid = {} THEN <<>>
                   ELSE SubSeq(s, CHOOSE i \in solid : \A j \in solid : i <= j,
                                  CHOOSE i \in solid : \A j \in solid : i >= j)

RECURSIVE Trees(_)
MemberTrees(s) ==
  UNION {{<<key.s, v>> : key \in {k \in Trees(SubSeq(s, 1, i - 1)) : k.type = "string"},
                         v \in Trees(From(s, i + 1))} : i \in Where(s, 58)}
Items(s, ItemTrees(_)) ==
  IF IsBlank(s) THEN {<<>>}
  ELSE UNION {OneOfEach([i \in DOMAIN Parts(s, cuts) |-> ItemTrees(Parts(s, cuts)[i])]) :
              cuts \in SUBSET Where(s, 44)}
Trees(t0) ==
  LET t     == Stripped(t0)
      inner == SubSeq(t, 2, Len(t) - 1)
      closed(open, close) == Len(t) >= 2 /\ t[1] = open /\ t[Len(t)] = close
  IN  CASE t = <<>>       -> {}
        [] t = Null_text  -> {Null}
        [] t = True_text  -> {Boolean(TRUE)}
        [] t = False_text -> {Boolean(FALSE)}
        [] closed(34, 34)   -> {String(s) : s \in Characters(inner)}
        [] closed(91, 93)   -> {Array(a) : a \in Items(inner, Trees)}
        [] closed(123, 125) -> {[type |-> "members", m |-> m] : m \in Items(inner, MemberTrees)}
        [] OTHER            -> NumberTrees(t)

\* The lexer takes a NUL byte for the end of the text.
UpToNul(s) == LET nul == Where(s, 0)
              IN  IF nul = {} THEN s ELSE SubSeq(s, 1, (CHOOSE i \in nul : \A j \in nul : i <= j) - 1)

\* What callback cb keeps of a tree: a rejected value is not in its structure,
\* and of two members with the same key the last one that is kept counts.
RECURSIVE Kept_tree(_, _)
Kept_tree(tree, cb) ==
  LET Asked(start, end, v) == IF Kept(cb, 0, start, Discarded) /\ Kept(cb, 0, end, v) THEN v ELSE Discarded
  IN  CASE tree.type = "array" ->
             Asked("array_start", "array_end",
                   Array(SelectSeq([i \in DOMAIN tree.a |-> Kept_tree(tree.a[i], cb)],
                                   LAMBDA v : v # Discarded)))
        [] tree.type = "members" ->
             Asked("object_start", "object_end",
                   Object(FoldLeft(LAMBDA o, m : IF /\ Kept(cb, 0, "key", String(m[1]))
                                                    /\ Kept_tree(m[2], cb) # Discarded
                                                 THEN WithMember(o, m[1], Kept_tree(m[2], cb)) ELSE o,
                                   NoMembers, tree.m)))
        [] OTHER -> IF Kept(cb, 0, "value", tree) THEN tree ELSE Discarded

Expected(trees, cb) ==
  IF trees = {} THEN Throw(Null, "invalid_argument")
  ELSE LET v == Kept_tree(CHOOSE tree \in trees : TRUE, cb)
       IN  Done(IF v = Discarded THEN Null ELSE v)

-----------------------------------------------------------------------------
(* Properties *)

\* parse() returns for every text the value the grammar gives it, and throws
\* invalid_argument for every text that is not JSON.
ParsesExactlyJson == result = Expected(Trees(UpToNul(text)), "none")

\* A callback decides what is kept and nothing else: what it rejects, at its
\* start, its key or its end, is left out of the structure around it, and
\* which texts are accepted does not depend on it.  (The callbacks look at the
\* event and the value: the depth they are told is not right once a structure
\* was rejected at its start, json.hpp:11405, for it is not counted back.)
CallbackFilters ==
  IF result.thrown = "nothing"
  THEN LET trees == Trees(UpToNul(text))
       IN  \A cb \in Callbacks : Parse(text, cb) = Expected(trees, cb)
  ELSE \A cb \in Callbacks : Parse(text, cb).thrown = result.thrown

\* A value as the text of an integer gives it: there is one integer zero.
RECURSIVE OneZero(_)
OneZero(v) == CASE v = Integer(0)       -> Unsigned(0)
                [] v.type = "array"     -> Array([i \in DOMAIN v.a |-> OneZero(v.a[i])])
                [] v.type = "object"    -> Object([k \in DOMAIN v.o |-> OneZero(v.o[k])])
                [] OTHER                -> v

\* Some floating-point number in v has more digits than dump writes.
RECURSIVE IsLong(_)
IsLong(v) == CASE v.type = "number_float" -> Len(Decimal(v.m)) > DIGITS10
               [] v.type = "array"  -> \E i \in DOMAIN v.a : IsLong(v.a[i])
               [] v.type = "object" -> \E k \in DOMAIN v.o : IsLong(v.o[k])
               [] OTHER             -> FALSE

Layouts == {<<FALSE, 0>>, <<TRUE, 0>>, <<TRUE, 2>>}

\* parse(j.dump()) == j for every value that came from a text, on one line or
\* indented, unless a number has more digits than dump writes; then the text
\* of the dump no longer changes.
DumpParses ==
  result.thrown = "nothing" =>
    \A layout \in Layouts :
       LET Dumped(v) == Dump(v, layout[1], layout[2], 0)
           ComesBack(again) ==
             /\ again.thrown = "nothing"
             /\ Dumped(again.value) = Dumped(result.value)
             /\ IsLong(result.value) \/ again.value = OneZero(result.value)
       IN  ComesBack(Parse(Dumped(result.value), "none"))

\* What dump() writes on one line is one line, whatever is in the strings: a
\* message that ends with a newline cannot end earlier.
DumpIsOneLine ==
  result.thrown = "nothing" =>
    LET dumped == Dump(result.value, FALSE, 0, 0) IN \A i \in DOMAIN dumped : dumped[i] >= 32

\* escape_string fills exactly the buffer that extra_space has measured, for
\* every text that is a string.
BufferIsFilled ==
  result.thrown = "nothing" /\ result.value.type = "string" =>
    Len(EscapeString(result.value.s)) = Len(result.value.s) + ExtraSpace(result.value.s)
=============================================================================
