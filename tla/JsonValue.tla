----------------------------- MODULE JsonValue -----------------------------
(***************************************************************************)
(* The values of json.hpp: basic_json with its types, the comparison        *)
(* operators, and the member functions that read or change one value.       *)
(* A string is the sequence of its bytes and an object a function from      *)
(* strings to values (object_t is a std::map).  Positions of arrays are the *)
(* program's: they start at 0.  An iterator is its distance from begin().   *)
(***************************************************************************)
EXTENDS Integers, Sequences, FiniteSets
LOCAL INSTANCE SequencesExt

CONSTANT UintMax    \* numeric_limits<number_unsigned_t>::max()
ASSUME WidthAssumption == UintMax \in Nat /\ UintMax % 2 = 1

IntMax == UintMax \div 2
IntMin == -IntMax - 1

\* static_cast<number_integer_t> of a number_unsigned_t: the same bits.
AsInteger(u) == IF u > IntMax THEN u - UintMax - 1 ELSE u

-----------------------------------------------------------------------------
(* The types of value_t.  A number_float is +-m * 10^e. *)

Null        == [type |-> "null"]
Discarded   == [type |-> "discarded"]
Boolean(b)  == [type |-> "boolean", b |-> b]
String(s)   == [type |-> "string", s |-> s]
Integer(n)  == [type |-> "number_integer", n |-> n]
Unsigned(n) == [type |-> "number_unsigned", n |-> n]
Float(neg, m, e) == [type |-> "number_float", neg |-> neg, m |-> m, e |-> e]
Array(a)    == [type |-> "array", a |-> a]
Object(o)   == [type |-> "object", o |-> o]
NoMembers   == [k \in {} |-> Null]

\* json_value(value_t t): what a value of type t starts as.
Default(t) == CASE t = "object"          -> Object(NoMembers)
                [] t = "array"           -> Array(<<>>)
                [] t = "string"          -> String(<<>>)
                [] t = "boolean"         -> Boolean(FALSE)
                [] t = "number_integer"  -> Integer(0)
                [] t = "number_unsigned" -> Unsigned(0)
                [] t = "number_float"    -> Float(FALSE, 0, 0)
                [] OTHER                 -> Null

is_number(v)     == v.type \in {"number_integer", "number_unsigned", "number_float"}
is_structured(v) == v.type \in {"array", "object"}

size(v) == CASE v.type = "null"   -> 0
             [] v.type = "array"  -> Len(v.a)
             [] v.type = "object" -> Cardinality(DOMAIN v.o)
             [] OTHER             -> 1

-----------------------------------------------------------------------------
(* operator== and operator< *)

\* std::lexicographical_compare
LexicographicLess(s, t, LT(_, _)) ==
  \E i \in 1..Len(t) :
     /\ i <= Len(s) => LT(s[i], t[i])
     /\ i <= Len(s) + 1
     /\ \A j \in 1..(i - 1) : ~LT(s[j], t[j]) /\ ~LT(t[j], s[j])

StringLess(s, t) == LexicographicLess(s, t, LAMBDA x, y : x < y)

\* The keys of an object in the order in which std::map walks them.
Keys(o) == SetToSortSeq(DOMAIN o, StringLess)
Pairs(o) == [i \in DOMAIN Keys(o) |-> [key |-> Keys(o)[i], value |-> o[Keys(o)[i]]]]

\* A number brought to the exponent e.
Scaled(v, e) == IF v.type = "number_float"
                THEN (IF v.neg THEN -v.m ELSE v.m) * 10 ^ (v.e - e)
                ELSE v.n * 10 ^ (-e)

\* Both as floating-point numbers.  Bound: an integer fits a double exactly,
\* which the program's do up to 2^53.
AsFloats(v, w) ==
  LET low == CHOOSE e \in {0} \cup {x.e : x \in {y \in {v, w} : y.type = "number_float"}} :
               \A x \in {v, w} : e <= 0 /\ (x.type = "number_float" => e <= x.e)
  IN  <<Scaled(v, low), Scaled(w, low)>>

\* Mutant: a float is cast to an integer when it is compared with one.
ComparedTruncated(v, w) ==
  LET Sign(x)  == IF x.neg THEN -1 ELSE 1
      Whole(x) == CASE x.type # "number_float" -> x.n
                    [] x.e < 0 -> Sign(x) * (x.m \div 10 ^ (-x.e))
                    [] OTHER   -> Sign(x) * x.m * 10 ^ x.e
  IN  IF {v.type, w.type} = {"number_float"} THEN AsFloats(v, w) ELSE <<Whole(v), Whole(w)>>

\* The two numbers that are compared for v and w: both as floating-point
\* numbers when one is; both as signed integers when the types differ
\* otherwise.
Compared(v, w) ==
  CASE "number_float" \in {v.type, w.type} -> AsFloats(v, w)
    [] v.type = w.type -> <<v.n, w.n>>
    [] v.type = "number_unsigned" -> <<AsInteger(v.n), w.n>>
    [] OTHER -> <<v.n, AsInteger(w.n)>>

RECURSIVE Equal(_, _)
Equal(v, w) ==
  CASE is_number(v) /\ is_number(w) -> LET c == Compared(v, w) IN c[1] = c[2]
    [] v.type # w.type              -> FALSE
    [] v.type = "array"  -> Len(v.a) = Len(w.a) /\ \A i \in DOMAIN v.a : Equal(v.a[i], w.a[i])
    [] v.type = "object" -> DOMAIN v.o = DOMAIN w.o /\ \A k \in DOMAIN v.o : Equal(v.o[k], w.o[k])
    [] OTHER -> v.type # "discarded" /\ v = w

\* operator<(value_t, value_t)
TypeOrder == [null |-> 0, boolean |-> 1, number_integer |-> 2, number_unsigned |-> 2,
              number_float |-> 2, object |-> 3, array |-> 4, string |-> 5]

RECURSIVE Less(_, _)
Less(v, w) ==
  CASE "discarded" \in {v.type, w.type} -> FALSE
    [] is_number(v) /\ is_number(w) -> LET c == Compared(v, w) IN c[1] < c[2]
    [] v.type # w.type     -> TypeOrder[v.type] < TypeOrder[w.type]
    [] v.type = "array"    -> LexicographicLess(v.a, w.a, Less)
    [] v.type = "object"   ->
         LexicographicLess(Pairs(v.o), Pairs(w.o),
            LAMBDA p, q : StringLess(p.key, q.key) \/ (p.key = q.key /\ Less(p.value, q.value)))
    [] v.type = "string"   -> StringLess(v.s, w.s)
    [] v.type = "boolean"  -> ~v.b /\ w.b
    [] OTHER -> FALSE

LessOrEqual(v, w)    == ~Less(w, v)
Greater(v, w)        == ~LessOrEqual(v, w)
GreaterOrEqual(v, w) == ~Less(v, w)

-----------------------------------------------------------------------------
(* Member functions.  Each returns what it leaves in the value and what it  *)
(* threw.                                                                    *)

Done(v)      == [value |-> v, thrown |-> "nothing"]
Throw(v, ex) == [value |-> v, thrown |-> ex]

\* The array a after the elements s are put before position pos.
InsertedAt(a, pos, s) == SubSeq(a, 1, pos) \o s \o SubSeq(a, pos + 1, Len(a))
ErasedAt(a, first, last) == SubSeq(a, 1, first) \o SubSeq(a, last + 1, Len(a))
WithMember(o, k, x)   == [l \in DOMAIN o \cup {k} |-> IF l = k THEN x ELSE o[l]]
WithoutMember(o, k)   == [l \in DOMAIN o \ {k} |-> o[l]]

\* A null value becomes an empty structure of the type that is wanted.
Promoted(v, t) == IF v.type = "null" THEN Default(t) ELSE v

\* basic_json(initializer_list): pairs that start with a string make an object.
IsPair(x) == x.type = "array" /\ Len(x.a) = 2 /\ x.a[1].type = "string"
FromList(init) ==
  IF \A i \in DOMAIN init : IsPair(init[i])
  THEN Object([k \in {init[i].a[1].s : i \in DOMAIN init} |->
                 init[CHOOSE i \in DOMAIN init :
                        /\ init[i].a[1].s = k
                        /\ \A j \in 1..(i - 1) : init[j].a[1].s # k].a[2]])
  ELSE Array(init)

\* push_back(const basic_json&) and its variants; emplace_back.
PushBack(v, x) == LET p == Promoted(v, "array")
                  IN  IF p.type = "array" THEN Done(Array(Append(p.a, x)))
                      ELSE Throw(v, "domain_error")

\* push_back(object_t::value_type) and emplace: a key that is there stays.
PushPair(v, k, x) == LET p == Promoted(v, "object")
                     IN  IF p.type # "object" THEN Throw(v, "domain_error")
                         ELSE IF k \in DOMAIN p.o THEN Done(p)
                         ELSE Done(Object(WithMember(p.o, k, x)))

\* push_back(initializer_list)
PushList(v, init) ==
  IF v.type = "object" /\ Len(init) = 2 /\ init[1].type = "string"
  THEN PushPair(v, init[1].s, init[2])
  ELSE PushBack(v, FromList(init))

Insert(v, pos, s) == IF v.type = "array" THEN Done(Array(InsertedAt(v.a, pos, s)))
                     ELSE Throw(v, "domain_error")

\* Mutant: an array that grows is filled up with discarded values.
AssignAtUnfilled(v, idx, x) ==
  LET p == Promoted(v, "array")
      grown == IF p.type # "array" \/ idx < Len(p.a) THEN p
               ELSE Array(p.a \o [i \in 1..(idx - Len(p.a) + 1) |-> Discarded])
  IN  IF p.type = "array" THEN Done(Array([grown.a EXCEPT ![idx + 1] = x]))
      ELSE Throw(v, "domain_error")

\* operator[](size_type) and what is assigned through it.
AssignAt(v, idx, x) ==
  LET p == Promoted(v, "array")
      grown == IF p.type # "array" \/ idx < Len(p.a) THEN p
               ELSE Array(p.a \o [i \in 1..(idx - Len(p.a) + 1) |-> Null])
  IN  IF p.type = "array" THEN Done(Array([grown.a EXCEPT ![idx + 1] = x]))
      ELSE Throw(v, "domain_error")

\* operator[](key) and what is assigned through it.
AssignKey(v, k, x) == LET p == Promoted(v, "object")
                      IN  IF p.type = "object" THEN Done(Object(WithMember(p.o, k, x)))
                          ELSE Throw(v, "domain_error")

EraseKey(v, k) == IF v.type = "object" THEN Done(Object(WithoutMember(v.o, k)))
                  ELSE Throw(v, "domain_error")

EraseIndex(v, idx) == IF v.type # "array" THEN Throw(v, "domain_error")
                      ELSE IF idx >= Len(v.a) THEN Throw(v, "out_of_range")
                      ELSE Done(Array(ErasedAt(v.a, idx, idx + 1)))

\* erase(first, last): a primitive is a range of one, and is left null.
EraseRange(v, first, last) ==
  CASE v.type = "null"  -> Throw(v, "domain_error")
    [] v.type = "array" -> Done(Array(ErasedAt(v.a, first, last)))
    [] v.type = "object" ->
         LET gone == {Keys(v.o)[i] : i \in (first + 1)..last}
         IN  Done(Object([k \in DOMAIN v.o \ gone |-> v.o[k]]))
    [] OTHER -> IF first = 0 /\ last = 1 THEN Done(Null) ELSE Throw(v, "out_of_range")

\* erase(pos)
EraseAt(v, pos) == IF is_structured(v) \/ v.type = "null" THEN EraseRange(v, pos, pos + 1)
                   ELSE IF pos = 0 THEN Done(Null) ELSE Throw(v, "out_of_range")

Clear(v) == Default(v.type)

\* numtostr::x_write for integers, std::to_string: the decimal digits.
RECURSIVE Decimal(_)
Decimal(n) == IF n < 0 THEN <<45>> \o Decimal(-n)
              ELSE IF n < 10 THEN <<48 + n>>
              ELSE Decimal(n \div 10) \o <<48 + (n % 10)>>

\* at(size_type) and at(key)
AtIndex(v, idx) == IF v.type # "array" THEN Throw(Null, "domain_error")
                   ELSE IF idx \notin 0..(Len(v.a) - 1) THEN Throw(Null, "out_of_range")
                   ELSE Done(v.a[idx + 1])
AtKey(v, k) == IF v.type # "object" THEN Throw(Null, "domain_error")
               ELSE IF k \notin DOMAIN v.o THEN Throw(Null, "out_of_range")
               ELSE Done(v.o[k])
=============================================================================
