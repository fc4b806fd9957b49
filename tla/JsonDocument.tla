---------------------------- MODULE JsonDocument ---------------------------
(***************************************************************************)
(* A program that works on two json values of json.hpp: it calls the member *)
(* functions that change one of them, in any order, and after any such      *)
(* history writes it as CBOR or MessagePack, flattens it, compares it with  *)
(* the other and computes the patch between them.                           *)
(***************************************************************************)
EXTENDS JsonBinary, JsonPointer
LOCAL INSTANCE SequencesExt
LOCAL INSTANCE FiniteSetsExt

CONSTANTS Start,      \* the documents the program starts with
          Argument,   \* the values it passes to member functions
          Key,        \* the keys
          Pointer,    \* the JSON pointers, as sequences of tokens
          Operations, \* the patches
          Others,     \* bound: what the other value can be
          Third,      \* the values that the order of the two is tested with
          MaxNodes,   \* bound on the number of values in doc after a call
          MaxKey      \* bound on the length of the keys that are in doc after a call

VARIABLES doc,     \* the value the functions are called on
          other    \* another value
vars == <<doc, other>>

RECURSIVE Nodes(_)
Nodes(v) ==
  CASE v.type = "array"  -> MapThenSumSet(LAMBDA i : Nodes(v.a[i]), DOMAIN v.a) + 1
    [] v.type = "object" -> MapThenSumSet(LAMBDA k : Nodes(v.o[k]), DOMAIN v.o) + 1
    [] OTHER             -> 1

RECURSIVE ShortKeys(_)
ShortKeys(v) ==
  CASE v.type = "array"  -> \A i \in DOMAIN v.a : ShortKeys(v.a[i])
    [] v.type = "object" -> \A k \in DOMAIN v.o : Len(k) <= MaxKey /\ ShortKeys(v.o[k])
    [] OTHER             -> TRUE

Init == doc \in Start /\ other \in Others

\* A member function of doc that leaves r.value in it; what it throws, the
\* program catches.
Call(r) == /\ Nodes(r.value) <= MaxNodes /\ ShortKeys(r.value)
           /\ doc' = r.value
           /\ UNCHANGED other

\* A member function that returns a new value, which is assigned to doc.
Assign(r) == r.thrown = "nothing" /\ Call(r)

PushBackValue == \E x \in Argument : Call(PushBack(doc, x))
PushBackOther == Call(PushBack(doc, other))
PushBackPair  == \E k \in Key, x \in Argument : Call(PushPair(doc, k, x))
PushBackList  == \E k \in Key, x, y \in Argument :
                    \/ Call(PushList(doc, <<String(k), y>>))
                    \/ Call(PushList(doc, <<Array(<<String(k), x>>), Array(<<String(k), y>>)>>))
InsertValues  == \E pos \in 0..size(doc), n \in 0..2, x \in Argument :
                    Call(Insert(doc, pos, [i \in 1..n |-> x]))
InsertOther   == other.type = "array" /\ \E pos \in 0..size(doc) : Call(Insert(doc, pos, other.a))
Subscript     == \/ \E idx \in 0..2, x \in Argument : Call(AssignAt(doc, idx, x))
                 \/ \E k \in Key, x \in Argument : Call(AssignKey(doc, k, x))
SubscriptPointer == \E tokens \in Pointer, x \in Argument : Call(AssignPointer(doc, tokens, x))
EraseOne      == \/ \E k \in Key : Call(EraseKey(doc, k))
                 \/ \E idx \in 0..2 : Call(EraseIndex(doc, idx))
                 \/ \E pos \in 0..1 : (is_structured(doc) => pos < size(doc)) /\ Call(EraseAt(doc, pos))
EraseSome     == \E last \in 0..size(doc), first \in 0..1 :
                    first <= last /\ Call(EraseRange(doc, first, last))
ClearAll      == Call(Done(Clear(doc)))
AssignValue   == \E x \in Argument : Assign(Done(x))
ApplyPatch    == \E ops \in Operations, leftFirst \in BOOLEAN : Assign(Patched(doc, ops, leftFirst))
ApplyUnflatten == Assign(Unflatten(doc))
ApplyFlatten  == Assign(Done(Flatten(doc)))
Swap          == /\ doc \in Others
                 /\ doc' = other
                 /\ other' = doc

Next == \/ PushBackValue \/ PushBackOther \/ PushBackPair \/ PushBackList
        \/ InsertValues \/ InsertOther \/ Subscript \/ SubscriptPointer
        \/ EraseOne \/ EraseSome \/ ClearAll \/ AssignValue
        \/ ApplyPatch \/ ApplyUnflatten \/ ApplyFlatten \/ Swap

Spec == Init /\ [][Next]_vars

-----------------------------------------------------------------------------
(* Properties *)

\* What the functions rely on (assert_invariant, and the lists of the types):
\* values are of their types at every depth, and no call leaves the value
\* "discarded" in a document.
RECURSIVE WellTyped(_)
WellTyped(v) ==
  CASE v.type = "array"  -> \A i \in DOMAIN v.a : WellTyped(v.a[i])
    [] v.type = "object" -> \A k \in DOMAIN v.o : k \in Seq(0..255) /\ WellTyped(v.o[k])
    [] v.type = "string" -> v.s \in Seq(0..255)
    [] v.type = "number_integer"  -> v.n \in IntMin..IntMax
    [] v.type = "number_unsigned" -> v.n \in 0..UintMax
    [] OTHER -> v.type \in {"null", "boolean", "number_float"}
DocumentTypeOK == WellTyped(doc) /\ WellTyped(other)

\* The CBOR of another program, with indefinite lengths wherever they may be.
RECURSIVE Indefinite(_)
Indefinite(v) ==
  CASE v.type = "array" ->
         <<159>> \o FlattenSeq([i \in DOMAIN v.a |-> Indefinite(v.a[i])]) \o <<255>>
    [] v.type = "object" ->
         <<191>> \o FlattenSeq([i \in DOMAIN Keys(v.o) |->
                       Indefinite(String(Keys(v.o)[i])) \o Indefinite(v.o[Keys(v.o)[i]])]) \o <<255>>
    [] v.type = "string" ->
         <<127>> \o FlattenSeq([i \in DOMAIN v.s |-> CborString(<<v.s[i]>>)]) \o <<255>>
    [] OTHER -> ToCbor(v)

\* Reading bytes gives v back and stops at their end.
Gives(read, v, bytes) ==
  read.thrown = "nothing" /\ Equal(read.value, v) /\ read.at = Len(bytes)

\* from_cbor(to_cbor(j)) == j: whatever calls made a document, its CBOR gives
\* it back, the one to_cbor writes and the one with indefinite lengths.
CborRoundTrip == /\ Gives(FromCbor(ToCbor(doc), 0), doc, ToCbor(doc))
                 /\ Gives(FromCbor(Indefinite(doc), 0), doc, Indefinite(doc))

\* from_msgpack(to_msgpack(j)) == j.
MsgpackRoundTrip == Gives(FromMsgpack(ToMsgpack(doc), 0), doc, ToMsgpack(doc))

\* Every message of to_cbor or to_msgpack that is cut short is refused with
\* out_of_range (check_length, get_from_vector, vector::at), and nothing is read
\* beyond its end.
TruncationThrows ==
  \A format \in {"cbor", "msgpack"} :
     LET bytes == IF format = "cbor" THEN ToCbor(doc) ELSE ToMsgpack(doc)
     IN  \A n \in 0..(Len(bytes) - 1) :
            Decode(format, SubSeq(bytes, 1, n), 0).thrown = "out_of_range"

\* source.patch(diff(source, target)) == target, which the documentation of
\* diff states for all values: whatever doc has become, its patch to a number,
\* an array or an object makes that of it, at keys that have to be escaped and
\* at positions that shift, too.  (diff writes no copy.)
PatchAppliesDiff == LET r == Patched(doc, Diff(doc, other, <<>>), TRUE)
                    IN  r.thrown = "nothing" /\ Equal(r.value, other)

\* Some value of v, at any depth, satisfies P.
RECURSIVE SomeValue(_, _)
SomeValue(v, P) ==
  \/ P = "empty" /\ is_structured(v) /\ size(v) = 0
  \/ P = "zero key" /\ v.type = "object" /\ ZERO \in DOMAIN v.o
  \/ P = "wraps" /\ v.type = "number_unsigned" /\ v.n > IntMax
  \/ P = "signed" /\ v.type = "number_integer"
  \/ v.type = "array" /\ \E i \in DOMAIN v.a : SomeValue(v.a[i], P)
  \/ v.type = "object" /\ \E k \in DOMAIN v.o : SomeValue(v.o[k], P)

Restored == LET r == Unflatten(Flatten(doc)) IN r.thrown = "nothing" /\ Equal(r.value, doc)

\* j == j.flatten().unflatten() for a document without empty structures and
\* without an object that has the key "0".  (The documentation of unflatten
\* exempts the empty ones only, but an object whose first key is "0" comes
\* back as an array, or not at all.)
FlattenInverted == SomeValue(doc, "empty") \/ SomeValue(doc, "zero key") \/ Restored

\* operator< orders the values and operator== agrees with it: of two values one
\* is less or they are equal, less is transitive, and equal values compare alike
\* with a third, whatever types of numbers are mixed.  (Only where an unsigned
\* number wraps because it meets a signed one there is no order: -1 equals the
\* largest unsigned number, which is greater than the unsigned 0.)
OrderIsTotal ==
  \A x \in Third :
    LET values == <<doc, other, x>>
        Some(P) == \E i \in 1..3 : SomeValue(values[i], P)
        less == [p \in (1..3) \X (1..3) |-> Less(values[p[1]], values[p[2]])]
        same == [p \in (1..3) \X (1..3) |-> Equal(values[p[1]], values[p[2]])]
    IN  (Some("wraps") /\ Some("signed")) \/ \A i, j \in 1..3 :
          /\ same[i, j] = (~less[i, j] /\ ~less[j, i])
          /\ ~(less[i, j] /\ less[j, i])
          /\ \A k \in 1..3 : /\ (less[i, j] \/ same[i, j]) /\ less[j, k] => less[i, k]
                            /\ less[i, j] /\ same[j, k] => less[i, k]
=============================================================================
