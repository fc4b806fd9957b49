---------------------------- MODULE JsonPointer ----------------------------
(***************************************************************************)
(* JSON pointers, flatten and unflatten, and JSON patches of json.hpp.  A   *)
(* pointer is the sequence of its reference tokens.  An operation of a      *)
(* patch is a record with the members the JSON object has.                  *)
(***************************************************************************)
EXTENDS JsonValue
LOCAL INSTANCE SequencesExt

TILDE == 126
SLASH == 47
DASH  == <<45>>
ZERO  == <<48>>

\* replace_substring: every occurrence of f, from left to right, becomes t.
RECURSIVE Replaced(_, _, _)
Replaced(s, f, t) ==
  LET found == {i \in 1..(Len(s) - Len(f) + 1) : SubSeq(s, i, i + Len(f) - 1) = f}
      first == CHOOSE i \in found : \A j \in found : i <= j
  IN  IF found = {} THEN s
      ELSE SubSeq(s, 1, first - 1) \o t \o Replaced(SubSeq(s, first + Len(f), Len(s)), f, t)

\* Mutant: the slashes are escaped first.
EscapedSlashFirst(s) == Replaced(Replaced(s, <<SLASH>>, <<TILDE, 49>>), <<TILDE>>, <<TILDE, 48>>)

Escaped(s) == Replaced(Replaced(s, <<TILDE>>, <<TILDE, 48>>), <<SLASH>>, <<TILDE, 49>>)

Unescaped(s) == Replaced(Replaced(s, <<TILDE, 49>>, <<SLASH>>), <<TILDE, 48>>, <<TILDE>>)

\* split(): the text of a pointer into its tokens.
WellEscaped(s) == \A i \in DOMAIN s : s[i] = TILDE => i < Len(s) /\ s[i + 1] \in {48, 49}
Split(s) ==
  LET slashes  == SetToSortSeq({i \in DOMAIN s : s[i] = SLASH} \cup {Len(s) + 1},
                               LAMBDA i, j : i < j)
      raw      == [i \in 1..(Len(slashes) - 1) |-> SubSeq(s, slashes[i] + 1, slashes[i + 1] - 1)]
  IN  IF s = <<>> THEN Done(<<>>)
      ELSE IF s[1] # SLASH \/ \E i \in DOMAIN raw : ~WellEscaped(raw[i])
      THEN Throw(<<>>, "domain_error")
      ELSE Done([i \in DOMAIN raw |-> Unescaped(raw[i])])

-----------------------------------------------------------------------------
(* Walking along a pointer.  The result names the value that is left, what  *)
(* was thrown, and the path of keys and positions that was taken.           *)

IsDigit(b) == b \in 48..57

\* std::stoi, which takes the digits a token starts with.
Stoi(token) ==
  LET n == CHOOSE n \in DOMAIN token : /\ \A i \in 1..n : IsDigit(token[i])
                                       /\ n = Len(token) \/ ~IsDigit(token[n + 1])
  IN  FoldLeft(LAMBDA x, b : 10 * x + b - 48, 0, SubSeq(token, 1, n))
NotAnIndex(token) == token = <<>> \/ ~IsDigit(token[1])
LeadingZero(token) == Len(token) > 1 /\ token[1] = 48

Child(v, step) == CASE v.type = "array"  -> IF step < Len(v.a) THEN v.a[step + 1] ELSE Null
                    [] v.type = "object" -> IF step \in DOMAIN v.o THEN v.o[step] ELSE Null
WithChild(v, step, x) == (IF v.type = "array" THEN AssignAt(v, step, x)
                          ELSE AssignKey(v, step, x)).value
RECURSIVE SetAt(_, _, _)
SetAt(v, path, x) == IF path = <<>> THEN x
                     ELSE WithChild(v, path[1], SetAt(Child(v, path[1]), Tail(path), x))
RECURSIVE GetAt(_, _)
GetAt(v, path) == IF path = <<>> THEN v ELSE GetAt(Child(v, path[1]), Tail(path))

Reached(v)      == [value |-> v, thrown |-> "nothing", path |-> <<>>]
Stopped(v, ex)  == [value |-> v, thrown |-> ex, path |-> <<>>]

\* What follows a step c of a function that leaves v alone when c has thrown.
Unless(v, c, Rest(_)) == IF c.thrown = "nothing" THEN Rest(c) ELSE Throw(v, c.thrown)

\* get_checked: every step has to exist.  The value is the one that is found.
RECURSIVE GetChecked(_, _)
GetChecked(v, tokens) ==
  IF tokens = <<>> THEN Reached(v)
  ELSE LET t    == tokens[1]
           step == IF v.type = "array" THEN Stoi(t) ELSE t
           next == GetChecked(Child(v, step), Tail(tokens))
           Missing == CASE v.type = "object" -> t \notin DOMAIN v.o
                        [] v.type = "array"  -> Stoi(t) >= Len(v.a)
       IN  CASE ~is_structured(v) -> Stopped(v, "out_of_range")
             [] v.type = "array" /\ t = DASH       -> Stopped(v, "out_of_range")
             [] v.type = "array" /\ LeadingZero(t) -> Stopped(v, "domain_error")
             [] v.type = "array" /\ NotAnIndex(t)  -> Stopped(v, "invalid_argument")
             [] OTHER -> IF Missing THEN Stopped(v, "out_of_range")
                         ELSE [next EXCEPT !.path = <<step>> \o @]

\* get_unchecked: missing steps are made on the way.  The value is the whole
\* document as it is left, also when a later step throws.
RECURSIVE GetUnchecked(_, _)
GetUnchecked(v, tokens) ==
  IF tokens = <<>> THEN Reached(v)
  ELSE LET t    == tokens[1]
           p    == Promoted(v, IF t = DASH \/ \A i \in DOMAIN t : IsDigit(t[i])
                               THEN "array" ELSE "object")
           step == IF p.type = "object" THEN t
                   ELSE IF t = DASH THEN Len(p.a) ELSE Stoi(t)
           next == GetUnchecked(Child(p, step), Tail(tokens))
       IN  CASE ~is_structured(p) -> Stopped(v, "out_of_range")
             [] p.type = "array" /\ LeadingZero(t) -> Stopped(p, "domain_error")
             [] p.type = "array" /\ t # DASH /\ NotAnIndex(t) -> Stopped(p, "invalid_argument")
             [] OTHER -> [next EXCEPT !.value = WithChild(p, step, @), !.path = <<step>> \o @]

\* get_and_create, the walk of unflatten: a missing step is an array when the
\* token is "0" and an object otherwise.
RECURSIVE GetAndCreate(_, _)
GetAndCreate(v, tokens) ==
  IF tokens = <<>> THEN Reached(v)
  ELSE LET t    == tokens[1]
           p    == Promoted(v, IF t = ZERO THEN "array" ELSE "object")
           step == IF p.type = "object" THEN t ELSE Stoi(t)
           next == GetAndCreate(Child(p, step), Tail(tokens))
       IN  CASE ~is_structured(p) -> Stopped(v, "domain_error")
             [] p.type = "array" /\ NotAnIndex(t) -> Stopped(p, "invalid_argument")
             [] OTHER -> [next EXCEPT !.value = WithChild(p, step, @), !.path = <<step>> \o @]

\* operator[](json_pointer) and what is assigned through it.
AssignPointer(v, tokens, x) ==
  LET c == GetUnchecked(v, tokens)
  IN  IF c.thrown = "nothing" THEN Done(SetAt(c.value, c.path, x)) ELSE Throw(c.value, c.thrown)

-----------------------------------------------------------------------------
(* flatten and unflatten *)

RECURSIVE Leaves(_, _)
Leaves(ref, v) ==
  CASE ~is_structured(v) -> {<<ref, v>>}
    [] size(v) = 0       -> {<<ref, Null>>}
    [] v.type = "array"  -> UNION {Leaves(ref \o <<SLASH>> \o Decimal(i - 1), v.a[i]) : i \in DOMAIN v.a}
    [] OTHER             -> UNION {Leaves(ref \o <<SLASH>> \o Escaped(k), v.o[k]) : k \in DOMAIN v.o}

Flatten(v) == LET leaves == Leaves(<<>>, v)
              IN  Object([k \in {l[1] : l \in leaves} |-> (CHOOSE l \in leaves : l[1] = k)[2]])

UnflattenStep(r, k, x) ==
  CASE r.thrown # "nothing" -> r
    [] is_structured(x)     -> Throw(r.value, "domain_error")
    [] OTHER -> Unless(r.value, Split(k), LAMBDA s :
                  Unless(r.value, GetAndCreate(r.value, s.value), LAMBDA c :
                    Done(SetAt(c.value, c.path, x))))

Unflatten(v) == IF v.type # "object" THEN Throw(v, "domain_error")
                ELSE FoldLeft(LAMBDA r, k : UnflattenStep(r, k, v.o[k]), Done(Null), Keys(v.o))

-----------------------------------------------------------------------------
(* patch and diff *)

\* The document with what an operation has left of the value at path.
PutBack(document, path, left) == [left EXCEPT !.value = SetAt(document, path, @)]

\* operation_add, to the parent.  One that is neither null nor a structure is
\* the assert(false) of the code.
AddedTo(parent, key, x) ==
  CASE parent.type \in {"null", "object"} -> AssignKey(parent, key, x)
    [] parent.type # "array"              -> Throw(parent, "assert")
    [] key = DASH                         -> PushBack(parent, x)
    [] NotAnIndex(key)                    -> Throw(parent, "invalid_argument")
    [] OTHER -> IF Stoi(key) > Len(parent.a) THEN Throw(parent, "out_of_range")
                ELSE Insert(parent, Stoi(key), <<x>>)

AddBelow(c, key, x) ==
  IF c.thrown # "nothing" THEN Throw(c.value, c.thrown)
  ELSE PutBack(c.value, c.path, AddedTo(GetAt(c.value, c.path), key, x))

OperationAdd(r, tokens, x) ==
  IF tokens = <<>> THEN Done(x)
  ELSE Unless(r, IF Len(tokens) = 1 THEN Reached(r) ELSE GetChecked(r, <<tokens[1]>>),
              LAMBDA top : AddBelow(GetUnchecked(r, Front(tokens)), Last(tokens), x))

\* operation_remove, from the parent.  Nothing happens below a primitive value.
RemovedFrom(parent, key) ==
  CASE parent.type = "object" -> IF key \in DOMAIN parent.o THEN EraseKey(parent, key)
                                 ELSE Throw(parent, "out_of_range")
    [] parent.type = "array"  -> IF NotAnIndex(key) THEN Throw(parent, "invalid_argument")
                                 ELSE EraseIndex(parent, Stoi(key))
    [] OTHER -> Done(parent)

OperationRemove(r, tokens) ==
  IF tokens = <<>> THEN Throw(r, "domain_error")
  ELSE Unless(r, GetChecked(r, Front(tokens)),
              LAMBDA c : PutBack(r, c.path, RemovedFrom(c.value, Last(tokens))))

\* What must be in the operation, besides "op" and "path".
Needs == [add |-> {"value"}, remove |-> {}, replace |-> {"value"}, move |-> {"from"},
          copy |-> {"from"}, test |-> {"value"}]

AddMoved(removed, tokens, x) ==
  IF removed.thrown # "nothing" THEN removed ELSE OperationAdd(removed.value, tokens, x)

Move(r, from, tokens) ==
  Unless(r, GetChecked(r, from),
         LAMBDA source : AddMoved(OperationRemove(r, from), tokens, source.value))

\* Of result[ptr] = result.at(from_ptr) either side may be evaluated first (in
\* C++11); the left one makes the steps that are missing.
Copy(r, from, tokens, leftFirst) ==
  IF leftFirst
  THEN LET c == GetUnchecked(r, tokens)
       IN  Unless(c.value, c, LAMBDA target :
             Unless(target.value, GetChecked(target.value, from),
                    LAMBDA source : Done(SetAt(target.value, target.path, source.value))))
  ELSE Unless(r, GetChecked(r, from), LAMBDA source : AssignPointer(r, tokens, source.value))

\* A value that is not there, or is another one, fails the test.
Test(r, there, x) ==
  CASE there.thrown = "nothing" /\ Equal(there.value, x) -> Done(r)
    [] there.thrown \in {"nothing", "out_of_range"}      -> Throw(r, "domain_error")
    [] OTHER                                             -> Throw(r, there.thrown)

ApplyAt(r, op, tokens, leftFirst) ==
  CASE op.op \notin DOMAIN Needs        -> Throw(r, "invalid_argument")
    [] OTHER ->
  CASE Needs[op.op] \ DOMAIN op # {} -> Throw(r, "invalid_argument")
    [] op.op = "move"    -> Unless(r, Split(op.from), LAMBDA from : Move(r, from.value, tokens))
    [] op.op = "copy"    -> Unless(r, Split(op.from),
                                   LAMBDA from : Copy(r, from.value, tokens, leftFirst))
    [] op.op = "add"     -> OperationAdd(r, tokens, op.value)
    [] op.op = "remove"  -> OperationRemove(r, tokens)
    [] op.op = "replace" -> Unless(r, GetChecked(r, tokens),
                                   LAMBDA there : Done(SetAt(r, there.path, op.value)))
    [] OTHER             -> Test(r, GetChecked(r, tokens), op.value)

\* One operation, applied to the copy r of the document.
Apply(r, op, leftFirst) ==
  IF {"op", "path"} \ DOMAIN op # {} THEN Throw(r, "invalid_argument")
  ELSE Unless(r, Split(op.path), LAMBDA s : ApplyAt(r, op, s.value, leftFirst))

\* patch(): all the operations in turn, until one throws.
Patched(v, ops, leftFirst) ==
  FoldLeft(LAMBDA r, op : IF r.thrown = "nothing" THEN Apply(r.value, op, leftFirst) ELSE r,
           Done(v), ops)

\* The number of elements of s beyond the length of t.
Excess(s, t) == IF Len(s) > Len(t) THEN Len(s) - Len(t) ELSE 0

\* Mutant: the elements beyond the target are removed front to back.
RemovalsForward(source, target, path) ==
  [i \in 1..Excess(source, target) |->
     [op |-> "remove", path |-> path \o <<SLASH>> \o Decimal(Len(target) + i - 1)]]

\* diff() of two arrays: what is beyond the target is removed back to front.
Removals(source, target, path) ==
  [i \in 1..Excess(source, target) |->
     [op |-> "remove", path |-> path \o <<SLASH>> \o Decimal(Len(source) - i)]]
Additions(source, target, path) ==
  [i \in 1..Excess(target, source) |->
     [op |-> "add", path |-> path \o <<SLASH>> \o Decimal(Len(source) + i - 1),
      value |-> target[Len(source) + i]]]

RECURSIVE Diff(_, _, _)
DiffArrays(s, t, path) ==
  FlattenSeq([i \in 1..(IF Len(s) < Len(t) THEN Len(s) ELSE Len(t)) |->
                Diff(s[i], t[i], path \o <<SLASH>> \o Decimal(i - 1))])
  \o Removals(s, t, path) \o Additions(s, t, path)

\* Mutant: the keys are not escaped.
DiffObjectsUnescaped(s, t, path) ==
  LET Below(k) == path \o <<SLASH>> \o k
      added == SetToSortSeq(DOMAIN t \ DOMAIN s, StringLess)
      Common(k) == IF k \in DOMAIN t THEN Diff(s[k], t[k], Below(k))
                   ELSE <<[op |-> "remove", path |-> Below(k)]>>
  IN  FlattenSeq([i \in DOMAIN Keys(s) |-> Common(Keys(s)[i])])
      \o [i \in DOMAIN added |-> [op |-> "add", path |-> Below(added[i]), value |-> t[added[i]]]]

\* diff() of two objects: what only the source has is removed, what only the
\* target has is added.
DiffObjects(s, t, path) ==
  LET Below(k) == path \o <<SLASH>> \o Escaped(k)
      added == SetToSortSeq(DOMAIN t \ DOMAIN s, StringLess)
      Common(k) == IF k \in DOMAIN t THEN Diff(s[k], t[k], Below(k))
                   ELSE <<[op |-> "remove", path |-> Below(k)]>>
  IN  FlattenSeq([i \in DOMAIN Keys(s) |-> Common(Keys(s)[i])])
      \o [i \in DOMAIN added |-> [op |-> "add", path |-> Below(added[i]), value |-> t[added[i]]]]

Diff(source, target, path) ==
  CASE Equal(source, target)       -> <<>>
    [] source.type # target.type   -> <<[op |-> "replace", path |-> path, value |-> target]>>
    [] source.type = "array"       -> DiffArrays(source.a, target.a, path)
    [] source.type = "object"      -> DiffObjects(source.o, target.o, path)
    [] OTHER                       -> <<[op |-> "replace", path |-> path, value |-> target]>>
=============================================================================
