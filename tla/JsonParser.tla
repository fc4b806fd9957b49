----------------------------- MODULE JsonParser -----------------------------
(***************************************************************************)
(* The parser of json.hpp, a recursive descent over the tokens of the       *)
(* lexer, with the callback that may reject what has been parsed.  The      *)
(* state of the parser is its last token and its depth.                     *)
(***************************************************************************)
EXTENDS JsonLexer

CONSTANT Kept(_, _, _, _)  \* whether callback cb, called with a depth, an event
                           \* and a value, lets the value be kept

Result(v, p)  == [value |-> v, thrown |-> "nothing", p |-> p]
Error(ex, p)  == [value |-> Null, thrown |-> ex, p |-> p]

\* get_token
GetToken(text, p) == [p EXCEPT !.last = Scan(text, p.last.to)]

\* A structure whose start is told to the callback, unless it is in one that
\* was rejected.
Begin(keep, cb, p, start) == keep /\ Kept(cb, p.depth, start, Discarded)
Deeper(keep, p) == IF keep THEN [p EXCEPT !.depth = @ + 1] ELSE p

\* The end of a structure; the callback is asked about the whole of it.
End(v, keep, cb, p, event) ==
  LET q == [p EXCEPT !.depth = @ - 1]
  IN  IF keep THEN Result(IF Kept(cb, q.depth, event, v) THEN v ELSE Discarded, q)
      ELSE Result(v, p)

RECURSIVE ParseInternal(_, _, _, _)
RECURSIVE ParseMembers(_, _, _, _, _)

\* The members of an object once the value v of a key is parsed ...
AfterMember(text, v, key, keep_tag, keep, cb, result) ==
  LET grown == IF keep_tag /\ v.value.type # "discarded"
               THEN AssignKey(result, key, v.value).value ELSE result
  IN  CASE v.thrown # "nothing"              -> v
        [] v.p.last.type = "value_separator" ->
             ParseMembers(text, GetToken(text, v.p), keep, cb, grown)
        [] v.p.last.type = "end_object"      ->
             End(grown, keep, cb, GetToken(text, v.p), "object_end")
        [] OTHER                             -> Error("invalid_argument", v.p)

\* ... once the key and the colon are read ...
AfterKey(text, p, key, colon, keep, cb, result) ==
  CASE key.thrown # "nothing"             -> Error(key.thrown, p)
    [] colon.last.type # "name_separator" -> Error("invalid_argument", colon)
    [] OTHER ->
         AfterMember(text, ParseInternal(text, GetToken(text, colon), keep, cb), key.value,
                     keep /\ Kept(cb, p.depth, "key", String(key.value)), keep, cb, result)

\* ... and from a key on.
ParseMembers(text, p, keep, cb, result) ==
  IF p.last.type # "value_string" THEN Error("invalid_argument", p)
  ELSE AfterKey(text, p, GetString(text, p.last.from + 1, p.last.to - 1, <<>>),
                GetToken(text, p), keep, cb, result)

\* Mutant: a comma may end an object.
ObjectFromComma(text, first, keep, cb, result) ==
  CASE first.last.type = "end_object" -> End(result, keep, cb, GetToken(text, first), "object_end")
    [] first.last.type = "value_separator" ->
         ParseMembers(text, GetToken(text, first), keep, cb, result)
    [] OTHER -> ParseMembers(text, first, keep, cb, result)

\* An object from the token after its brace on.
ObjectFrom(text, first, keep, cb, result) ==
  CASE first.last.type = "end_object" -> End(result, keep, cb, GetToken(text, first), "object_end")
    [] first.last.type = "value_separator" -> Error("invalid_argument", first)
    [] OTHER -> ParseMembers(text, first, keep, cb, result)

ParseObject(text, p, keep0, cb) ==
  LET keep == Begin(keep0, cb, p, "object_start")
  IN  ObjectFrom(text, GetToken(text, Deeper(keep0, p)), keep, cb,
                 IF keep THEN Default("object") ELSE Discarded)

RECURSIVE ParseElements(_, _, _, _, _)

\* The elements of an array once the element v is parsed, and from one on.
AfterElement(text, v, keep, cb, result) ==
  LET grown == IF keep /\ v.value.type # "discarded" THEN PushBack(result, v.value).value ELSE result
  IN  CASE v.thrown # "nothing"              -> v
        [] v.p.last.type = "value_separator" ->
             ParseElements(text, GetToken(text, v.p), keep, cb, grown)
        [] v.p.last.type = "end_array"       ->
             End(grown, keep, cb, GetToken(text, v.p), "array_end")
        [] OTHER                             -> Error("invalid_argument", v.p)

ParseElements(text, p, keep, cb, result) ==
  AfterElement(text, ParseInternal(text, p, keep, cb), keep, cb, result)

\* An array from the token after its bracket on.  The end of an empty array is
\* told also in a structure that was rejected.
ArrayFrom(text, first, keep, cb, result) ==
  CASE first.last.type = "end_array" -> End(result, TRUE, cb, GetToken(text, first), "array_end")
    [] first.last.type = "value_separator" -> Error("invalid_argument", first)
    [] OTHER -> ParseElements(text, first, keep, cb, result)

\* Mutant: the callback is asked about the start of an array, and not heard.
ParseArrayUnheard(text, p, keep0, cb) ==
  ArrayFrom(text, GetToken(text, Deeper(keep0, p)), keep0, cb, Default("array"))

ParseArray(text, p, keep0, cb) ==
  LET keep == Begin(keep0, cb, p, "array_start")
  IN  ArrayFrom(text, GetToken(text, Deeper(keep0, p)), keep, cb,
                IF keep THEN Default("array") ELSE Discarded)

Scalar(text, tok) ==
  CASE tok.type = "literal_null"  -> Done(Null)
    [] tok.type = "literal_true"  -> Done(Boolean(TRUE))
    [] tok.type = "literal_false" -> Done(Boolean(FALSE))
    [] tok.type = "value_string"  ->
         LET s == GetString(text, tok.from + 1, tok.to - 1, <<>>)
         IN  [s EXCEPT !.value = String(@)]
    [] tok.type \in {"value_unsigned", "value_integer", "value_float"} -> Done(GetNumber(text, tok))
    [] OTHER -> Throw(Null, "invalid_argument")

\* A value that is one token.
ParseScalar(text, s, p, keep, cb) ==
  IF s.thrown # "nothing" THEN Error(s.thrown, p)
  ELSE Result(IF keep => Kept(cb, p.depth, "value", s.value) THEN s.value ELSE Discarded,
              GetToken(text, p))

ParseInternal(text, p, keep, cb) ==
  CASE p.last.type = "begin_object" -> ParseObject(text, p, keep, cb)
    [] p.last.type = "begin_array"  -> ParseArray(text, p, keep, cb)
    [] OTHER -> ParseScalar(text, Scalar(text, p.last), p, keep, cb)

\* What parse() makes of the value r: there may be no text left.
Parsed(r) ==
  CASE r.thrown # "nothing"           -> Throw(Null, r.thrown)
    [] r.p.last.type # "end_of_input" -> Throw(Null, "invalid_argument")
    [] OTHER -> Done(IF r.value.type = "discarded" THEN Null ELSE r.value)

Parse(text, cb) ==
  Parsed(ParseInternal(text, [last |-> Scan(text, 0), depth |-> 0], TRUE, cb))
=============================================================================
