----------------------------- MODULE MCJsonText -----------------------------
EXTENDS JsonText

\* A callback per way to reject.
Keeps(cb, depth, event, v) ==
  CASE cb = "no ones"    -> v # Unsigned(1)
    [] cb = "no arrays"  -> event # "array_start"
    [] cb = "no objects" -> event # "object_start"
    [] cb = "no a"       -> ~(event = "key" /\ v = String(<<97>>))
    [] cb = "no empty"   -> ~(event \in {"array_end", "object_end"} /\ size(v) = 0)
    [] OTHER             -> TRUE
AllCallbacks == {"no ones", "no arrays", "no objects", "no a", "no empty"}

\* [ ] { } , "a": "a" 1 [1,{}] and a blank
Structures == {<<91>>, <<93>>, <<123>>, <<125>>, <<44>>, <<34, 97, 34, 58>>, <<34, 97, 34>>, <<49>>,
               <<32>>, <<0>>, <<91, 49, 44, 123, 125, 93>>}
\* - 1 0 6 . e + 16
NumberPieces == {<<45>>, <<49>>, <<48>>, <<46>>, <<101>>, <<43>>, <<54>>}
\* The quotation mark, the backslash, escapes, and bytes of UTF-8.
StringPieces == {<<34>>, <<92>>, <<92, 117, 48, 48, 49, 102>>, <<92, 117, 100, 56, 51, 100>>,
                 <<92, 117, 100, 101, 48, 48>>, <<110>>, <<10>>, <<195>>, <<169>>, <<224>>, <<237>>, <<160>>}
Literal_pieces == {<<110, 117>>, <<108, 108>>, <<116, 114, 117, 101>>, <<102>>, <<97, 108, 115, 101>>}
AllAlphabets == {Structures, NumberPieces, StringPieces, Literal_pieces}
=============================================================================
