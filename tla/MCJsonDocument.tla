-------------------------- MODULE MCJsonDocument --------------------------
EXTENDS JsonDocument

\* One key that has to be escaped and one that looks like a position.
TheKeys == {<<126, 49>>, <<48>>}

Numbers == {Unsigned(n) : n \in {0, 1, 2, 3, 4, 15, 16, 255, 256, 65535}}
           \cup {Integer(n) : n \in {-1, -2, -3, -8, -9, -128, -129, -32768, 5, 300}}
           \cup {Float(TRUE, 35, -1), Float(TRUE, 32, -1), Float(TRUE, 15, -1), Float(FALSE, 2, 1)}
Strings == {String([i \in 1..n |-> 97]) : n \in {0, 1, 2, 4, 16}}

Arguments == {String(<<47>>)}

Nested == {Array(<<Unsigned(1), Array(<<Null, Boolean(TRUE)>>), String(<<47, 126>>)>>),
           Object(WithMember(WithMember(NoMembers, <<97>>, Array(<<Unsigned(1), Integer(-3)>>)),
                             <<126, 47>>, Null)),
           Array(<<Object(WithMember(NoMembers, <<48>>, Float(FALSE, 5, -1)))>>),
           Array([i \in 1..5 |-> Unsigned(i)])}

Starts == {Null} \cup Numbers \cup Strings \cup Nested

\* Numbers of each type, the largest one that wraps, and two that are no integers.
Thirds == {Integer(-3), Unsigned(2), Unsigned(65535), Float(TRUE, 32, -1), Float(FALSE, 25, -1)}

OtherStarts == {Integer(-3), Array(<<Unsigned(1), Null>>),
                Object(WithMember(WithMember(NoMembers, <<48>>, Null),
                                  <<126, 49>>, Array(<<Unsigned(1)>>)))}

Pointers == {<<>>, <<<<97>>>>, <<<<48>>>>, <<<<45>>>>, <<<<97>>, <<48>>>>, <<<<49>>, <<48, 49>>>>,
             <<<<126, 49>>, <<45>>>>}

Slash(s) == <<SLASH>> \o s
Patches == {<<[op |-> "add", path |-> Slash(<<97>>), value |-> Unsigned(1)],
              [op |-> "add", path |-> Slash(<<97>>) \o Slash(<<98>>), value |-> Null]>>,
            <<[op |-> "add", path |-> Slash(<<45>>), value |-> Null],
              [op |-> "test", path |-> Slash(<<49>>), value |-> Unsigned(2)]>>,
            <<[op |-> "remove", path |-> Slash(<<48>>)],
              [op |-> "replace", path |-> Slash(<<48>>), value |-> String(<<97>>)]>>,
            <<[op |-> "copy", from |-> Slash(<<48>>), path |-> Slash(<<49>>)],
              [op |-> "move", from |-> Slash(<<97>>), path |-> Slash(<<49>>)]>>,
            <<[op |-> "move", from |-> Slash(<<48>>), path |-> Slash(<<97>>)]>>,
            <<[op |-> "add", path |-> <<97>>]>>,
            <<[op |-> "spoil", path |-> <<>>]>>}
=============================================================================
