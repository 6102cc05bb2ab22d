----------------------- MODULE MCJsonConfigurationParser -----------------------
(***************************************************************************)
(* Documents for the JSON parser: nested, empty, with arrays, and with the    *)
(* ways one key can be named twice.                                         *)
(***************************************************************************)
EXTENDS JsonConfigurationParser

S(v) == [kind |-> "scalar", value |-> v]
O(ms) == [kind |-> "object", members |-> ms]
A(is) == [kind |-> "array", items |-> is]
M(name, node) == [name |-> name, node |-> node]

\* {"a": 1, "b": {"c": 2}}
Nested == O(<<M(<<"a">>, S(1)), M(<<"b">>, O(<<M(<<"c">>, S(2))>>))>>)
\* {"a": [1, {"b": 2}], "c": {}}
WithArray == O(<<M(<<"a">>, A(<<S(1), O(<<M(<<"b">>, S(2))>>)>>)), M(<<"c">>, O(<<>>))>>)
\* {"b": {"c": 1}, "b:c": 2}, and {"b": {"a": 1, "A": 2}}
TwicePath == O(<<M(<<"b">>, O(<<M(<<"c">>, S(1))>>)), M(<<"b", "c">>, S(2))>>)
TwiceCase == O(<<M(<<"b">>, O(<<M(<<"a">>, S(1)), M(<<"a">>, S(2))>>))>>)
\* {"a": [1], "a:0": 2}
TwiceIndex == O(<<M(<<"a">>, A(<<S(1)>>)), M(<<"a", "0">>, S(2))>>)
\* A root that is no object, and an empty one.
RootArray == A(<<S(1)>>)
Empty == O(<<>>)

Some == {"a", "b", "c", "0", "1"}
FirstDigits == <<"0", "1">>
AllDocuments == {Nested, WithArray, TwicePath, TwiceCase, TwiceIndex, RootArray, Empty}

\* The documents and what is in them, to their depth of three.
Below(nodes) == nodes \cup {e.node : e \in UNION {ToSet(Children(node)) : node \in nodes}}
AllNodes == Below(Below(Below(AllDocuments)))
===============================================================================
