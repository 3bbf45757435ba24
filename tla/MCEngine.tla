------------------------------ MODULE MCEngine ------------------------------
(* Small instances of Engine for TLC: the definitions clients submit. *)
EXTENDS Engine

CONSTANT Family     \* which definitions: "all", "short", "graphs" or "spaced"

\* Ids as they should be, and two of them with a blank in front.
NoBlank  == ""
Plain    == {"a", "b", "c", "d"}
Spaced   == {"a", "b", " a", " b"}
SentIds  == Plain \union Spaced
Unspaced == [id \in SentIds |-> CASE id = " a" -> "a" [] id = " b" -> "b" [] OTHER -> id]

Name == <<"a", "b", "c", "d">>

WithEdges(types, edges) ==
    [nodes |-> [i \in DOMAIN types |-> [id |-> Name[i], type |-> types[i]]],
     edges |-> edges]

(* Forests of n nodes that are listed parents first, given by the parent of    *)
(* each node; conditions have at least two children; edges in both orders.     *)
Parents(types, n) ==
    {parent \in [1..n -> 0..(n - 1)] :
        \A i \in 1..n :
            /\ parent[i] < i
            /\ types[i] = "condition" => Cardinality({j \in 1..n : parent[j] = i}) >= 2}

Branches(types, parent, n) ==
    {label \in [1..n -> Labels] :
        \A i \in 1..n :
            label[i] = "none" <=> ~(parent[i] # 0 /\ types[parent[i]] = "condition")}

Forest(types, parent, label, order) ==
    LET HasParent(i) == parent[i] # 0
        children == SelectSeq(order, HasParent)
    IN  WithEdges(types, [k \in DOMAIN children |->
                            [from  |-> Name[parent[children[k]]],
                             to    |-> Name[children[k]],
                             label |-> label[children[k]]]])

Forests(n, kinds) ==
    UNION {UNION {{Forest(types, parent, label, order) :
                        label \in Branches(types, parent, n),
                        order \in {[i \in 1..n |-> i], [i \in 1..n |-> n + 1 - i]}} :
                    parent \in Parents(types, n)} :
            types \in [1..n -> kinds]}

\* Anything that n nodes and up to m edges can form, valid or not.
Graphs(n, m) ==
    LET ids == {Name[i] : i \in 1..n} IN
    {WithEdges(types, edges) :
        types \in [1..n -> {"task", "approval", "padded"}],
        edges \in UNION {[1..k -> [from: ids, to: ids, label: {"none"}]] : k \in 0..m}}

\* Two nodes and up to m edges, ids with and without the blank.
SpacedGraphs(m) ==
    {[nodes |-> <<[id |-> x, type |-> "task"], [id |-> y, type |-> "approval"]>>,
      edges |-> edges] :
        x \in Spaced, y \in Spaced,
        edges \in UNION {[1..k -> [from: Spaced, to: Spaced, label: {"none"}]] : k \in 0..m}}

\* A node alone, and one on either side of an approval.
Chain(types) == Forest(types, [i \in DOMAIN types |-> i - 1], [i \in DOMAIN types |-> "none"],
                       [i \in DOMAIN types |-> i])
Short == {Chain(<<"task">>), Chain(<<"approval", "task">>), Chain(<<"task", "approval">>)}

Submitted ==
    CASE Family = "all"    -> Forests(4, {"task", "condition", "approval"})
                                 \union Graphs(3, 2) \union SpacedGraphs(2)
      [] Family = "short"  -> Short
      [] Family = "graphs" -> Graphs(3, 2)
      [] Family = "spaced"  -> SpacedGraphs(2)
=============================================================================
