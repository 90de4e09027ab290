----------------------------- MODULE MCControlFlow -----------------------------
(* All graphs of four blocks with at most two edges out of each and six    *)
(* in all, one of them perhaps a call: enough for a diamond in a loop.     *)
EXTENDS ControlFlow, TLC

CONSTANTS entry, left, right, join

Edges(g) == {<<x, y>> \in Blocks \X (Blocks \union {Callee}) : y \in g[x]}

AllGraphs ==
    {g \in [Blocks -> Subsets(Blocks \union {Callee}, 2)] :
        /\ Cardinality(Edges(g)) <= 6
        /\ Cardinality({x \in Blocks : Callee \in g[x]}) <= 1}

BlockSymmetry == Permutations(Blocks \ {Entry})
===============================================================================
