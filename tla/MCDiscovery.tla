------------------------------ MODULE MCDiscovery ------------------------------
(* Values of Discovery's constants for TLC: trees of three directories, and *)
(* two outside them that a symbolic link leads to.                          *)
EXTENDS DiscoveryProperties

CONSTANTS a, b, r, d1, d2, out, inner, f, g, l, s

Entries(x, y) == [n \in Names |-> IF n = a THEN x ELSE y]
Tree(inR, in1, in2) ==
    [d \in Dirs |-> CASE d = r -> inR [] d = d1 -> in1 [] d = d2 -> in2
                      [] d = out -> Entries(inner, s) [] OTHER -> Entries(None, None)]

\* Two directories side by side, one in the other, one mounted at two places,
\* and one that is below itself.
MCTrees == {
    Tree(Entries(d1, d2), Entries(f, None), Entries(None, g)),
    Tree(Entries(d1, f),  Entries(d2, None), Entries(None, g)),
    Tree(Entries(d1, d1), Entries(f, d2), Entries(None, g)),
    Tree(Entries(d1, f),  Entries(d1, d2), Entries(r, l))}

\* The vector file and the model directory are left out.
MCExcluded == {<<b, b>>}
===============================================================================
