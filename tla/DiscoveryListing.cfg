\* A directory that can be read but whose entries cannot be looked up.
SPECIFICATION Spec
CONSTANTS
    a = a
    b = b
    r = r
    d1 = d1
    d2 = d2
    out = out
    inner = inner
    f = f
    g = g
    l = l
    s = s
    None = None
    Names = {a, b}
    Dirs = {r, d1, d2, out, inner}
    Outside = {out, inner}
    Regulars = {f, g, s}
    Links = {l}
    Root = r
    Target = out
    Trees <- MCTrees
    Excluded <- MCExcluded
    MaxEdits = 0
    MaxFaults = 2
INVARIANTS
    CompleteMeansListed
