\* Four trees, two edits anywhere, one call that fails on its own.
SPECIFICATION FairSpec
CONSTANTS
    a = a
    b = b
    r = r
    d1 = d1
    d2 = d2
    out = out
    inner = inner
    f = f
    g = g
    l = l
    s = s
    None = None
    Names = {a, b}
    Dirs = {r, d1, d2, out, inner}
    Outside = {out, inner}
    Regulars = {f, g, s}
    Links = {l}
    Root = r
    Target = out
    Trees <- MCTrees
    Excluded <- MCExcluded
    MaxEdits = 2
    MaxFaults = 1
INVARIANTS
    TypeOK
    CompleteMeansCovered
    ListedOnce
    NeverOutside
PROPERTIES
    WalkEnds
