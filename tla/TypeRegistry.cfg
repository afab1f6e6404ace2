SPECIFICATION FairSpec
CONSTANTS
    Pointer = {p1, p2, p3}
    TypeID = {t1, t2, t3, mint, bare, prim}
    Space = {"openapi", "composed", "prim"}
    SpaceOf <- MCSpaceOf
    NoSpace = NoSpace
    Minted = Minted
    Prim = Prim
    p1 = p1
    p2 = p2
    p3 = p3
    t1 = t1
    t2 = t2
    t3 = t3
    mint = mint
    bare = bare
    prim = prim
    Documents <- Compiled
CHECK_DEADLOCK FALSE
INVARIANTS WholeRegistry SameWhateverTheOrder SettledInOrder
PROPERTIES NeverOverwritten CompileEnds
