CONSTANTS
    c1 = c1
    c2 = c2
    n1 = n1
    n2 = n2
    n3 = n3
    Items = {c1, c2, n1, n2, n3}
    Kinds <- MCKinds
    Names = {"id", "ID"}
    Folded <- MCFolded
    NULL = NULL
SPECIFICATION Spec
INVARIANTS LinksAgree LooksUpFirst ComparesValues
PROPERTY ImplementsItemLists
SYMMETRY Cells
CHECK_DEADLOCK FALSE
