\* Two requests at a time, two workflows, two names and two task lists.
SPECIFICATION Spec
CONSTANTS
    Ids = {x, y}
    Names = {n1, n2}
    TaskLists = {t1, t2}
    Clients = {c1, c2}
    MaxRevision = 3
    None = None
INVARIANTS TypeOK NamesUnique HeadConsistent
PROPERTIES NoLostUpdate ImplementsCatalog
SYMMETRY MCSymmetry
CHECK_DEADLOCK FALSE
