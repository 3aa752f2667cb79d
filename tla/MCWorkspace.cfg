SPECIFICATION FairSpec
CONSTANTS
    w1 = w1
    w2 = w2
    a = a
    b = b
    edit = edit
    run = run
    project = project
    removal = removal
    new = new
    Nobody = Nobody
    Absent = Absent
    Same = Same
    Imported = Imported
    Worker = {w1, w2}
    Path = {a, b}
    Content = {new}
    Seed = {a}
    Op <- McOp
    OwnerOf <- McOwnerOf
    KindOf <- McKindOf
    Casts <- McCasts
INVARIANTS TypeOK PreparedIsExclusive
PROPERTIES FencedPublication SerialPublication EverySettles
CHECK_DEADLOCK FALSE
