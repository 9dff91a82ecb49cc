SPECIFICATION Spec
CONSTANTS
    w1 = w1  w2 = w2
    r1 = r1  r2 = r2
    Workers = {w1, w2}
    Releases = {r1, r2}
    First = r1
    Broken = Broken
    Odd = Odd
    NoSlot = NoSlot
    NoTable = NoTable
    MaxChanges = 2
INVARIANTS
    NoUseAfterClose
    NothingLeaks
PROPERTIES
    LookupsReturn
    TablesCatchUp
