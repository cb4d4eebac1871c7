SPECIFICATION SQLiteSpec
CONSTANTS
    Id = {r1, r2}
    None = None
    TTL = 1
    MaxLag = 1
    MaxTime = 2
    MaxEvents = 2
SYMMETRY Symmetric
INVARIANT TablesFitTogether
PROPERTIES ImplementsStore FamiliesGoTogether
