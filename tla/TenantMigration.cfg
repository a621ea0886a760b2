SPECIFICATION Spec
INVARIANTS
    IInv
    QuietRowsAreServed
    NeverInBoth
    MarksAreTrue
CONSTANTS
    Services = {s1}
    Queues = {k1}
    Items = {i1}
    MaxVersion = 2
    Migrators = {m1, m2}
    Requests = {r1}
    MaxMigrations = 3
SYMMETRY MigratorsAlike
