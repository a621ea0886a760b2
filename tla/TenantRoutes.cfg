SPECIFICATION Spec
INVARIANT
    RequestsFindTheRows
CONSTANTS
    Services = {s1}
    Queues = {k1}
    Items = {i1}
    MaxVersion = 2
    Migrators = {m1}
    Requests = {r1}
    MaxMigrations = 1
