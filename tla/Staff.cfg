SPECIFICATION Spec
INVARIANTS
    IInv
    OpenShiftsAreExplained
    HiredOnce
PROPERTIES
    EverybodyGoesHome
CONSTANTS
    People = {ann}
    Threads = {t1, t2}
    Calls = {c1}
    Nobody = Nobody
    MaxAccounts = 2
    MaxShifts = 2
    MaxFaults = 1
