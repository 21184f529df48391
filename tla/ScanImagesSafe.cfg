SPECIFICATION Spec
CONSTANTS
    Threads = {t1, t2}
    NoThread = NoThread
    Labels = {height, phase}
    Shown = height
    Maps = {modulus}
    MaxScans = 1
    MaxImages = 3
    MaxReplaced = 1
SYMMETRY Symmetry
INVARIANTS
    TypeOK
    OneImagePerChannel
    LeadsToFamily
    FamiliesNotLeaked
    MapsOfThisSession
CHECK_DEADLOCK FALSE
