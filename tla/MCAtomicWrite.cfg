CONSTANTS
    t1 = t1
    t2 = t2
    p1 = p1
    p2 = p2
    id = id
    Threads = {t1, t2}
    Processes = {p1, p2}
    ProcessOf <- OneEach
    Pids = {id}
    PidOf <- OnePid
    Readers = {r1}
    Files = {f1}
    Contents = {a, b}
    Chunks = 2
    MaxCalls = 3
    MaxCrashes = 1
    Absent = Absent
SPECIFICATION FairSpec
INVARIANTS TypeOK TempsExclusive TempsAccounted ReadersSeeWhole
PROPERTIES AtomicFileSpec CallsReturn
CHECK_DEADLOCK FALSE
