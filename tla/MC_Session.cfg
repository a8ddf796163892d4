SPECIFICATION Spec
CONSTANTS
    MAX_SESSIONS = 3
    MAX_TESTS = 2
    Nobody = Nobody
INVARIANTS
    UnloadAfterTests
PROPERTIES
    TestsMonitored
    MonitorRemoved
    SessionEnds
