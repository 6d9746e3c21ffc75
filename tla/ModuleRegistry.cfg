CONSTANTS
    Null = Null
    NoEntry = NoEntry
    FromPython = FromPython
    Idle = Idle
    Threads = {t1, t2}
    Modules = {posix, app}
    Builtins = {posix}
SPECIFICATION Spec
INVARIANTS TypeOK FoundIsFilled RegisteredUntilCommit
PROPERTIES RegisteredStays ImportsTerminate
