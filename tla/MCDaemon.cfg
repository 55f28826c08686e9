\* Two accounts, any number of reloads, two settings of the health server beside none and
\* an invalid one.
SPECIFICATION Spec
CONSTANTS
    Files <- MCFiles
    ProcessEnv <- MCProcessEnv
    Ids = {"home", "work"}
    Healths = {"h1", "h2"}
    Generations = {1, 2}
INVARIANTS
    OneWriterPerFile
    ReloadKeepsService
    HealthServerKnown
    QuietExit
PROPERTIES
    SessionsKeepPromise
    EndsGracefully
CHECK_DEADLOCK FALSE
