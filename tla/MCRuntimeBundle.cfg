\* Two address families, two HTTPS services and DNS; two cycles beside the one of another appender
\* to a history of two events; two notification targets and room for one notification.
SPECIFICATION Spec
CONSTANTS
    Families = {"v4", "v6"}
    Endpoints = 2
    DnsFallback = TRUE
    Appenders = {"daemon", "once"}
    Self = "daemon"
    Targets = {"webhook", "ntfy"}
    NotifyOn = {"updated", "error"}
    MaxEvents = 2
    MaxPending = 1
    MaxCycles <- MCMaxCycles
INVARIANTS
    SourcesExhausted
    NoQueryAfterDeadline
    HistoryFaithful
    NothingPendingAtExit
PROPERTIES
    CyclesAndBacklogEnd
CHECK_DEADLOCK FALSE
