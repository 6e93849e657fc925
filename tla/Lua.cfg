SPECIFICATION Spec
CONSTANTS
    Calls <- MCCalls
    Scripts <- MCScripts
    MaxEdits = 1
    InitScript = "init"
    RouteScript = "route"
    Vms <- MCVms
INVARIANTS
    FreshScript
    LateNeverAnswers
    HookFailsClosed
    CommitIsReported
