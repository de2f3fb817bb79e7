SPECIFICATION DeploymentSpec
CONSTANTS
    Requests = {0, 1}
    Clients = {0, 1}
    MaxCalls = 2
    Unset = Unset
    Malformed = Malformed
INVARIANTS
    CleanExit
    AnswersUntouched
    GateIsSound
    ReportAccounts
PROPERTIES
    SignalEnds
    StartsOrExits
