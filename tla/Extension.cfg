SPECIFICATION ExtensionSpec
CONSTANTS
    MaxRelogin = 1
    MaxMessages = 2
    MaxTokens = 2
    MaxEvents = 2
    Renewals = {byTimer, byUser}
    Interactive = {byUser}
    MaxFences = 2
INVARIANT LogoutForgetsTokens
INVARIANT NoTabOutlives
PROPERTY OperationsEnd
CHECK_DEADLOCK FALSE
