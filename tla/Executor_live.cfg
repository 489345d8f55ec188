CONSTANTS
 Handles = {h1}
 Timers = {}
 None = None
 WaitMayFail = FALSE
 OtherNodes = TRUE
 SpinWithin = {"once"}
 MaxTokens = 4
SPECIFICATION FairSpec
PROPERTIES SyncComesBack ReadyIsHandled StopComesBack
