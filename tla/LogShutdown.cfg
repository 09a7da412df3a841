CONSTANTS
    ThreadCount = 1
    Socket = {c1}
    NoSocket = NoSocket
    MaxMsgs = 1
    AsyncLog = TRUE
SPECIFICATION AppSpec
INVARIANT StrandAlive
