CONSTANTS
    ThreadCount = 2
    Socket = {c1, c2}
    NoSocket = NoSocket
    MaxMsgs = 2
    AsyncLog = TRUE
    Handler = {h1}
    Here = Here
    There = There
    g1 = g1
    g2 = g2
    w1 = w1
    w2 = w2
    w3 = w3
    Phone = Phone
    Universal = Universal
    Country = {Here, There}
    Group = {g1, g2}
    DefaultCountry = Here
    Client <- MCClient
    Row <- MCRow
    Databases <- MCDatabases
SPECIFICATION ServerSpec
INVARIANTS
    ConnectionsMatch
    Balanced
    ExitedIsEmpty
    LogonExplained
PROPERTIES
    ConnectionsServed
    StopsWhenAsked
