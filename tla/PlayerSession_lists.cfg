SPECIFICATION Spec
CONSTANTS
    Logins = {1, 2, 3}
    Uid <- ThreeUids
    ServerId <- ThreeServers
    MaxLives = 2
    Faults = TRUE
    Mails = {1, 2}
    Mail <- TwoMails
    Servers = {1, 2}
    Attributes <- TwoAttributes
    Numeral <- Numerals
    Payloads <- TwoPayloads
    Earlier = {2}
    MaxTime = 1
    MaxDeletes = 1
CHECK_DEADLOCK FALSE
INVARIANTS
    TypeOK
    RolesApart
    ListedForServer
    NothingWithheld

    
