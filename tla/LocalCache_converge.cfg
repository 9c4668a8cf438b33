SPECIFICATION FairSpec
CONSTANTS
    Mails = {1, 2}
    Instances = {1}
    Tasks = {1, 2}
    Start <- BothStart
    Expire <- BothExpire
    MaxTime = 0
    Host <- OneHost
    Faults = FALSE
    MaxLosses = 0
PROPERTIES
    MailsConverge
