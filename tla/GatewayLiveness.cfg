SPECIFICATION FairSpec
CONSTANTS
    i1 = i1
    i2 = i2
    Ip = {i1, i2}
    Mentions <- MentionsPrefix
    Mac = {m1}
    Token = {t1}
    Worker = {w1}
    Rate = {0}
    MaxNodes = 2
    MaxCopies = 1
    StatusLost = FALSE
PROPERTIES KeepsPromise OrphansGo IdleClientsLeave
