SPECIFICATION FairSpec
CONSTANTS
    NumServers = 2
    Reliable <- LastAnswers
    Worker = {w1}
    Pinger = ping
    CheckInterval = 3
    Busy = 1
INVARIANTS TypeOK KnownAddressIsOpen
PROPERTIES StaysOnline Recovers
