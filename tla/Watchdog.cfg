SPECIFICATION FairWSpec
CONSTANTS
    MaxProcs = 2
    Script = {c1}
    MaxFaults = 1
INVARIANTS WTypeOK ChainsAreOwned
PROPERTIES GatewayComesBack TravelsAgain
