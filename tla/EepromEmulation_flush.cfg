SPECIFICATION FairSpec
CONSTANTS
    NWords = 3
    EscSize = 3
    CfgWord = 0
    CrcWord = 1
    ProdWord = 2
    Vals = {0, 1}
    Crc <- MCCrc
    Default <- MCDefault
    FlushAge = 1
    MaxCmds = 2
    MaxFails = 1
    MaxCuts = 1
    MaxStops = 1
INVARIANTS TypeOK UnsavedIsMarked FirstLoadSucceeds
PROPERTIES  EventuallySaved CommandEnds
CHECK_DEADLOCK FALSE
