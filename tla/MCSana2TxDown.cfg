SPECIFICATION FairSpec
CONSTANTS
    s1 = s1
    rd = rd
    ip = ip
    adm = adm
    NoOne = NoOne
    Senders = {s1}
    Reader = rd
    Ip = ip
    Admin = adm
    NSlots = 1
    Pend = 1
    StopAt = 1
    Quicks = {FALSE}
    Sizes = {1}
    Limits = {2}
    Lazy = TRUE
    AckQ = 1
    MaxPackets = 2
    MaxRefused = 0
    MaxOutages = 0
    Removals = 1
CHECK_DEADLOCK FALSE
INVARIANT FreedClear
PROPERTIES
    
    StopEnds
