SPECIFICATION Spec
CONSTANTS
    s1 = s1
    rd = rd
    ip = ip
    adm = adm
    NoOne = NoOne
    Senders = {s1}
    Reader = rd
    Ip = ip
    Admin = adm
    NSlots = 2
    Pend = 1
    StopAt = 2
    Quicks = {TRUE, FALSE}
    Sizes = {1, 3}
    Limits = {}
    Lazy = FALSE
    AckQ = 0
    MaxPackets = 2
    MaxRefused = 1
    MaxOutages = 1
    Removals = 0
CHECK_DEADLOCK FALSE
INVARIANT SharesKept
PROPERTY OneLine
