CONSTANTS
    Crons = {c1, c2}
    Edited = {c1}
    Asked = {"rename", "chat", "enable", "disable", "delete"}
    CronPolls = {p1, p2}
    Editors = {e1}
    LastTime = 2
    MaxChats = 4
    MaxEdits = 2
    MaxFaults = 1
    NoCron = NoCron
SPECIFICATION CronFairSpec
INVARIANTS RuntimeSound
PROPERTIES RunsOnce QuietWhenUnwanted PollsEnd
CHECK_DEADLOCK FALSE
