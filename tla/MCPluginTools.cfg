CONSTANTS
    Plugins = {d, p}
    Default = {d}
    OnByDefault = {d}
    NeedsFields = {p}
    Requests = {r1, r2}
    MaxRequests = 3
    MaxFaults = 1
    Nobody = Nobody
SPECIFICATION Spec
INVARIANTS DisabledIsRefused ToolsSound
CHECK_DEADLOCK FALSE
