SPECIFICATION Spec
CONSTANTS
    Modes = {"single_link_wifi", "redundant"}
    InitialMode = "single_link_wifi"
    MaxSession = 2
    MaxMessages = 2
    StatusMessages = {2}
    MaxFaults = 2
INVARIANT SessionHasOneMode
