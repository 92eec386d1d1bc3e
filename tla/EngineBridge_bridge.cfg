\* One window, two configurations; the engine may end at any time.
SPECIFICATION BridgeFairSpec
CONSTANTS
    k1 = k1  c1 = c1  c2 = c2  none = none
    Clients = {k1}
    Configs = {c1, c2}
    NoConfig = none
    MaxCommands = 3
    Fetching = TRUE
INVARIANTS SomeoneIsTold BarsMatch
PROPERTY AnsweredIsReleased
