\* Crashes anywhere, every operation on files may fail.
SPECIFICATION Spec
CONSTANTS
    k1 = k1  k2 = k2  sd = sd  s1 = s1  s2 = s2  none = none
    Clients = {k1, k2}
    Settings = {sd, s1, s2}
    Default = sd
    NoSettings = none
    Outside = {s2}
    MaxUpdates = 1
    MayFail = {"write", "unlink", "rename", "copy"}
INVARIANTS TypeOK MemoryOnDisk
PROPERTY ImplementsRegister
SYMMETRY ClientSymmetry
