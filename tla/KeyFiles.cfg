\* As many keys as can be on disk, in use and new at a time.
CONSTANTS
    Key = {k1, k2, k3, k4}
    None = None
    Empty = Empty
    Torn = Torn
SPECIFICATION Spec
INVARIANTS
    KeysAgree
