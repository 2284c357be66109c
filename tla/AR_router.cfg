SPECIFICATION Spec
CONSTANTS
    r1 = r1  r2 = r2  l1 = l1
    Remotes = {r1, r2}
    Locals = {l1}
    Attrs = {a1}
    NoAttr = NoAttr
    HashKey <- Keys
    Getters = {g1}
    Watchers = {w1}
    MaxKey = 3
    MaxChanges = 4
    NoInst = NoInst
INVARIANTS
    NoneMissing
    RouterAgrees
    WatcherAgrees
    HashOwnerIsOwner
