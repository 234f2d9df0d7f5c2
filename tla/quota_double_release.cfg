\* Two releases of one server both read it before either commits.
CONSTANTS
    all = all  vip = vip  alice = alice
    Txn = {t1, t2}
    Server = {s1, s2}
    Name = {alice}
    Rule = {all, vip}
    NoRule = NoRule
    Cpu = {1, 2}
    Written = {"STOPPED"}
    Edits <- RecalculateOnly
    FirstRules <- MCFirstRules
SPECIFICATION Spec
SYMMETRY Symmetry
INVARIANTS
    CountedUntilReleased
