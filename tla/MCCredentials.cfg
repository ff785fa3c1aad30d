SPECIFICATION Spec
CONSTANTS
    Names = {u, v}
    Passwords = {p}
    HashOnly = HashOnly
    Seed <- MCSeed
    MaxCap = 2
    MaxChanges = 4
    None = None
    Link = Link
    Foreign = Foreign
    Torn = Torn
INVARIANTS
    AckedHolds
    SecretsAreKept
