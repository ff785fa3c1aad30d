SPECIFICATION Spec
CONSTANTS
    Names = {u}
    Passwords = {p}
    HashOnly = HashOnly
    Seed <- MCSeed
    MaxCap = 1
    MaxChanges = 2
    None = None
    Link = Link
    Foreign = Foreign
    Torn = Torn
INVARIANT
    SecretsFollowUsers
