CONSTANTS
    u1 = u1
    u2 = u2
    f1 = f1
    t1 = t1
    t2 = t2
    t3 = t3
    l1 = l1
    q1 = q1
    q2 = q2
    q3 = q3
    Users = {u1}
    Families = {f1}
    Tokens = {t1, t2, t3}
    Links = {l1}
    Requests = {q1, q2}
    NoUser = NoUser
    NoToken = NoToken
    NoLink = NoLink
    NoFamily = NoFamily
    MaxReactivations = 1
    MaxExpired = 1
    Members = {u1, u2}
    Founders = {u1}
    Roles = {"ADMIN"}
    Permissions = {"users.manage", "cases.delete"}
    PermissionsOf <- AllPermissions
    MaxGrants = 2
    MaxOfficeReactivations = 1
    Challenges = {q1, q2, q3}
    RecoveryCodes = 1
    RequireSecondFactor = FALSE
    MaxSecrets = 2
    MaxStep = 3
    Attempts = {q1, q2}
    AttemptLimit <- Limits
    MaxOutages = 1
    Documents = {1, 2}
    MaxTexts = 2
    MaxChanges = 2
    SearchLimit = 2
    MaxClaims = 1
    MaxCitations = 1
    Invented = Invented
SPECIFICATION AccountsSpec
SYMMETRY Symmetry
CHECK_DEADLOCK FALSE
INVARIANTS
    UnavailabilityIsTemporary
