SPECIFICATION Spec
CONSTANTS
    None = None
    u1 = u1
    e1 = e1
    e2 = e2
    Star = "*"
    Power = {"*", "all"}
    Users = {u1}
    Learnable <- MCLearnable
    Replies = {"t1", "i2", "stop", "bad"}
    BadTriggers = {"stop"}
    Unsafe = {"bad"}
    Shortened <- MCShortened
    DraftTTL = 2
    PendingTTL = 1
    MaxDrafts = 2
    MaxEdits = 1
    Alias <- MCAlias
    Similar <- MCSimilar
    ScopeOf <- MCScopeOf
    Texts = {"t1", "t2"}
    Legacy <- MCLegacy
    Claims <- MCClaims
    Uploads <- MCUploads
    ConfirmTTL = 1
    MaxSkills = 50
    MaxMessages = 2
    MaxContracts = 1
    Folders <- MCFolders
    HypId <- MCHypId
    MaxImports = 2
    Editors = {e1, e2}
    Grants <- MCGrants
    MaxVersions = 4
    MaxRows = 2
INVARIANTS
    TypeOK
    DraftsConsistent
    NothingUnsafe
    AnsweredAtMostOnce
    ActiveMeansApproved
    ImportsConsistent
PROPERTIES
    SavedAsShown
    NothingOverwrittenUnseen
CHECK_DEADLOCK FALSE
