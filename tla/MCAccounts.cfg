\* One listing and two claimants; two sign-in links; one operator and its links.
SPECIFICATION Spec
CONSTANTS
    Parts = {"claims", "signin", "operators"}
    s1 = s1  s2 = s2  t1 = t1  t2 = t2  u1 = u1  u2 = u2
    None = None
    Listings = {shop}  Claimants <- S  Operators = {editor, moderator}  Editors = {editor}
    MAX_WRONG_ENTRIES = 2  MAX_COOLDOWNS = 2  COOLDOWN = 1  MIN_GAP = 0  MAX_SENDS = 2
    SEND_WINDOW = 1  CODE_TTL = 1  REJECTION_BLOCK_THRESHOLD = 1
    NOTICE_THROTTLE = 1  NOTICE_TTL = 9  MaxClaims = 2  MaxTime = 1
    Links <- S  LinkRequests <- T  Browsers <- U  NoLink = NoLink  SIGNIN_TTL = 2
    SESSION_IDLE = 1  SESSION_ABSOLUTE = 2  MAX_LINKS_PER_HOUR = 2  MIN_BETWEEN_LINKS = 1
    LINK_HOUR = 2  MaxSignInTime = 2
    Directories <- S  Issuers <- T  Spenders <- U  Invites = {i1, i2}  Nothing = Nothing
    INVITE_TTL = 1  MaxInviteTime = 2
SYMMETRY Symmetric
CHECK_DEADLOCK FALSE
INVARIANTS
    OneOwner
    GuessBudget
    QueueComplete
    NoDeadCodeMailed
    LinkOnce
    InviteOnce
PROPERTIES
    OwnerKept
