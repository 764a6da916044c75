SPECIFICATION FairSpec
CONSTANTS
    Obj = {o1, o2}
    Handler = {h1}
    None = None
INVARIANTS
    TypeOK
    UploadedStaysInWindow
PROPERTIES
    ClaimIsPermanent
    UnclaimedCollected
