SPECIFICATION Spec
CONSTANTS
    OAuthUses = {TRUE, FALSE}
    MaxNetErrors = 2
    MaxRelogins = 2
INVARIANTS
    TypeOK
    LoopAlive
    OneLoop
\* im_container holds no im after a logout.
CHECK_DEADLOCK FALSE
