SPECIFICATION FairSpec
CONSTANTS
    OAuthUses = {TRUE, FALSE}
    MaxNetErrors = 2
    MaxRelogins = 1
PROPERTIES
    EventsArrive
\* im_container holds no im after a logout.
CHECK_DEADLOCK FALSE
