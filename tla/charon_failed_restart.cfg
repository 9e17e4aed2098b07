SPECIFICATION Spec
CONSTANTS
    Backend = {ike, l2tp}
    Renewing = {ike}
    Overlap = FALSE
PROPERTY LastReleaseStops
