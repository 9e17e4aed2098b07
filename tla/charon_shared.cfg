SPECIFICATION Spec
CONSTANTS
    Backend = {ike, l2tp, other}
    Renewing = {ike}
    Overlap = FALSE
SYMMETRY Symmetry
INVARIANTS NotLeaked RefsAreHolders CharonServes DroppedIsStopped
PROPERTY ImplementsSharedDaemon
