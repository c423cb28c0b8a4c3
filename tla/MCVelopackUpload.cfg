SPECIFICATION Spec
CONSTANTS
    f1 = f1
    d2 = d2
    g2 = g2
    None = None
    Files = {f1, d2, g2}
    Kind <- MCKind
    ReleaseOf <- MCReleaseOf
    Family <- MCFamily
    Selections <- MCSelections
    Bundles <- MCBundles
    MaxUploads = 2
INVARIANTS
    TypeOK
    DeltasFollowTheirSource
    RowsTellTheTruth
