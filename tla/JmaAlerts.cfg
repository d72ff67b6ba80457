SPECIFICATION Spec
CONSTANTS
    a1 = a1
    a2 = a2
    Areas = {a1, a2}
    Phenomena = {rain}
    MaxLevel = 2
    MaxBulletins = 3
    MaxSent = 2
SYMMETRY Symmetry
INVARIANTS WatermarkIsLatest CancelEndsAll InForceShown
