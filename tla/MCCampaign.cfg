SPECIFICATION Spec
CONSTANTS
    None = None
    Absent = Absent
    Unsaved = Unsaved
    v1 = v1
    Null = Null
    c1 = c1
    c2 = c2
    c3 = c3
    c4 = c4
    n1 = n1
    n2 = n2
    n3 = n3
    n4 = n4
    NSurfaces = 3
    WholeOf <- MCWholeOf
    Values = {v1, Null}
    Conditions = {c1, c2, c3, c4}
    SurfaceOf <- MCSurfaceOf
    Assess <- MCAssess
    Nodes = {n1, n2, n3, n4}
    Graphs <- MCGraphs
    SnapshotIds = {s1}
    Scopes = {t1}
    MaxDepth = 3
INVARIANTS
    FindingsFollowTheTarget
    RunIsRepeatable
    QueryFindsEveryExposure
