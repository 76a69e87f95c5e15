SPECIFICATION QSpec
CONSTANTS
    u1 = u1  d1 = d1  d2 = d2  d3 = d3  d4 = d4  p1 = p1  p2 = p2  p3 = p3
    A = A  B = B  m1 = m1  m2 = m2  c0 = c0  k1 = k1  k2 = k2
    Doc = {d1, d2}
    Path = {p1, p2}
    Query = {u1}
    Online = {d1}
    Coll = {A, B}
    Model = {m1, m2}
    Chunk = {c0, k1, k2}
    PathOf <- MCPathOf
    CollOf <- MCOneCollOf
    ModelOf <- MCOneModelOf
    ParentOf <- MCFlatParentOf
    DimOf <- MCDimOf
    Request <- MCDenseRequest
    TopK = 2
    CandidateK = 2
    RerankN = 3
    NoDoc = NoDoc  NoParent = NoParent  NoPath = NoPath
INVARIANTS
    ModelsComparable
