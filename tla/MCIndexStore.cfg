SPECIFICATION Spec
CONSTANTS
    s1 = s1  s2 = s2  k1 = k1  server = server  cli = cli
    d1 = d1  d2 = d2  d3 = d3  d4 = d4
    p1 = p1  p2 = p2  A = A  m1 = m1  m2 = m2  c0 = c0  c1 = c1
    Doc = {d1, d2, d3}
    Path = {p1, p2}
    Coll = {A}
    Sig = {m1, m2}
    ChunkId = {c0, c1}
    Thread = {s1, s2, k1}
    Conn = {server, cli}
    Rebuilders = {k1}
    ConnOf <- MCConnOf
    PathOf <- MCPathOf
    CollOf <- MCCollOf
    SigOf <- MCSigOf
    ChunkList <- MCChunkList
    NoDoc = NoDoc  NoConn = NoConn  NoColl = NoColl
    NoSig = NoSig  Free = Free
INVARIANTS
    IInv
    ReadersSeeWhole
    FailedLeavesNothing
    CachedWasCommitted
PROPERTIES
    PathsStayIndexed
    ImplementsAtomicIndex
