SPECIFICATION FairSpec
CONSTANTS
    c1 = c1
    c2 = c2
    lineA = lineA
    lineB = lineB
    CacheAddr <- MCCacheAddr
    LineOf <- MCLineOf
    LowAddr = {lo}
    PerAddr = {per, vga}
    VgaAddr = {vga}
    Value = {v0, v1}
    Data = {v0, v1}
    Merge <- MCMerge
    None = None
    Undef = Undef
INVARIANTS DataOwner
PROPERTIES FlatSpec LegalUser DataAnswered FetchNotStarved
