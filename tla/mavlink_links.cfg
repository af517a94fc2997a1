SPECIFICATION LinkSpec
CONSTANTS
    Conns = {c1, c2}
    Sims = {}
    Rounds = {r1}
    None = None
INVARIANT TypeOK
INVARIANT RegisteredIsServed
INVARIANT StateMatchesRegistry
PROPERTY NoTakeover
PROPERTY DeadLinkRemoved
PROPERTY ConnectReturns
