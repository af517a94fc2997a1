SPECIFICATION LinkSpec
CONSTANTS
    Conns = {c1, c2}
    Sims = {}
    Rounds = {}
    None = None
SYMMETRY Interchangeable
INVARIANT LiveLinkIsRegistered
