SPECIFICATION Spec
CONSTANTS
    Conns = {c1}
    Sims = {s1, s2}
    Rounds = {}
    None = None
PROPERTY StopReturns
