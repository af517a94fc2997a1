SPECIFICATION SequentialSpec
CONSTANTS
    Links = {l1}
    Missions = {m1, m2}
    Uploads = {u1, u2}
    Drafts = {d1}
    Autos = {a1}
    Edited = {m1}
    Statuses = {"planning"}
    Shapes = {"none", "polygon"}
    MaxEdits = 1
    Vessels = {v1}
    Positions = {p1}
    Drawn = Drawn
    Draft = Draft
    Mixture = Mixture
    Operator = Operator
    None = None
INVARIANT UploadedIsOnboard
INVARIANT FenceIsUploaded
PROPERTY AutoFliesAskedPlan
SYMMETRY Interchangeable
