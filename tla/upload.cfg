SPECIFICATION Spec
CONSTANTS
    Links = {l1, l2}
    Missions = {m1}
    Uploads = {u1}
    Drafts = {d1}
    Autos = {}
    Edited = {m1}
    Statuses = {"planning", "executing"}
    Shapes = {"none"}
    MaxEdits = 1
    Vessels = {v1}
    Positions = {p1}
    Drawn = Drawn
    Draft = Draft
    Mixture = Mixture
    Operator = Operator
    None = None
INVARIANT UploadedWasAcked
PROPERTY JobReturns
