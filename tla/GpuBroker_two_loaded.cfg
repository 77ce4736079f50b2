SPECIFICATION Spec
CONSTANTS
    image = image
    vision = vision
    i1 = i1
    i2 = i2
    v1 = v1
    v2 = v2
    Services = {image, vision}
    NoSvc = NoSvc
    Requests = {i1, v1}
    NoReq = NoReq
    SvcOf <- BoxOf
    Passive = {}
    Pumps = {p1, p2}
    Retries = 1
    IdleUnload = FALSE
    SlowStart = TRUE
    Faults = FALSE
INVARIANT OneLoaded
