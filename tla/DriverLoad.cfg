SPECIFICATION Spec
CONSTANTS
    Config = {k1, k2}
    Plane = {p1, p2, p3}
    Crtc = {c1, c2}
    Encoder = {e1}
    Connector = {n1}
    Nobody = Nobody
    MaxOfKind = 31
    NumOverlay = 1
SYMMETRY Addresses
INVARIANTS TypeOK NoDangling OutputComplete DeviceWithinConfig
