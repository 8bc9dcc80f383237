CONSTANTS
    Pictures <- FewPictures
    Shapes <- MCShapes
    Residues = {0, 2}
    Extensions <- Codes
    Offsets <- Down
    eight_bits = 3
    short_paint = 2
    max_new_row = 1
    infinity = 99
    MaxShips = 2
    MaxSpecials = 1
    limit = 5
    max_weight = 3
    Contours <- MCContours
    Weights <- MCWeights
    Culls <- MCCulls
    Transforms <- MCTransforms
    MaxOps = 3
SPECIFICATION ShippingSpec
INVARIANTS RoverRight
CHECK_DEADLOCK FALSE
