SPECIFICATION Spec
CONSTANTS
    Agents = {wizard, king, queen}
    Values = {0, 2500, 6001}
    Modulus = 536870912
    Tick = 2
    MaxClaims = 34
    MaxPaid = 3
PROPERTIES
    ClaimsArePaidFor
    PriceRises
    UsurpedAreRepaid
SYMMETRY Symmetry
CHECK_DEADLOCK FALSE
