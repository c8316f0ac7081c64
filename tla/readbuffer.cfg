SPECIFICATION Spec
CONSTANTS
    HeaderLen = 3
    LengthByte = 2
    Lengths = {3, 4, 6}
    MaxMessages = 3
INVARIANTS
    TypeOK
    OneOwner
PROPERTIES
    DeliversStream
    ArrivedIsHandedOver
CHECK_DEADLOCK FALSE
