SPECIFICATION Spec
CONSTANTS
    flat = flat
    nested = nested
    opening = opening
    closing = closing
    Messages = {flat, nested, opening, closing}
    Text <- Events
    MaxSent = 2
    ChunkSize = 3
INVARIANT TypeOK
INVARIANT NothingHeld
PROPERTY InOrder
PROPERTY Handled
PROPERTY Stops
CHECK_DEADLOCK FALSE
