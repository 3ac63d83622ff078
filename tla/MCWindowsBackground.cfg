SPECIFICATION Spec
CONSTANTS
    short = short
    other = other
    long = long
    black = black
    white = white
    s0 = s0
    s1 = s1
    Slots = {s0, s1}
    Cells = {1, 2}
    Rects <- Nested
    Texts = {short, long}
    Overflow <- LongTextOverflow
    Colors = {black, white}
    NoBackup = NoBackup
VIEW Relevant
SYMMETRY Interchangeable
INVARIANTS
    TypeOK
    FlagTellsWindows
    BackgroundRestored
