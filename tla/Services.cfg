CONSTANTS
    Buffer = {b1, b2}
    Plain = {"communication"}
    Timed = {"communication"}
    None = None
    MaxParts = 2
SPECIFICATION FairSpec
INVARIANTS TypeOK HeldOnce LeaksAreKnown KnownMishaps
PROPERTIES RequestsEnd WatchdogFed BuffersReturn
