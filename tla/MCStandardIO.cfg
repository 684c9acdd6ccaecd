CONSTANTS
    Readers = {"r1", "r2"}
    Bytes <- TheBytes
    Texts <- TheTexts
    Kinds <- TheKinds
    LF = LF
    CR = CR
    NoByte = NoByte
    Writers = {"w1", "w2"}
    Length <- TheLengths
    Room = 1
    NoWriter = NoWriter
    Programs <- ThePrograms
SPECIFICATION FairSpec
INVARIANTS
    InputWhole
    OutputWhole
    OutputReleased
PROPERTIES
    SourcesServed
CHECK_DEADLOCK FALSE
