SPECIFICATION AlpnSpec
CONSTANTS
    Alphabet = {32, 44, 97, 98}
    MaxLen = 5
    Protocols <- Names
    MaxList = 2
    MaxProto = 2
INVARIANTS
    WireMeansOption
    RefusedRightly
PROPERTY AgreedProtocol
CHECK_DEADLOCK FALSE
