SPECIFICATION EngineSpec
CONSTANTS
    Bytes <- MCBytes
    Fpe = {"F1", "F2", "F3"}
    Broken = {"F3"}
    Reals = {"P", "Q", "T", "U", "V"}
    Fakes <- MCFakes
    Value <- MCValue
    Cipher <- MCCipher
    FakeOf <- MCFakeOf
    NoneMade = NoneMade
    Marker <- MCMarker
    Letters <- MCLetters
    Conts <- MCConts
    Texts <- MCTexts
    MaxLen = 6
    MaxSessionLen = 4
    MaxEntries = 2
    Ttl = 1
INVARIANTS
    RoundTripExact
CHECK_DEADLOCK FALSE
