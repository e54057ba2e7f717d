SPECIFICATION ScrubbingSpec
CONSTANTS
    Bytes <- MCBytes
    Fpe = {"F1", "F2", "F3"}
    Broken = {"F3"}
    Reals = {"P", "Q", "T", "U", "V"}
    Fakes <- MCFakes
    Value <- MCValue
    Cipher <- MCCipher
    FakeOf <- MCFakeOf
    NoneMade = NoneMade
    Marker <- MCMarker
    Letters <- MCLetters
    Conts <- MCConts
    Texts <- MCTexts
    MaxLen = 6
    MaxSessionLen = 4
    MaxEntries = 2
    Ttl = 1
    FakesOf <- MCFakesOf
    MaxTime = 3
    Alphabet <- MCAlphabet
    Spaces = {"_"}
    Wide = {"w"}
    MinDomain = 8
    MaxWord = 15
    MacSpace = 3
    HkdfMax = 2
    NoFake = NoFake
    Panic = Panic
    Ff1 <- MCFf1
    Hash <- MCHash
    Derived <- MCDerived
    Values <- MCValues
    Prefixes <- MCPrefixes
    Tweaks = {1, 3}
    Structured <- MCStructured
    Cards <- MCCards
    Sha <- MCSha
    MaxRegs = 2
    Lines <- MCLines
    Rules <- MCRules
    Candidates <- MCCandidates
INVARIANTS
    MapsConsistent
    LatestOwner
    ReplyRestorable
    NoLeak
    NeverSilent
    RestoresFakesOnly
    SessionRoundTrip
    ScrubIdempotent
    RestoresItsFakesOnly
    FakesFitValues
    NothingSlips
PROPERTIES
    StableFake
    LifetimesKept
CHECK_DEADLOCK FALSE
