SPECIFICATION FairMainSpec
CONSTANTS
    CR = "CR"
    LF = "LF"
    DOT = "DOT"
    SP = "SP"
    Tags = {"TAG"}
    NoJob = NoJob
    Chars = {"CR", "LF", "DOT", "SP", "x", "y", "AUTH", "MECH", "NONE", "MD5", "REQUEST", "QUIT", "CAPABILITIES", "BAD", "TAG"}
    InSize = 9
    OutSize = 2
    Exchanges = {}
    Scripts <- MCScripts
INVARIANTS EverythingAnswered RequestReadExactly InterruptMatchesClient
PROPERTY DialogueEnds
