SPECIFICATION Spec
CONSTANTS
    CR = "CR"
    LF = "LF"
    DOT = "DOT"
    Chars = {"CR", "LF", "DOT", "x"}
    InSize = 6
    OutSize = 2
    MaxRequest = 4
    MaxAnswer = 3
    Exchanges <- MCExchanges
INVARIANTS RequestExact AnswerExact LeftExact
PROPERTY PhaseEnds
