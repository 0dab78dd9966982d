SPECIFICATION Spec
CONSTANTS
    MaxParam = 8
    Doubles <- MCDoubles
INVARIANTS TypeOK Bracketed NoWastedTest AnswerIsEdge FindsLimit
PROPERTY Terminates
