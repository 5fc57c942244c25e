SPECIFICATION EarlySpec
CONSTANTS
    NoCall = NoCall
    Calls = {c1}
    MaxAnswers = 1
PROPERTY AnswerEndsCall
CHECK_DEADLOCK FALSE
