SPECIFICATION DialogSpec
CONSTANTS
    IntLimit = 16
    AnswerLength = 3
    MaxAhead = 1
    Options <- SomeOptions
    Answers <- SomeAnswers
INVARIANTS
    AnswersMeetQuestions
    SelectionAsWritten
PROPERTIES
    StopRequestStops
    LockGivenBack
CHECK_DEADLOCK FALSE
