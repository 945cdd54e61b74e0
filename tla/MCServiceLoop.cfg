SPECIFICATION FairSpec
CONSTANTS
    Requests = {1, 2, 3, 4}
    Commands = {5}
    Controls = {6, 7, 8}
    Content <- MCContent
    wf1 = wf1
    Workflows = {wf1}
    Limit = 1
    SubmitBound = 3
    QuestionBound = 1
    FaultBound = 1
INVARIANTS
    TypeOK
    EffectsAreNotRepeated
    OneAnswerPerQuestion
    TickedRunsAreReceipted
    OneWakePerNotification
    SubmittedIsVisible
PROPERTIES
    FilesAreAnswered
