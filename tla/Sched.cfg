CONSTANTS
    Tasks = {a, b, c}
    NULL = NULL
    MathTasks = {1, 2, 3}
SPECIFICATION MCSpec
INVARIANTS QueueSound  TimersNotEarly
PROPERTIES SleepersPromise WakeUpReachesAll SomeSleeperReturns RunnableRuns
