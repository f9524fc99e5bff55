\* A task that is queued once or twice, while others cancel it, time it out and
\* wait; and the dependencies of a task, of which one thread adds some while two
\* ask whether they have completed.
CONSTANTS
    e1 = e1
    e2 = e2
    c1 = c1
    t1 = t1
    w1 = w1
    w2 = w2
    Kind = "overtime"
    Executors = {e1, e2}
    Cancellers = {c1}
    Timers = {t1}
    Waiters = {w1, w2}
    Askers = {"a", "b"}
    Adders = {"c"}
    Dependencies = {"d"}
SPECIFICATION MCSpec
INVARIANTS
    RunsOnce
    AnswerMatchesState
    NoWaiterSleepsThrough
    CallbackOnce
    AnswersAreTrue
PROPERTIES
    ImplementsTaskLife
    AskersHear
CHECK_DEADLOCK FALSE
