SPECIFICATION Spec
CONSTANTS
    t1 = t1
    l1 = l1
    d1 = d1
    c1 = c1
    c2 = c2
    None = None
    Topics = {}
    Tasks <- MCTasks
    Lessons <- MCTasks
    Rank <- MCRank
    Weight <- MCWeight
    DueOn <- MCDueOn
    CoveredOn <- MCCoveredOn
    HasFlashcards = FALSE
    Clients = {c1}
    Kinds = {"urgent_work", "struggling_topic", "new_exposure"}
    Results <- MCLessonResults
    Outcomes = {"skipped"}
    TopicEdits = {}
    TaskEdits <- MCTaskEdits
    MaxDay = 1
    MaxResults = 2
    Ahead = {0}
    LastSlot = 0
INVARIANTS
    CompletionsWereApplied
    LessonsAreNotClosed
    SkippedTaskStaysOff
