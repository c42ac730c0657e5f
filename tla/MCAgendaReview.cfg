SPECIFICATION Spec
CONSTANTS
    t1 = t1
    l1 = l1
    d1 = d1
    c1 = c1
    c2 = c2
    None = None
    Topics <- MCTopics
    Tasks = {}
    Lessons = {}
    Rank <- MCRank
    Weight <- MCWeight
    DueOn <- MCDueOn
    CoveredOn <- MCCoveredOn
    HasFlashcards = FALSE
    Clients = {c1}
    Kinds = {"retry", "struggling_topic", "review", "retention_check", "mastery_progression", "new_concept"}
    Results <- MCResults
    Outcomes = {}
    TopicEdits = {}
    TaskEdits = {}
    MaxDay = 0
    MaxResults = 3
    Ahead = {0, 3}
    LastSlot = 0
PROPERTY
    GoodReviewKeepsMastery
