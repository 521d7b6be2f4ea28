\* Two jobs indexed and indexed again, the timer, and one or two commands of operators.
SPECIFICATION FairSpec
CONSTANTS
    Jobs = {1, 2}
    Groups = {1, 2}
    Captures <- MCCaptures
    JobOf <- MCJobOf
    GroupOf <- MCGroupOf
    TimeOf <- MCTimeOf
    DayOf <- MCDayOf
    HashOf <- MCHashOf
    QualityOf <- MCQualityOf
    LinksOf <- MCLinksOf
    Home = {1}
    RootRank <- MCRootRank
    Since = 3
    MaxEvents = 1
    AutoDedupe = {FALSE}
    RebuildAlone = TRUE
    MaxId = 5
    Crawled = {1, 2, 3, 4}
    WarcBound = 1
    CommandBound <- MCCommandBound
CHECK_DEADLOCK FALSE
INVARIANTS TypeOK   
PROPERTIES RecentGetsEvent
