SPECIFICATION Spec
CONSTANTS
    Client = {c1}
    Task = {t1}
    Episode = {e1, e2}
    Issue = {i1}
    Delayed = {"publish"}
    Edited = {"review"}
    MaxRevisions = 4
    Author = Author
    NULL = NULL
SYMMETRY Symmetric
INVARIANTS
    HeadsBuildOnHeads
    EpisodesFollowSceneList
    HistoryStays
    FinalizedStands
PROPERTIES
    CommittedIsNotRefused
    ArchivedStaysPut
CHECK_DEADLOCK FALSE
