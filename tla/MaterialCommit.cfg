\* Two files, one of them open to the editor, two texts of the application.
SPECIFICATION Spec
CONSTANTS
    File = {f1, f2}
    Edited = {f1}
    Text = {t1, t2}
    Foreign = {x1}
    Torn = Torn
    NULL = NULL
SYMMETRY Symmetric
INVARIANTS
    FileFollowsReceipt
    CallerToldTruth
PROPERTIES
    NothingLost
