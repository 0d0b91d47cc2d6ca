\* One file that nobody else edits.
SPECIFICATION Spec
CONSTANTS
    File = {f1}
    Edited = {}
    Text = {t1, t2}
    Foreign = {x1}
    Torn = Torn
    NULL = NULL
INVARIANTS
    ReceiptDecides
