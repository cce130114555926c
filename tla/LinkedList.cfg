SPECIFICATION Spec
CONSTANTS
    NULL = NULL
    d1 = d1
    d2 = d2
    c1 = c1
    c2 = c2
    c3 = c3
    c4 = c4
    Data = {d1, d2}
    Cells = {c1, c2, c3, c4}
INVARIANTS FieldsAgree WalkExact
PROPERTY Implements
