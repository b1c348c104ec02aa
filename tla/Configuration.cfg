SPECIFICATION Spec
CONSTANTS
    c1 = c1 c2 = c2
    j1 = j1 j2 = j2 t1 = t1 r1 = r1 g1 = g1 w1 = w1
    n1 = n1 n2 = n2
    None = None
    Clients = {c1, c2}
    Rows = {j1, j2, t1, r1, g1, w1}
    Kind <- MCKind
    FirstRows <- MCFirstRows
    Names = {n1, n2}
    MaxRequests = 2
SYMMETRY Interchangeable
CHECK_DEADLOCK FALSE
INVARIANTS
    TypeOK
    EditsMeetTheirVersion
    ChangesAreLogged
    AnswersAreTrue
