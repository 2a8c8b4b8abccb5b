SPECIFICATION SidebarSpec
CONSTANTS
    a = a
    b = b
    Chats = {a, b}
    Groups = {}
    Rows <- MCRows
    RowsOf <- MCRowsOf
    NoRow = norow
    Filters = {"direct", "archived"}
    StartTables <- MCStartTables
    Queries = {x, y}
    NoQuery = noquery
    Matches <- MCMatches
    Calls = {c1, c2}
    Writers = {p1, p2}
    MaxWrites = 2
INVARIANTS
    ModelFollowsIndex
    ListAnswersQuery
    IndexIsCurrent
SYMMETRY MCSymmetry
