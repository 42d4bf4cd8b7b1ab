SPECIFICATION Spec
CONSTANTS
    select = select
    command = command
    n1 = n1
    n2 = n2
    p1 = p1
    p2 = p2
    Mangled = Mangled
    Selects = {select}
    Commands = {command}
    StatementNames = {n1, n2}
    PortalNames = {p1, p2}
    MaxPrepared = 1
    MaxRows = 3
    Limits = {0, 1, 2}
    Queries <- MCQueries
VIEW View
INVARIANT RowsAreLive
