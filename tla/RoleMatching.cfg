SPECIFICATION Spec
CONSTANTS
    Roles <- MCRoles
    People <- MCPeople
    NoRole = NoRole
INVARIANTS
    AnswerIsRight
PROPERTIES
    Returns
\* the function has returned
CHECK_DEADLOCK FALSE
