SPECIFICATION ExecSpec
CONSTANTS
    owner = owner
    alice = alice
    dba = dba
    adm = adm
    Users = {owner, alice}
    Owner = owner
    Groups = {dba, adm}
    NoGroup = NoGroup
    AdminGroup = adm
    GroupsOf <- MCGroupsOf
    Reviewers = {dba}
    ForceGroups = {}
    MinApprovals = 1
    ReviewType = "onetime"
    Requests = {r1}
    NoUser = NoUser
    HttpExecs = {h1, h2}
    McpExecs = {}
    NoExec = NoExec
    Closers = {c1}
    ReviewPlugin = TRUE
    DbFails = FALSE
    MaxRestarts = 0
INVARIANT
    ExecutedOnlyOnce
CHECK_DEADLOCK FALSE
