SPECIFICATION FairExecSpec
CONSTANTS
    owner = owner
    alice = alice
    dba = dba
    adm = adm
    Users = {owner, alice}
    Owner = owner
    Groups = {dba, adm}
    NoGroup = NoGroup
    AdminGroup = adm
    GroupsOf <- MCGroupsOf
    Reviewers = {dba}
    ForceGroups = {}
    MinApprovals = 1
    ReviewType = "onetime"
    Requests = {r1}
    NoUser = NoUser
    HttpExecs = {h1}
    McpExecs = {m1}
    NoExec = NoExec
    Closers = {c1}
    ReviewPlugin = FALSE
    DbFails = TRUE
    MaxRestarts = 1
INVARIANTS
    RunOnlyIfGranted
    NeverStuckProcessing
PROPERTY
    ProcessingIsSettled
CHECK_DEADLOCK FALSE
