SPECIFICATION Spec
CONSTANTS
    owner = owner
    alice = alice
    bob = bob
    root = root
    dba = dba
    sec = sec
    adm = adm
    boss = boss
    Users = {owner, alice, bob, root}
    Owner = owner
    Groups = {dba, sec, adm, boss}
    NoGroup = NoGroup
    AdminGroup = adm
    GroupsOf <- MCGroupsOf
    Reviewers = {dba, sec}
    ForceGroups = {boss}
    MinApprovals = 2
    ReviewType = "jit"
    Requests = {r1, r2, r3}
    NoUser = NoUser
INVARIANTS
    ApprovalIsBacked
    NoSelfApproval
    DenialIsAttributed
CHECK_DEADLOCK FALSE
