SPECIFICATION Spec
CONSTANTS
    alice = alice
    bob = bob
    nameA = nameA
    nameB = nameB
    nameC = nameC
    g1 = g1
    g2 = g2
    g3 = g3
    Null = Null
    Threads = {t1, t2, t3, t4}
    Accounts = {alice, bob}
    Logins = {nameA, nameB, nameC}
    Wikis = {w1}
    Grants = {g1, g2, g3}
    GrantOwner <- MCGrantOwner
    InitLogin <- MCInitLogin
    Names <- BobRenamed
    UniqueGithubId = TRUE
    Failures <- AllButGithub
SYMMETRY ThreadSymmetry
INVARIANTS SilentMeansMadeByAnother
PROPERTIES NoRecordMeansNewOrRenamed
CHECK_DEADLOCK FALSE
