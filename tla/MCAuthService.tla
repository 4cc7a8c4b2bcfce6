---------------------------- MODULE MCAuthService ----------------------------
(***************************************************************************)
(* Small instances of AuthService: alice consents twice, bob once.         *)
(***************************************************************************)
EXTENDS AuthService, TLC

CONSTANTS alice, bob,               \* accounts
          nameA, nameB, nameC,      \* logins
          g1, g2, g3                \* grants

MCGrantOwner == g1 :> alice @@ g2 :> alice @@ g3 :> bob
MCInitLogin == alice :> nameA @@ bob :> nameB

BobRenamed == alice :> {nameA} @@ bob :> {nameB, nameC}
AnyRenamed == [a \in Accounts |-> Logins]

ThreadSymmetry == Permutations(Threads)

NoFailures == {}
AllButGithub == FailureKinds \ {"curl", "github"}
AllButLostWrites == FailureKinds \ {"execute"}
=============================================================================
