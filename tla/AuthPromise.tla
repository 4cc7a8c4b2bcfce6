----------------------------- MODULE AuthPromise -----------------------------
(***************************************************************************)
(* What Wikigen-Auth promises its clients, with the threads' steps, the    *)
(* database rows and the access tokens left out: a client is granted a JWT *)
(* only for an account whose credentials are stored, a repository is made  *)
(* only where a request asks for it, in such an account and under the name *)
(* it asks for, and that request is told of no other repository.           *)
(***************************************************************************)
CONSTANTS
    Threads,   \* one for each request
    Accounts,  \* GitHub accounts
    Wikis      \* repository names

VARIABLES
    stored,    \* the accounts whose credentials the service holds
    repos,     \* the repositories it made, as <<account, name>>
    asked,     \* the repository each request wants, <<>> if none (yet)
    outcome    \* what each request was told

vars == <<stored, repos, asked, outcome>>

Init ==
    /\ stored = {}
    /\ repos = {}
    /\ asked = [t \in Threads |-> <<>>]
    /\ outcome = [t \in Threads |-> <<"none">>]

Tell(t, o) ==
    /\ outcome[t] = <<"none">>
    /\ outcome' = [outcome EXCEPT ![t] = o]

Store(a) ==
    /\ stored' = stored \cup {a}
    /\ UNCHANGED <<repos, asked, outcome>>

Grant(t, a) ==
    /\ a \in stored
    /\ Tell(t, <<"granted", a>>)
    /\ UNCHANGED <<stored, repos, asked>>

\* A request shows a JWT of an account and names a wiki.
Ask(t, a, w) ==
    /\ asked[t] = <<>>
    /\ outcome[t] = <<"none">>
    /\ asked' = [asked EXCEPT ![t] = <<a, w>>]
    /\ UNCHANGED <<stored, repos, outcome>>

\* On behalf of an unanswered request, which may or may not be told of it.
Create(t, a, w) ==
    /\ asked[t] = <<a, w>>
    /\ a \in stored
    /\ outcome[t] = <<"none">>
    /\ repos' = repos \cup {<<a, w>>}
    /\ UNCHANGED <<stored, asked, outcome>>

Provide(t) ==
    /\ asked[t] \in repos
    /\ Tell(t, <<"url", asked[t]>>)
    /\ UNCHANGED <<stored, repos, asked>>

Refuse(t) ==
    /\ Tell(t, <<"refused">>)
    /\ UNCHANGED <<stored, repos, asked>>

Next ==
    \/ \E a \in Accounts : Store(a)
    \/ \E t \in Threads :
          \/ Provide(t) \/ Refuse(t)
          \/ \E a \in Accounts :
                \/ Grant(t, a)
                \/ \E w \in Wikis : Ask(t, a, w) \/ Create(t, a, w)

Spec == Init /\ [][Next]_vars
=============================================================================
