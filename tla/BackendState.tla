----------------------------- MODULE BackendState -----------------------------
(***************************************************************************)
(* What the backend keeps of its users, side by side: an account with the  *)
(* copies of its row, and the lessons and points of users.  As in          *)
(* KernelState, they share no state, and a behaviour is one of one part.   *)
(***************************************************************************)
EXTENDS Naturals

CONSTANTS
    None,
    Requests,
    \* UserAccounts
    Passwords, Addresses, CacheTTL, Latency, LockWindow, MaxFailed, MaxChanges, MaxClock,
    \* LearningProgress
    Users, Lessons, Quizzes, Rewards, MaxEdits

VARIABLES
    part,
    \* UserAccounts
    clock, user, authCache, profileCache, req, left, changes,
    \* LearningProgress
    item, acquired, xp, cached, call, paid, claimed, edits

Accounts == INSTANCE UserAccounts

Learning == INSTANCE LearningProgress WITH req <- call

ASSUME BackendAssumption == Accounts!AccountsAssumption /\ Learning!PointsAssumption

accountsVars == <<clock, user, authCache, profileCache, req, left, changes>>
learningVars == <<item, acquired, xp, cached, call, paid, claimed, edits>>
vars == <<part, accountsVars, learningVars>>

Init == part \in {"account", "learning"} /\ Accounts!Init /\ Learning!Init

Next ==
    \/ part = "account" /\ Accounts!Next /\ UNCHANGED <<part, learningVars>>
    \/ part = "learning" /\ Learning!Next /\ UNCHANGED <<part, accountsVars>>

Spec == Init /\ [][Next]_vars

\* Each variable of each part has its type
TypeOK == IF part = "learning" THEN Learning!TypeOK ELSE Accounts!TypeOK

\* UserAccounts: a login is decided, and a profile shown, by what the row says, or has
\* just now said
DecidedByRecentRow == Accounts!DecidedByRecentRow

\* LearningProgress: the points of a completion are added once
PointsOnce == part = "learning" => Learning!PointsOnce

=============================================================================
