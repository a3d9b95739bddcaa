--------------------------- MODULE LearningProgress ---------------------------
(***************************************************************************)
(* Lessons, quizzes and experience points: what is recorded as completed   *)
(* (user_items), the points of the users, the copy of a profile in Redis,  *)
(* and the handlers of api/routes/lessons.ts, quizzes.ts and items.ts with *)
(* the statements of api/data/db.ts, each of which commits by itself.      *)
(***************************************************************************)
EXTENDS Naturals

CONSTANTS
    None,
    Users, Lessons, Quizzes,
    Rewards,        \* points that a lesson or quiz may name
    Requests,       \* slots for requests in flight
    MaxEdits        \* bound on the changes of items and points by administrators

PointsAssumption == Rewards \subseteq Nat /\ MaxEdits \in Nat

Items == Lessons \cup Quizzes
Completions == Users \X Items

VARIABLES
    item,           \* table items: per lesson or quiz its reward, None if it is deleted
    acquired,       \* table user_items
    xp,             \* users.xp_total
    cached,         \* Redis: the points in the copy of a profile
    req,            \* per slot, the request in flight: its handler's locals
    paid,           \* history: how often the points of a completion were added,
    claimed,        \* and how often a reply has said that they were
    edits

vars == <<item, acquired, xp, cached, req, paid, claimed, edits>>
tables == <<item, acquired, xp>>
history == <<paid, claimed, edits>>

Idle == [pc |-> "idle", who |-> None, what |-> None, reward |-> 0, earned |-> FALSE, seen |-> 0]

To(q, pc) == req' = [req EXCEPT ![q].pc = pc]
End(q) == req' = [req EXCEPT ![q] = Idle]

Completion(q) == <<req[q].who, req[q].what>>

\* The reply says what was earned
Answer(q) ==
    /\ End(q)
    /\ claimed' = IF req[q].earned
                  THEN [claimed EXCEPT ![Completion(q)] = @ + 1] ELSE claimed
    /\ UNCHANGED <<paid, edits>>

-----------------------------------------------------------------------------

\* POST lessons/:id/complete and quizzes/:id/submit
Start(q) ==
    /\ req[q].pc = "idle"
    /\ \E u \in Users, i \in Items :
            req' = [req EXCEPT ![q] = [Idle EXCEPT !.pc = "item", !.who = u, !.what = i]]
    /\ UNCHANGED <<tables, cached, history>>

\* Mutant: an item that is gone is not noticed
GetItemAnyway(q) ==
    /\ req[q].pc = "item"
    /\ req' = [req EXCEPT ![q].reward = item[req[q].what],
                          ![q].pc = IF req[q].what \in Quizzes THEN "attempt" ELSE "acquire"]
    /\ UNCHANGED <<tables, cached, history>>

\* getLessonById, getQuizById: the reward is that of the row now
GetItem(q) ==
    /\ req[q].pc = "item"
    /\ IF item[req[q].what] = None THEN End(q)
       ELSE req' = [req EXCEPT ![q].reward = item[req[q].what],
                               ![q].pc = IF req[q].what \in Quizzes THEN "attempt" ELSE "acquire"]
    /\ UNCHANGED <<tables, cached, history>>

\* recordQuizAttempt, refused for a quiz that is gone; points are for attempts that passed
Attempt(q) ==
    /\ req[q].pc = "attempt"
    /\ IF item[req[q].what] = None THEN End(q)
       ELSE \E pc \in {"acquire", "snapshot"} : To(q, pc)
    /\ UNCHANGED <<tables, cached, history>>

\* Mutant: the points are added for what was completed before, too
AcquireAgain(q) ==
    /\ req[q].pc = "acquire"
    /\ IF item[req[q].what] = None THEN End(q) /\ UNCHANGED acquired
       ELSE acquired' = acquired \cup {Completion(q)} /\ To(q, "points")
    /\ UNCHANGED <<item, xp, cached, history>>

\* completeItemWithXp: INSERT ... ON CONFLICT DO NOTHING, also refused if the item is gone
Acquire(q) ==
    /\ req[q].pc = "acquire"
    /\ IF item[req[q].what] = None THEN End(q) /\ UNCHANGED acquired
       ELSE /\ acquired' = acquired \cup {Completion(q)}
            /\ To(q, IF Completion(q) \in acquired THEN "snapshot" ELSE "points")
    /\ UNCHANGED <<item, xp, cached, history>>

\* updateUserXP
AddPoints(q) ==
    /\ req[q].pc = "points"
    /\ xp' = [xp EXCEPT ![req[q].who] = @ + req[q].reward]
    /\ paid' = [paid EXCEPT ![Completion(q)] = @ + 1]
    /\ req' = [req EXCEPT ![q].pc = "drop", ![q].earned = TRUE]
    /\ UNCHANGED <<item, acquired, cached, claimed, edits>>

\* The copy of the profile is dropped, unless Redis fails.  A lesson is answered at once
Drop(q) ==
    /\ req[q].pc = "drop"
    /\ cached' \in {cached, [cached EXCEPT ![req[q].who] = None]}
    /\ IF req[q].what \in Lessons THEN Answer(q) ELSE To(q, "snapshot") /\ UNCHANGED history
    /\ UNCHANGED tables

\* getUserById, before the reply: the copy if there is one.  Of a quiz that was completed
\* before it is asked twice, which shows no more than once
Snapshot(q) ==
    /\ req[q].pc = "snapshot"
    /\ \/ cached[req[q].who] # None /\ Answer(q)
       \/ /\ req' = [req EXCEPT ![q].pc = "fill", ![q].seen = xp[req[q].who]]
          /\ UNCHANGED history
    /\ UNCHANGED <<tables, cached>>

Fill(q) ==
    /\ req[q].pc = "fill"
    /\ cached' \in {cached, [cached EXCEPT ![req[q].who] = req[q].seen]}
    /\ Answer(q)
    /\ UNCHANGED tables

\* A statement fails, or the process ends
Fail(q) ==
    /\ req[q].pc # "idle"
    /\ End(q)
    /\ UNCHANGED <<tables, cached, history>>

-----------------------------------------------------------------------------
(* One statement each.                                                     *)

Edits == edits < MaxEdits /\ edits' = edits + 1 /\ UNCHANGED <<paid, claimed, req>>

\* updateLesson
SetReward(i) ==
    /\ i \in Lessons /\ item[i] # None /\ Edits
    /\ \E r \in Rewards : item' = [item EXCEPT ![i] = r]
    /\ UNCHANGED <<acquired, xp, cached>>

\* deleteItem: what was recorded of it goes with it
DeleteItem(i) ==
    /\ item[i] # None /\ Edits
    /\ item' = [item EXCEPT ![i] = None]
    /\ acquired' = {c \in acquired : c[2] # i}
    /\ UNCHANGED <<xp, cached>>

\* PATCH users/:id sets the points, and drops the copy
SetPoints(u) ==
    /\ Edits
    /\ \E n \in Rewards : xp' = [xp EXCEPT ![u] = n]
    /\ cached' \in {cached, [cached EXCEPT ![u] = None]}
    /\ UNCHANGED <<item, acquired>>

Expire(u) ==
    /\ cached[u] # None /\ cached' = [cached EXCEPT ![u] = None]
    /\ UNCHANGED <<tables, req, history>>

Handle(q) ==
    \/ Start(q) \/ GetItem(q) \/ Attempt(q) \/ Acquire(q) \/ AddPoints(q)
    \/ Drop(q) \/ Snapshot(q) \/ Fill(q) \/ Fail(q)

Init ==
    /\ item \in [Items -> Rewards]
    /\ acquired = {}
    /\ xp = [u \in Users |-> 0]
    /\ cached = [u \in Users |-> None]
    /\ req = [q \in Requests |-> Idle]
    /\ paid = [c \in Completions |-> 0] /\ claimed = [c \in Completions |-> 0]
    /\ edits = 0

Next ==
    \/ \E q \in Requests : Handle(q)
    \/ \E i \in Items : SetReward(i) \/ DeleteItem(i)
    \/ \E u \in Users : SetPoints(u) \/ Expire(u)

Spec == Init /\ [][Next]_vars

-----------------------------------------------------------------------------

RequestType ==
    [pc : {"idle", "item", "attempt", "acquire", "points", "drop", "snapshot", "fill"},
     who : Users \cup {None}, what : Items \cup {None}, reward : Nat, earned : BOOLEAN, seen : Nat]

TypeOK ==
    /\ item \in [Items -> Rewards \cup {None}]
    /\ acquired \subseteq Completions
    /\ xp \in [Users -> Nat]
    /\ cached \in [Users -> Nat \cup {None}]
    /\ paid \in [Completions -> Nat] /\ claimed \in [Completions -> Nat]
    /\ edits \in 0..MaxEdits
    /\ req \in [Requests -> RequestType]

\* The points of a completion are added at most once, whoever completes it at the same
\* time, gives up, tries again, or has the item taken away; and a reply speaks of points
\* earned only when they were added ("applies XP once", lessons.ts:77).
PointsOnce == \A c \in Completions : claimed[c] <= paid[c] /\ paid[c] <= 1

=============================================================================
