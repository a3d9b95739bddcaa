------------------------ MODULE BackendStateProofs --------------------------
(***************************************************************************)
(* Proofs about BackendState: the points of lessons, and what the copies of *)
(* an account may still say.  They hold for every set of users, items,     *)
(* requests, passwords and addresses, and for every length of the times.   *)
(*                                                                         *)
(* Each part has an inductive invariant; that of the accounts says, of every *)
(* copy in Redis and of the locals of every handler, from which time on what *)
(* they say was so.                                                        *)
(***************************************************************************)
EXTENDS BackendState, Integers, TLAPS

-----------------------------------------------------------------------------
(* LearningProgress.  A completion is paid by the request that recorded it: *)
(* one at most is between the record and the points, and while the item is *)
(* there the record keeps the others away.                                 *)

\* A request in flight is of a user and an item
Known == \A q \in Requests : call[q].pc # "idle"
    => call[q].who \in Users /\ call[q].what \in Learning!Items

\* The completion a request is about to add the points of, or has added them of
Paying(q, u, i) == call[q].pc = "points" /\ call[q].who = u /\ call[q].what = i
Telling(q, u, i) == call[q].earned /\ call[q].who = u /\ call[q].what = i

\* Points are told of only after they were added
Earned == \A q \in Requests : call[q].earned => call[q].pc \in {"drop", "snapshot", "fill"}

\* What was paid or is about to be is recorded, as long as the item is there
Recorded ==
    \A u \in Users, i \in Learning!Items :
        paid[<<u, i>>] > 0 \/ (\E q \in Requests : Paying(q, u, i)) =>
            <<u, i>> \in acquired \/ item[i] = None

\* One request at most is to pay a completion, and none that was paid
PaidOnce ==
    \A u \in Users, i \in Learning!Items :
        /\ paid[<<u, i>>] <= 1
        /\ \A q \in Requests : Paying(q, u, i) => paid[<<u, i>>] = 0
        /\ \A p, q \in Requests : Paying(p, u, i) /\ Paying(q, u, i) => p = q

\* One request at most is to tell of it, and none where that was told
ToldOnce ==
    \A u \in Users, i \in Learning!Items :
        /\ claimed[<<u, i>>] <= paid[<<u, i>>]
        /\ \A q \in Requests : Telling(q, u, i) => claimed[<<u, i>>] = 0 /\ paid[<<u, i>>] = 1
        /\ \A p, q \in Requests : Telling(p, u, i) /\ Telling(q, u, i) => p = q

PointsInv == Learning!TypeOK /\ Known /\ Earned /\ Recorded /\ PaidOnce /\ ToldOnce

-----------------------------------------------------------------------------

\* Nothing is paid, and nobody is in the middle of anything, at the beginning
LEMMA PointsInit == Learning!PointsAssumption /\ Learning!Init => PointsInv
  BY DEF Learning!PointsAssumption, Learning!Init, PointsInv, Learning!TypeOK,
     Learning!RequestType, Learning!Idle, Known, Paying, Telling, Earned,
         Recorded, PaidOnce, ToldOnce, Learning!Completions

Steps == {"idle", "item", "attempt", "acquire", "points", "drop", "snapshot", "fill"}

\* The changes that handlers make to a request keep its type
LEMMA Changed ==
    ASSUME NEW r \in Learning!RequestType
    PROVE  /\ Learning!Idle \in Learning!RequestType
           /\ \A pc \in Steps : [r EXCEPT !.pc = pc] \in Learning!RequestType
           /\ \A u \in Users,
              i \in Learning!Items : [Learning!Idle EXCEPT !.pc = "item", !.who = u,
                  !.what = i] \in Learning!RequestType
           /\ \A n \in Nat,
              pc \in Steps : [r EXCEPT !.reward = n, !.pc = pc] \in Learning!RequestType
           /\ [r EXCEPT !.pc = "drop", !.earned = TRUE] \in Learning!RequestType
           /\ \A n \in Nat : [r EXCEPT !.pc = "fill", !.seen = n] \in Learning!RequestType
  BY DEF Learning!RequestType, Learning!Idle, Steps

\* Every step of the lessons keeps the types
LEMMA TypeNext == Learning!PointsAssumption /\ Learning!TypeOK /\ Known
    /\ [Learning!Next]_learningVars => Learning!TypeOK'
  <1> SUFFICES ASSUME Learning!PointsAssumption, Learning!TypeOK, Known,
                      [Learning!Next]_learningVars PROVE Learning!TypeOK'
    OBVIOUS
  <1> USE DEF Learning!TypeOK
  <1>r. ASSUME NEW q \in Requests, NEW r \in Learning!RequestType, call' = [call EXCEPT ![q] = r]
        PROVE  call' \in [Requests -> Learning!RequestType]
    BY <1>r
  <1>e. ASSUME NEW q \in Requests,
      Learning!End(q) PROVE call' \in [Requests -> Learning!RequestType]
    BY <1>e, <1>r, Changed DEF Learning!End
  <1>t. ASSUME NEW q \in Requests, NEW pc \in Steps,
      Learning!To(q, pc) PROVE call' \in [Requests -> Learning!RequestType]
    <2>1. [call[q] EXCEPT !.pc = pc] \in Learning!RequestType
      BY Changed
    <2> QED BY <1>t, <1>r, <2>1 DEF Learning!To
  <1>c. ASSUME NEW q \in Requests,
      call[q].pc # "idle" PROVE Learning!Completion(q) \in Learning!Completions
    BY <1>c DEF Learning!Completion, Learning!Completions, Known
  <1>1. ASSUME NEW q \in Requests, Learning!Start(q) PROVE Learning!TypeOK'
    <2>1. PICK u \in Users, i \in Learning!Items :
            call'
                = [call EXCEPT ![q] = [Learning!Idle EXCEPT !.pc = "item", !.who = u, !.what = i]]
      BY <1>1 DEF Learning!Start
    <2>2. call' \in [Requests -> Learning!RequestType]
      BY <2>1, <1>r, Changed
    <2> QED BY <1>1, <2>2 DEF Learning!Start, Learning!tables, Learning!history
  <1>2. ASSUME NEW q \in Requests, Learning!GetItem(q) PROVE Learning!TypeOK'
    <2>1. CASE item[call[q].what] = None
      BY <1>2, <2>1, <1>e DEF Learning!GetItem, Learning!tables, Learning!history
    <2>2. CASE item[call[q].what] # None
      <3> DEFINE pc == IF call[q].what \in Quizzes THEN "attempt" ELSE "acquire"
      <3>1. call' = [call EXCEPT ![q] = [call[q] EXCEPT !.reward = item[call[q].what], !.pc = pc]]
        BY <1>2, <2>2 DEF Learning!GetItem
      <3>2. item[call[q].what] \in Nat
        BY <1>2, <2>2 DEF Learning!GetItem, Known, Learning!PointsAssumption
      <3>3. call[q] \in Learning!RequestType /\ pc \in Steps
        BY DEF Steps
      <3>4. [call[q] EXCEPT !.reward = item[call[q].what], !.pc = pc] \in Learning!RequestType
        BY <3>2, <3>3, Changed
      <3>5. call' \in [Requests -> Learning!RequestType]
        BY <3>1, <3>4, <1>r
      <3> QED BY <1>2, <3>5 DEF Learning!GetItem, Learning!tables, Learning!history
    <2> QED BY <2>1, <2>2
  <1>3. ASSUME NEW q \in Requests, Learning!Attempt(q) PROVE Learning!TypeOK'
    <2>1. call' \in [Requests -> Learning!RequestType]
      BY <1>3, <1>e, <1>t DEF Learning!Attempt, Steps
    <2> QED BY <1>3, <2>1 DEF Learning!Attempt, Learning!tables, Learning!history
  <1>4. ASSUME NEW q \in Requests, Learning!Acquire(q) PROVE Learning!TypeOK'
    <2>1. call' \in [Requests -> Learning!RequestType]
      BY <1>4, <1>e, <1>t DEF Learning!Acquire, Steps
    <2>2. acquired' \subseteq Learning!Completions
      BY <1>4, <1>c DEF Learning!Acquire
    <2> QED BY <1>4, <2>1, <2>2 DEF Learning!Acquire, Learning!history
  <1>5. ASSUME NEW q \in Requests, Learning!AddPoints(q) PROVE Learning!TypeOK'
    <2>1. call' = [call EXCEPT ![q] = [call[q] EXCEPT !.pc = "drop", !.earned = TRUE]]
      BY <1>5 DEF Learning!AddPoints
    <2>2. call' \in [Requests -> Learning!RequestType]
      BY <2>1, <1>r, Changed
    <2>p. call[q].reward \in Nat
      BY DEF Learning!RequestType
    <2>n. xp[call[q].who] + call[q].reward \in Nat
      BY <1>5, <2>p DEF Learning!AddPoints, Known
    <2>3. xp' \in [Users -> Nat]
      BY <1>5, <2>n DEF Learning!AddPoints
    <2>4. paid' \in [Learning!Completions -> Nat]
      BY <1>5, <1>c DEF Learning!AddPoints
    <2> QED BY <1>5, <2>2, <2>3, <2>4 DEF Learning!AddPoints
  <1>a. ASSUME NEW q \in Requests, call[q].pc # "idle", Learning!Answer(q)
        PROVE  /\ call' \in [Requests -> Learning!RequestType]
               /\ claimed' \in [Learning!Completions -> Nat] /\ paid' = paid /\ edits' = edits
    BY <1>a, <1>e, <1>c DEF Learning!Answer
  <1>6. ASSUME NEW q \in Requests, Learning!Drop(q) PROVE Learning!TypeOK'
    <2>1. call' \in [Requests -> Learning!RequestType]
          /\ claimed' \in [Learning!Completions -> Nat]
            /\ paid' = paid /\ edits' = edits
      BY <1>6, <1>a, <1>t DEF Learning!Drop, Steps, Learning!history
    <2> QED BY <1>6, <2>1 DEF Learning!Drop, Learning!tables
  <1>7. ASSUME NEW q \in Requests, Learning!Snapshot(q) PROVE Learning!TypeOK'
    <2>1. CASE Learning!Answer(q)
      BY <1>7, <2>1, <1>a DEF Learning!Snapshot, Learning!tables
    <2>2. CASE ~Learning!Answer(q)
      <3>1. call' = [call EXCEPT ![q] = [call[q] EXCEPT !.pc = "fill", !.seen = xp[call[q].who]]]
        BY <1>7, <2>2 DEF Learning!Snapshot
      <3>2. xp[call[q].who] \in Nat
        BY <1>7 DEF Learning!Snapshot, Known
      <3>3. [call[q] EXCEPT !.pc = "fill", !.seen = xp[call[q].who]] \in Learning!RequestType
        BY <3>2, Changed
      <3>4. call' \in [Requests -> Learning!RequestType]
        BY <3>1, <3>3, <1>r
      <3> QED BY <1>7, <2>2, <3>4 DEF Learning!Snapshot, Learning!tables, Learning!history
    <2> QED BY <2>1, <2>2
  <1>8. ASSUME NEW q \in Requests, Learning!Fill(q) PROVE Learning!TypeOK'
    <2>1. call[q].seen \in Nat
      BY DEF Learning!RequestType
    <2> QED BY <1>8, <1>a, <2>1 DEF Learning!Fill, Learning!tables
  <1>9. ASSUME NEW q \in Requests, Learning!Fail(q) PROVE Learning!TypeOK'
    BY <1>9, <1>e DEF Learning!Fail, Learning!tables, Learning!history
  <1>10. ASSUME NEW i \in Learning!Items, Learning!SetReward(i) PROVE Learning!TypeOK'
    BY <1>10 DEF Learning!SetReward, Learning!Edits, Learning!PointsAssumption
  <1>11. ASSUME NEW i \in Learning!Items, Learning!DeleteItem(i) PROVE Learning!TypeOK'
    BY <1>11 DEF Learning!DeleteItem, Learning!Edits, Learning!PointsAssumption
  <1>12. ASSUME NEW u \in Users, Learning!SetPoints(u) PROVE Learning!TypeOK'
    BY <1>12 DEF Learning!SetPoints, Learning!Edits, Learning!PointsAssumption
  <1>13. ASSUME NEW u \in Users, Learning!Expire(u) PROVE Learning!TypeOK'
    BY <1>13 DEF Learning!Expire, Learning!tables, Learning!history
  <1>14. CASE UNCHANGED learningVars
    BY <1>14 DEF learningVars
  <1> QED BY <1>1, <1>2, <1>3, <1>4, <1>5, <1>6, <1>7, <1>8, <1>9, <1>10, <1>11, <1>12, <1>13,
             <1>14
          DEF Learning!Next, Learning!Handle

-----------------------------------------------------------------------------

\* What a step must not do to what is recorded, paid and told, if it pays and tells nothing
Fewer ==
    \A q \in Requests, u \in Users, i \in Learning!Items :
        (Paying(q, u, i)' => Paying(q, u, i)) /\ (Telling(q, u, i)' => Telling(q, u, i))
StillRecorded ==
    \A u \in Users, i \in Learning!Items :
        <<u, i>> \in acquired \/ item[i] = None => <<u, i>> \in acquired' \/ item'[i] = None

\* A step after which no more requests pay or tell than before, and no record is missing
LEMMA Quiet ==
    ASSUME PointsInv, Fewer, StillRecorded, paid' = paid, claimed' = claimed
    PROVE  Recorded' /\ PaidOnce' /\ ToldOnce'
  <1> USE DEF PointsInv, Fewer, StillRecorded
  <1>1. Recorded'
    BY DEF Recorded
  <1>2. PaidOnce'
    BY DEF PaidOnce
  <1>3. ToldOnce'
    BY DEF ToldOnce
  <1> QED BY <1>1, <1>2, <1>3

\* Every step of the lessons keeps the invariant
LEMMA PointsNext == Learning!PointsAssumption /\ PointsInv /\ [Learning!Next]_learningVars
    => PointsInv'
  <1> SUFFICES ASSUME Learning!PointsAssumption, PointsInv,
                      [Learning!Next]_learningVars PROVE PointsInv'
    OBVIOUS
  <1>ty. Learning!TypeOK /\ Learning!TypeOK'
    BY TypeNext DEF PointsInv
  <1>rq. \A p \in Requests : p \in DOMAIN call
      /\ DOMAIN call[p] = {"pc", "who", "what", "reward", "earned", "seen"}
    BY <1>ty DEF Learning!TypeOK, Learning!RequestType
  <1>g. SUFFICES Known' /\ Earned' /\ Recorded' /\ PaidOnce' /\ ToldOnce'
    BY <1>ty DEF PointsInv
  <1>i. Known /\ Earned /\ Recorded /\ PaidOnce /\ ToldOnce
    BY DEF PointsInv
  <1>e. ASSUME NEW q \in Requests, Learning!End(q)
        PROVE  Known' /\ Earned' /\ Fewer
    BY <1>e, <1>i, <1>rq DEF Learning!End, Learning!Idle, Known, Earned, Fewer, Paying, Telling
  <1>t. ASSUME NEW q \in Requests, call[q].pc # "idle",
      NEW pc \in {"attempt", "acquire", "snapshot"},
               call[q].earned => pc = "snapshot", Learning!To(q, pc)
        PROVE  Known' /\ Earned' /\ Fewer
    BY <1>t, <1>i, <1>rq DEF Learning!To, Known, Earned, Fewer, Paying, Telling
  <1>1. ASSUME NEW q \in Requests,
                   Learning!Start(q) PROVE Known' /\ Earned' /\ Recorded' /\ PaidOnce'
                       /\ ToldOnce'
    <2>1. Known' /\ Earned' /\ Fewer
      BY <1>1, <1>i, <1>rq DEF Learning!Start, Learning!Idle, Known, Earned, Fewer, Paying,
         Telling
    <2>2. StillRecorded /\ paid' = paid /\ claimed' = claimed
      BY <1>1 DEF Learning!Start, Learning!tables, Learning!history, StillRecorded
    <2> QED BY <2>1, <2>2, Quiet
  <1>2. ASSUME NEW q \in Requests,
                   Learning!GetItem(q) PROVE Known' /\ Earned' /\ Recorded' /\ PaidOnce'
                       /\ ToldOnce'
    <2>1. CASE Learning!End(q)
      <3>1. StillRecorded /\ paid' = paid /\ claimed' = claimed
        BY <1>2 DEF Learning!GetItem, Learning!tables, Learning!history, StillRecorded
      <3> QED BY <2>1, <3>1, <1>e, Quiet
    <2>2. CASE ~Learning!End(q)
      <3>1. Known' /\ Earned' /\ Fewer
        BY <1>2, <2>2, <1>i, <1>rq DEF Learning!GetItem, Known, Earned, Fewer, Paying, Telling
      <3>2. StillRecorded /\ paid' = paid /\ claimed' = claimed
        BY <1>2 DEF Learning!GetItem, Learning!tables, Learning!history, StillRecorded
      <3> QED BY <3>1, <3>2, Quiet
    <2> QED BY <2>1, <2>2
  <1>3. ASSUME NEW q \in Requests,
                   Learning!Attempt(q) PROVE Known' /\ Earned' /\ Recorded' /\ PaidOnce'
                       /\ ToldOnce'
    <2>1. Known' /\ Earned' /\ Fewer
      BY <1>3, <1>e, <1>t, <1>i DEF Learning!Attempt, Earned
    <2>2. StillRecorded /\ paid' = paid /\ claimed' = claimed
      BY <1>3 DEF Learning!Attempt, Learning!tables, Learning!history, StillRecorded
    <2> QED BY <2>1, <2>2, Quiet
  <1>4. ASSUME NEW q \in Requests,
                   Learning!Acquire(q) PROVE Known' /\ Earned' /\ Recorded' /\ PaidOnce'
                       /\ ToldOnce'
    <2>1. paid' = paid /\ claimed' = claimed /\ item' = item /\ ~call[q].earned
      BY <1>4, <1>i DEF Learning!Acquire, Learning!history, Earned
    <2>2. StillRecorded
      BY <1>4, <2>1 DEF Learning!Acquire, StillRecorded
    <2>3. CASE Learning!End(q)
      BY <2>1, <2>2, <2>3, <1>e, Quiet
    <2>4. CASE Learning!To(q, "snapshot")
      BY <1>4, <2>1, <2>2, <2>4, <1>t, Quiet DEF Learning!Acquire
    <2>5. CASE ~Learning!End(q) /\ ~Learning!To(q, "snapshot")
      <3> DEFINE w == call[q].who
                 x == call[q].what
      <3>1. /\ Learning!To(q, "points") /\ acquired' = acquired \cup {<<w, x>>}
            /\ <<w, x>> \notin acquired /\ item[x] # None /\ w \in Users /\ x \in Learning!Items
        BY <1>4, <2>5, <1>i DEF Learning!Acquire, Learning!Completion, Known
      <3>2. paid[<<w, x>>] = 0 /\ \A p \in Requests : ~Paying(p, w, x)
        <4>1. paid[<<w, x>>] \in Nat
          BY <3>1, <1>ty DEF Learning!TypeOK, Learning!Completions
        <4> QED BY <3>1, <4>1, <1>i DEF Recorded
      <3>3. Known' /\ Earned'
        BY <3>1, <2>1, <1>i, <1>rq DEF Learning!To, Known, Earned
      <3>4. \A p \in Requests, u \in Users, i \in Learning!Items :
              /\ Telling(p, u, i)' => Telling(p, u, i)
              /\ Paying(p, u, i)' => Paying(p, u, i) \/ (p = q /\ u = w /\ i = x)
        BY <3>1, <1>rq DEF Learning!To, Paying, Telling
      <3>5. Recorded'
        BY <3>1, <3>4, <2>1, <2>2, <1>i DEF Recorded, StillRecorded
      <3>6. PaidOnce'
        <4> SUFFICES ASSUME NEW u \in Users, NEW i \in Learning!Items
            PROVE  /\ paid'[<<u, i>>] <= 1
                   /\ \A p \in Requests : Paying(p, u, i)' => paid'[<<u, i>>] = 0
                   /\ \A p, r \in Requests : Paying(p, u, i)' /\ Paying(r, u, i)' => p = r
          BY DEF PaidOnce
        <4>1. paid'[<<u, i>>] = paid[<<u, i>>] /\ paid[<<u, i>>] <= 1
          BY <2>1, <1>i DEF PaidOnce
        <4>2. CASE u = w /\ i = x
          BY <4>1, <4>2, <3>2, <3>4
        <4>3. CASE ~(u = w /\ i = x)
          BY <4>1, <4>3, <3>4, <1>i DEF PaidOnce
        <4> QED BY <4>2, <4>3
      <3>7. ToldOnce'
        BY <3>4, <2>1, <1>i DEF ToldOnce
      <3> QED BY <3>3, <3>5, <3>6, <3>7
    <2> QED BY <2>3, <2>4, <2>5
  <1>5. ASSUME NEW q \in Requests,
                   Learning!AddPoints(q) PROVE Known' /\ Earned' /\ Recorded' /\ PaidOnce'
                       /\ ToldOnce'
    <2> DEFINE w == call[q].who
               x == call[q].what
    <2>1. w \in Users /\ x \in Learning!Items /\ Paying(q, w, x) /\ <<w,
          x>> \in Learning!Completions
      BY <1>5, <1>i DEF Learning!AddPoints, Known, Learning!Completions, Paying
    <2>2. paid[<<w, x>>] = 0 /\ claimed[<<w, x>>] = 0
      <3>1. paid[<<w, x>>] = 0
        BY <2>1, <1>i DEF PaidOnce
      <3>2. claimed[<<w, x>>] <= 0 /\ claimed[<<w, x>>] \in Nat
        BY <2>1, <3>1, <1>i, <1>ty DEF ToldOnce, Learning!TypeOK
      <3> QED BY <3>1, <3>2
    <2>3. \A u \in Users, i \in Learning!Items :
            paid'[<<u, i>>] = IF u = w /\ i = x THEN 1 ELSE paid[<<u, i>>]
      <3>1. \A u \in Users, i \in Learning!Items : <<u, i>> \in Learning!Completions
        BY DEF Learning!Completions
      <3>2. paid' = [paid EXCEPT ![<<w, x>>] = @ + 1]
        BY <1>5 DEF Learning!AddPoints, Learning!Completion
      <3>3. \A c \in Learning!Completions : paid'[c] = IF c = <<w,
            x>> THEN paid[c] + 1 ELSE paid[c]
        BY <3>2, <1>ty DEF Learning!TypeOK
      <3>4. ASSUME NEW u \in Users, NEW i \in Learning!Items
           PROVE  <<u, i>> = <<w, x>> <=> u = w /\ i = x
        OBVIOUS
      <3>5. ASSUME NEW u \in Users, NEW i \in Learning!Items
           PROVE  paid'[<<u, i>>] = IF u = w /\ i = x THEN 1 ELSE paid[<<u, i>>]
        <4>1. paid'[<<u, i>>] = IF <<u, i>> = <<w, x>> THEN paid[<<u, i>>] + 1 ELSE paid[<<u, i>>]
          BY <3>1, <3>3
        <4>2. paid[<<w, x>>] = 0
          BY <2>1, <2>2
        <4> QED BY <4>1, <4>2, <3>4
      <3> QED BY <3>5
    <2>4. claimed' = claimed /\ acquired' = acquired /\ item' = item
      BY <1>5 DEF Learning!AddPoints
    <2>5. \A p \in Requests, u \in Users, i \in Learning!Items :
            /\ Paying(p, u, i)' => Paying(p, u, i) /\ p # q
            /\ Telling(p, u, i)' => Telling(p, u, i) \/ (p = q /\ u = w /\ i = x)
      BY <1>5, <1>rq DEF Learning!AddPoints, Paying, Telling
    <2>6. \A p \in Requests : ~Telling(p, w, x)
      BY <2>1, <2>2, <1>i DEF ToldOnce
    <2>7. \A p \in Requests : Paying(p, w, x) => p = q
      BY <2>1, <1>i DEF PaidOnce
    <2>8. Known' /\ Earned'
      BY <1>5, <1>i, <1>rq DEF Learning!AddPoints, Known, Earned
    <2>9. Recorded'
      BY <2>1, <2>3, <2>4, <2>5, <1>i DEF Recorded
    <2>10. PaidOnce'
      <3> SUFFICES ASSUME NEW u \in Users, NEW i \in Learning!Items
          PROVE  /\ paid'[<<u, i>>] <= 1
                 /\ \A p \in Requests : Paying(p, u, i)' => paid'[<<u, i>>] = 0
                 /\ \A p, r \in Requests : Paying(p, u, i)' /\ Paying(r, u, i)' => p = r
        BY DEF PaidOnce
      <3>1. CASE u = w /\ i = x
        BY <3>1, <2>3, <2>5, <2>7
      <3>2. CASE ~(u = w /\ i = x)
        BY <3>2, <2>3, <2>5, <1>i DEF PaidOnce
      <3> QED BY <3>1, <3>2
    <2>11. ToldOnce'
      <3> SUFFICES ASSUME NEW u \in Users, NEW i \in Learning!Items
          PROVE  /\ claimed'[<<u, i>>] <= paid'[<<u, i>>]
                 /\ \A p \in Requests : Telling(p, u, i)'
                    => claimed'[<<u, i>>] = 0 /\ paid'[<<u, i>>] = 1
                 /\ \A p, r \in Requests : Telling(p, u, i)' /\ Telling(r, u, i)' => p = r
        BY DEF ToldOnce
      <3>1. CASE u = w /\ i = x
        BY <3>1, <2>2, <2>3, <2>4, <2>5, <2>6
      <3>2. CASE ~(u = w /\ i = x)
        BY <3>2, <2>3, <2>4, <2>5, <1>i DEF ToldOnce
      <3> QED BY <3>1, <3>2
    <2> QED BY <2>8, <2>9, <2>10, <2>11
  <1>a. ASSUME NEW q \in Requests, call[q].pc # "idle", Learning!Answer(q),
      UNCHANGED Learning!tables
        PROVE  Known' /\ Earned' /\ Recorded' /\ PaidOnce' /\ ToldOnce'
    <2>1. Known' /\ Earned' /\ Fewer /\ StillRecorded /\ paid' = paid
      BY <1>a, <1>e DEF Learning!Answer, Learning!tables, StillRecorded
    <2>2. CASE ~call[q].earned
      BY <1>a, <2>1, <2>2, Quiet DEF Learning!Answer
    <2>3. CASE call[q].earned
      <3> DEFINE w == call[q].who
                 x == call[q].what
      <3>1. w \in Users /\ x \in Learning!Items /\ Telling(q, w, x) /\ <<w,
            x>> \in Learning!Completions
        BY <1>a, <2>3, <1>i DEF Known, Learning!Completions, Telling
      <3>2. claimed[<<w, x>>] = 0 /\ paid[<<w, x>>] = 1 /\ \A p \in Requests : Telling(p, w, x)
            => p = q
        BY <3>1, <1>i DEF ToldOnce
      <3>3. \A u \in Users, i \in Learning!Items :
              claimed'[<<u, i>>] = IF u = w /\ i = x THEN 1 ELSE claimed[<<u, i>>]
        <4>1. \A u \in Users, i \in Learning!Items : <<u, i>> \in Learning!Completions
          BY DEF Learning!Completions
        <4>2. claimed' = [claimed EXCEPT ![<<w, x>>] = @ + 1]
          BY <1>a, <2>3 DEF Learning!Answer, Learning!Completion
        <4>3. \A c \in Learning!Completions : claimed'[c] = IF c = <<w,
              x>> THEN claimed[c] + 1 ELSE claimed[c]
          BY <4>2, <1>ty DEF Learning!TypeOK
        <4>4. ASSUME NEW u \in Users, NEW i \in Learning!Items
             PROVE  <<u, i>> = <<w, x>> <=> u = w /\ i = x
          OBVIOUS
        <4>5. ASSUME NEW u \in Users, NEW i \in Learning!Items
             PROVE  claimed'[<<u, i>>] = IF u = w /\ i = x THEN 1 ELSE claimed[<<u, i>>]
          <5>1. claimed'[<<u, i>>] = IF <<u, i>> = <<w,
                x>> THEN claimed[<<u, i>>] + 1 ELSE claimed[<<u, i>>]
            BY <4>1, <4>3
          <5>2. claimed[<<w, x>>] = 0
            BY <3>1, <3>2
          <5> QED BY <5>1, <5>2, <4>4
        <4> QED BY <4>5
      <3>4. \A u \in Users, i \in Learning!Items : ~Telling(q, u, i)'
        BY <1>a, <1>rq DEF Learning!Answer, Learning!End, Learning!Idle, Telling
      <3>5. ToldOnce'
        <4> SUFFICES ASSUME NEW u \in Users, NEW i \in Learning!Items
            PROVE  /\ claimed'[<<u, i>>] <= paid'[<<u, i>>]
                   /\ \A p \in Requests : Telling(p, u, i)'
                      => claimed'[<<u, i>>] = 0 /\ paid'[<<u, i>>] = 1
                   /\ \A p, r \in Requests : Telling(p, u, i)' /\ Telling(r, u, i)' => p = r
          BY DEF ToldOnce
        <4>1. CASE u = w /\ i = x
          <5>1. \A p \in Requests : ~Telling(p, u, i)'
            BY <4>1, <2>1, <3>2, <3>4 DEF Fewer
          <5>2. claimed'[<<u, i>>] = 1 /\ paid'[<<u, i>>] = 1
            BY <4>1, <2>1, <3>2, <3>3
          <5> QED BY <5>1, <5>2
        <4>2. CASE ~(u = w /\ i = x)
          BY <4>2, <2>1, <3>3, <1>i DEF ToldOnce, Fewer
        <4> QED BY <4>1, <4>2
      <3>6. Recorded'
        BY <2>1, <1>i DEF Recorded, Fewer, StillRecorded
      <3>7. PaidOnce'
        BY <2>1, <1>i DEF PaidOnce, Fewer
      <3> QED BY <2>1, <3>5, <3>6, <3>7
    <2> QED BY <2>2, <2>3
  <1>6. ASSUME NEW q \in Requests,
                   Learning!Drop(q) PROVE Known' /\ Earned' /\ Recorded' /\ PaidOnce' /\ ToldOnce'
    <2>1. CASE Learning!Answer(q)
      BY <1>6, <2>1, <1>a DEF Learning!Drop
    <2>2. CASE ~Learning!Answer(q)
      <3>1. Learning!To(q, "snapshot") /\ call[q].pc # "idle" /\ UNCHANGED Learning!history
            /\ UNCHANGED Learning!tables
        BY <1>6, <2>2 DEF Learning!Drop
      <3>2. StillRecorded /\ paid' = paid /\ claimed' = claimed
        BY <3>1 DEF Learning!tables, Learning!history, StillRecorded
      <3> QED BY <3>1, <3>2, <1>t, Quiet
    <2> QED BY <2>1, <2>2
  <1>7. ASSUME NEW q \in Requests,
                   Learning!Snapshot(q) PROVE Known' /\ Earned' /\ Recorded' /\ PaidOnce'
                       /\ ToldOnce'
    <2>1. CASE Learning!Answer(q)
      BY <1>7, <2>1, <1>a DEF Learning!Snapshot
    <2>2. CASE ~Learning!Answer(q)
      <3>1. Known' /\ Earned' /\ Fewer
        BY <1>7, <2>2, <1>i, <1>rq DEF Learning!Snapshot, Known, Earned, Fewer, Paying, Telling
      <3>2. StillRecorded /\ paid' = paid /\ claimed' = claimed
        BY <1>7, <2>2 DEF Learning!Snapshot, Learning!tables, Learning!history, StillRecorded
      <3> QED BY <3>1, <3>2, Quiet
    <2> QED BY <2>1, <2>2
  <1>8. ASSUME NEW q \in Requests,
                   Learning!Fill(q) PROVE Known' /\ Earned' /\ Recorded' /\ PaidOnce' /\ ToldOnce'
    BY <1>8, <1>a DEF Learning!Fill
  <1>9. ASSUME NEW q \in Requests,
                   Learning!Fail(q) PROVE Known' /\ Earned' /\ Recorded' /\ PaidOnce' /\ ToldOnce'
    <2>1. StillRecorded /\ paid' = paid /\ claimed' = claimed
      BY <1>9 DEF Learning!Fail, Learning!tables, Learning!history, StillRecorded
    <2> QED BY <1>9, <2>1, <1>e, Quiet DEF Learning!Fail
  <1>u. ASSUME UNCHANGED call, UNCHANGED <<paid, claimed>>, StillRecorded
        PROVE  Known' /\ Earned' /\ Recorded' /\ PaidOnce' /\ ToldOnce'
    <2>1. Known' /\ Earned' /\ Fewer
      BY <1>u, <1>i DEF Known, Earned, Fewer, Paying, Telling
    <2> QED BY <1>u, <2>1, Quiet
  <1>10. ASSUME NEW i \in Learning!Items,
                    Learning!SetReward(i) PROVE Known' /\ Earned' /\ Recorded' /\ PaidOnce'
                        /\ ToldOnce'
    <2>1. StillRecorded
      BY <1>10, <1>ty DEF Learning!SetReward, StillRecorded, Learning!TypeOK
    <2> QED BY <1>10, <2>1, <1>u DEF Learning!SetReward, Learning!Edits
  <1>11. ASSUME NEW i \in Learning!Items,
                    Learning!DeleteItem(i) PROVE Known' /\ Earned' /\ Recorded' /\ PaidOnce'
                        /\ ToldOnce'
    <2>1. StillRecorded
      BY <1>11, <1>ty DEF Learning!DeleteItem, StillRecorded, Learning!TypeOK
    <2> QED BY <1>11, <2>1, <1>u DEF Learning!DeleteItem, Learning!Edits
  <1>12. ASSUME NEW u \in Users,
                    Learning!SetPoints(u) PROVE Known' /\ Earned' /\ Recorded' /\ PaidOnce'
                        /\ ToldOnce'
    <2>1. StillRecorded
      BY <1>12 DEF Learning!SetPoints, StillRecorded
    <2> QED BY <1>12, <2>1, <1>u DEF Learning!SetPoints, Learning!Edits
  <1>13. ASSUME NEW u \in Users,
                    Learning!Expire(u) PROVE Known' /\ Earned' /\ Recorded' /\ PaidOnce'
                        /\ ToldOnce'
    <2>1. StillRecorded
      BY <1>13 DEF Learning!Expire, Learning!tables, StillRecorded
    <2> QED BY <1>13, <2>1, <1>u DEF Learning!Expire, Learning!history
  <1>14. CASE UNCHANGED learningVars
    <2>1. StillRecorded
      BY <1>14 DEF learningVars, StillRecorded
    <2> QED BY <1>14, <2>1, <1>u DEF learningVars
  <1> QED BY <1>1, <1>2, <1>3, <1>4, <1>5, <1>6, <1>7, <1>8, <1>9, <1>10, <1>11, <1>12, <1>13,
             <1>14
          DEF Learning!Next, Learning!Handle

\* A step of the backend is one of the lessons, or leaves them as they are
LEMMA PointsSteps == [Next]_vars => [Learning!Next]_learningVars
  BY DEF Next, vars, accountsVars, learningVars

\* The invariant holds in every behaviour of the backend
LEMMA PointsAlways == Spec => []PointsInv
  <1>1. Init => PointsInv
    BY PointsInit, BackendAssumption DEF Init
  <1>2. PointsInv /\ [Next]_vars => PointsInv'
    BY PointsSteps, PointsNext, BackendAssumption
  <1> QED BY <1>1, <1>2, PTL DEF Spec

\* The points of a completion are added at most once, and told of only when they were,
\* with any number of requests, users and items (completeItemWithXp, updateUserXP).
THEOREM PointsOnceCorrect == Spec => []PointsOnce
  <1>1. PointsInv => PointsOnce
    BY DEF PointsInv, PaidOnce, ToldOnce, PointsOnce, Learning!PointsOnce, Learning!Completions
  <1> QED BY <1>1, PointsAlways, PTL

-----------------------------------------------------------------------------
(* UserAccounts.  A copy of the row is read at most the latency before it is *)
(* stored, and expires after the time of the cache; a login goes by it for *)
(* at most the latency; and what follows the login, by at most that again, *)
(* caches the profile.  Whatever a copy or a handler says was so at the time *)
(* it came from, or ceased to be so after it.                              *)

\* A fact of the row holds, or ceased to no earlier than t
Fresh(f, t) == Accounts!Holds(f, user) \/ (left[f] # None /\ t <= left[f])

\* The account is not locked for longer than l, or was not until t
Open(l, t) == (user # None /\ user.locked <= l) \/ (left["open"] # None /\ t <= left["open"])

\* What a row says of the account, other than of its lock, was so at t
Said(row, t) == \A f \in {row.password, row.address, "live"} : Fresh(f, t)

\* The times from which a decision may be out of date: of a login by a copy, of the session
\* and the profile that follow, and of what PUT preferences caches again
Guessed(t) == t - CacheTTL - Latency + 1
Granted(t) == Guessed(t) - Latency

RowRead(r) ==
    /\ r.seen \in Accounts!User /\ r.seen.address = r.address /\ ~r.seen.deleted
    /\ user # None

\* A request that logs in, with the password right if it is
LogsIn(r) == r.op = "login" /\ r.password = r.seen.password

\* What the locals of a request say of the account
Locals(r) ==
    /\ r.at # None => r.at <= clock /\ clock <= r.at + Latency
    /\ r.pc \in {"fill", "guess", "session", "drop", "publish", "change", "keep", "renew"} =>
            r.at # None
    /\ r.pc \in {"change", "drop", "session"} => r.seen \in Accounts!User
    /\ r.pc \in {"guess", "change", "drop", "session"} => user # None
    /\ r.pc \in {"lookup", "select", "fill", "guess"} =>
            r.op \in Accounts!Logins /\ r.address \in Addresses
    /\ r.pc \in {"lookup", "select", "fill", "guess", "insert"} => r.password \in Passwords
    /\ r.pc = "insert" => r.address \in Addresses
    /\ r.pc \in {"verify", "change"} => r.op = "password" /\ r.new \in Passwords
    /\ r.pc = "edit" => r.op \in Accounts!Edits
    /\ r.pc = "fill" => RowRead(r) /\ Said(r.seen, r.at) /\ Open(r.seen.locked, r.at)
    /\ r.pc = "guess" =>
        /\ RowRead(r) /\ r.op = "login" /\ r.seen.locked <= r.at
        /\ Said(r.seen, Guessed(r.at)) /\ Open(r.seen.locked, Guessed(r.at))
    /\ r.pc = "session" => LogsIn(r)
    /\ r.pc \in {"session", "publish"} \/ (r.pc = "drop" /\ LogsIn(r)) =>
            Fresh("live", Granted(r.at))
    /\ r.pc = "keep" \/ (r.pc = "profile" /\ r.op = "prefer") =>
            r.at # None /\ Fresh("live", r.at)
    /\ r.pc = "renew" => Fresh("live", r.at - Latency)

\* A copy of the row was read no longer ago than it may live
AuthCopy(c) ==
    /\ c.expires <= clock + CacheTTL /\ user # None /\ ~c.row.deleted
    /\ Said(c.row, c.expires - CacheTTL - Latency)
    /\ Open(c.row.locked, c.expires - CacheTTL - Latency)

ProfileCopy(c) ==
    c.expires <= clock + CacheTTL /\ Fresh("live", Granted(c.expires - CacheTTL - Latency))

AccRow ==
    /\ clock \in 0..MaxClock /\ changes \in 0..MaxChanges
    /\ user \in Accounts!User \cup {None}
    /\ left \in [Accounts!Facts -> 0..MaxClock \cup {None}]

AccAuth ==
    /\ authCache \in [Addresses ->
            {None} \cup [row : Accounts!User, expires : 0..(MaxClock + CacheTTL)]]
    /\ \A a \in Addresses :
        authCache[a] # None => authCache[a].row.address = a /\ AuthCopy(authCache[a])

AccProfile ==
    /\ profileCache \in {None} \cup [expires : 0..(MaxClock + CacheTTL)]
    /\ profileCache # None => ProfileCopy(profileCache)

AccRequests ==
    /\ req \in [Requests -> Accounts!RequestType]
    /\ \A q \in Requests : Locals(req[q])

AccInv == AccRow /\ AccAuth /\ AccProfile /\ AccRequests

\* What is assumed of the constants of the accounts
LEMMA AccConstants ==
    /\ CacheTTL \in Nat \ {0} /\ Latency \in Nat /\ LockWindow \in Nat
    /\ MaxFailed \in Nat \ {0} /\ MaxChanges \in Nat /\ MaxClock \in Nat
    /\ None \notin Nat /\ None \notin Accounts!User /\ None \notin Accounts!Copies
    /\ "open" \notin Passwords \cup Addresses
  BY BackendAssumption DEF Accounts!AccountsAssumption

\* A row changes as a statement writes it, or stays
RowMoves ==
    \/ \E row \in Accounts!User : Accounts!Write(row)
    \/ UNCHANGED <<user, left>>

\* A step that is of a request, or of the clock
Moves ==
    \/ RowMoves /\ UNCHANGED clock
    \/ clock < MaxClock /\ clock' = clock + 1 /\ UNCHANGED <<user, left>>

\* A row that is there stays, as one of its type, and so do the times of what ceased
LEMMA LeftTyped ==
    ASSUME AccRow, Moves
    PROVE  /\ user' \in Accounts!User \cup {None} /\ (user # None => user' # None)
           /\ left' \in [Accounts!Facts -> 0..MaxClock \cup {None}]
  <1>1. CASE UNCHANGED <<user, left>>
    BY <1>1 DEF AccRow
  <1>2. ASSUME NEW row \in Accounts!User, Accounts!Write(row)
        PROVE  /\ user' \in Accounts!User \cup {None} /\ (user # None => user' # None)
               /\ left' \in [Accounts!Facts -> 0..MaxClock \cup {None}]
    BY <1>2, AccConstants DEF AccRow, Accounts!Write
  <1> QED BY <1>1, <1>2 DEF Moves, RowMoves

\* What was so no longer ago than t stays so: when a fact ceases, the time of it is now
LEMMA FreshStays ==
    ASSUME AccRow, Moves, NEW f \in Accounts!Facts \ {"open"}, NEW t \in Int,
           t <= clock, Fresh(f, t)
    PROVE  Fresh(f, t)'
  <1>1. CASE UNCHANGED <<user, left>>
    BY <1>1 DEF Fresh, Accounts!Holds, Accounts!Facts
  <1>2. ASSUME NEW row \in Accounts!User, Accounts!Write(row), UNCHANGED clock PROVE Fresh(f, t)'
    <2>1. left'[f] = IF Accounts!Ceases(f, row) THEN clock ELSE left[f]
      BY <1>2 DEF Accounts!Write
    <2>2. CASE Accounts!Ceases(f, row)
      <3>1. left'[f] # None
        BY <2>1, <2>2, AccConstants DEF AccRow
      <3> QED BY <2>1, <2>2, <3>1 DEF Fresh
    <2>3. CASE ~Accounts!Ceases(f, row)
      <3>1. Accounts!Holds(f, user) => Accounts!Holds(f, row)
        BY <2>3 DEF Accounts!Ceases, Accounts!Holds
      <3>2. Accounts!Holds(f, user)' <=> Accounts!Holds(f, row)
        BY <1>2 DEF Accounts!Write, Accounts!Holds
      <3> QED BY <2>1, <2>3, <3>1, <3>2 DEF Fresh
    <2> QED BY <2>2, <2>3
  <1> QED BY <1>1, <1>2 DEF Moves, RowMoves

\* That the account was not locked for longer than l at t or after it stays so
LEMMA OpenStays ==
    ASSUME AccRow, Moves, NEW l \in Nat, NEW t \in Int, t <= clock, Open(l, t)
    PROVE  Open(l, t)'
  <1>1. CASE UNCHANGED <<user, left>>
    BY <1>1 DEF Open
  <1>2. ASSUME NEW row \in Accounts!User, Accounts!Write(row), UNCHANGED clock PROVE Open(l, t)'
    <2>1. /\ left'["open"] = IF Accounts!Ceases("open", row) THEN clock ELSE left["open"]
          /\ user' = row /\ row # None
      BY <1>2, AccConstants DEF Accounts!Write, Accounts!Facts
    <2>2. CASE Accounts!Ceases("open", row)
      <3>1. left'["open"] # None
        BY <2>1, <2>2, AccConstants DEF AccRow
      <3> QED BY <2>1, <2>2, <3>1 DEF Open
    <2>3. CASE ~Accounts!Ceases("open", row)
      <3>1. user # None => row.locked <= user.locked
        BY <2>3, AccConstants DEF Accounts!Ceases, AccRow, Accounts!User, Accounts!Locks
      <3>2. user # None => user.locked \in Nat /\ row.locked \in Nat
        BY AccConstants DEF AccRow, Accounts!User, Accounts!Locks
      <3> QED BY <2>1, <2>3, <3>1, <3>2 DEF Open
    <2> QED BY <2>2, <2>3
  <1> QED BY <1>1, <1>2 DEF Moves, RowMoves

\* What was so at t or after it was so at an earlier time or after that
LEMMA Weaker ==
    ASSUME AccRow, NEW t \in Int, NEW s \in Int, s <= t
    PROVE  /\ \A f \in Accounts!Facts : Fresh(f, t) => Fresh(f, s)
           /\ \A l \in Nat : Open(l, t) => Open(l, s)
  <1>1. \A f \in Accounts!Facts : left[f] # None => left[f] \in Nat
    BY AccConstants DEF AccRow
  <1> QED BY <1>1 DEF Fresh, Open, Accounts!Facts

\* What a row names
LEMMA RowFacts ==
    ASSUME NEW row \in Accounts!User
    PROVE  /\ {row.password, row.address, "live"} \subseteq Accounts!Facts \ {"open"}
           /\ row.locked \in Nat /\ row.failed \in 0..MaxFailed /\ row.deleted \in BOOLEAN
           /\ row.password \in Passwords /\ row.address \in Addresses /\ row # None
  BY AccConstants DEF Accounts!User, Accounts!Facts, Accounts!Locks

\* What a row said of the account at t or after it stays so
LEMMA SaidStays ==
    ASSUME AccRow, Moves, NEW row \in Accounts!User, NEW t \in Int, t <= clock
    PROVE  /\ Said(row, t) => Said(row, t)'
           /\ Open(row.locked, t) => Open(row.locked, t)'
  BY RowFacts, FreshStays, OpenStays DEF Said

\* What a row said of the account at t was so at an earlier time or after that
LEMMA SaidWeaker ==
    ASSUME AccRow, NEW row \in Accounts!User, NEW t \in Int, NEW s \in Int, s <= t
    PROVE  /\ Said(row, t) => Said(row, s)
           /\ Open(row.locked, t) => Open(row.locked, s)
  BY RowFacts, Weaker DEF Said

\* The times from which a decision may be out of date are before its own
LEMMA Times ==
    /\ \A t \in Int : /\ Guessed(t) \in Int /\ Granted(t) \in Int /\ Guessed(t) <= t
                      /\ Granted(t) <= Guessed(t) /\ t - Latency \in Int /\ t - Latency <= t
                      /\ t - CacheTTL - Latency \in Int /\ t - CacheTTL - Latency <= t - CacheTTL
    /\ "live" \in Accounts!Facts \ {"open"}
  BY AccConstants DEF Guessed, Granted, Accounts!Facts

\* What a request that stays knows stays true
LEMMA LocalsStay ==
    ASSUME AccRow, Moves, NEW r \in Accounts!RequestType, Locals(r),
           r.at # None => clock' <= r.at + Latency
    PROVE  Locals(r)'
  <1>1. /\ clock \in Nat /\ clock' \in Nat /\ clock <= clock' /\ (user # None => user' # None)
    BY LeftTyped, AccConstants DEF Moves, AccRow
  <1>2. r.at # None => r.at \in Int /\ r.at <= clock
    BY AccConstants DEF Accounts!RequestType, Locals
  <1>3. r.pc \in {"fill", "guess"} => r.seen \in Accounts!User
    BY DEF Locals, RowRead
  <1>4. /\ r.at # None => r.at <= clock' /\ clock' <= r.at + Latency
        /\ r.pc \in {"fill", "guess", "session", "drop", "publish", "change", "keep", "renew"} =>
                r.at # None
        /\ r.pc \in {"change", "drop", "session"} => r.seen \in Accounts!User
        /\ r.pc \in {"guess", "change", "drop", "session"} => user' # None
    BY <1>1, <1>2 DEF Locals
  <1>5. /\ r.pc \in {"lookup", "select", "fill", "guess"} =>
                r.op \in Accounts!Logins /\ r.address \in Addresses
        /\ r.pc \in {"lookup", "select", "fill", "guess", "insert"} => r.password \in Passwords
        /\ r.pc = "insert" => r.address \in Addresses
        /\ r.pc \in {"verify", "change"} => r.op = "password" /\ r.new \in Passwords
        /\ r.pc = "edit" => r.op \in Accounts!Edits
        /\ r.pc = "session" => LogsIn(r)
    BY DEF Locals
  <1>6. r.pc = "fill" => RowRead(r)' /\ Said(r.seen, r.at)' /\ Open(r.seen.locked, r.at)'
    BY <1>1, <1>2, <1>3, SaidStays DEF Locals, RowRead
  <1>7. r.pc = "guess" => /\ RowRead(r)' /\ r.op = "login" /\ r.seen.locked <= r.at
                          /\ Said(r.seen, Guessed(r.at))' /\ Open(r.seen.locked, Guessed(r.at))'
    <2> SUFFICES ASSUME r.pc = "guess" PROVE /\ RowRead(r)' /\ r.op = "login"
                        /\ r.seen.locked <= r.at
                          /\ Said(r.seen, Guessed(r.at))' /\ Open(r.seen.locked, Guessed(r.at))'
      OBVIOUS
    <2>1. r.at \in Int /\ Guessed(r.at) \in Int /\ Guessed(r.at) <= clock
      BY <1>1, <1>2, Times DEF Locals
    <2>2. /\ RowRead(r) /\ r.op = "login" /\ r.seen.locked <= r.at
          /\ Said(r.seen, Guessed(r.at)) /\ Open(r.seen.locked, Guessed(r.at))
      BY DEF Locals
    <2> QED BY <1>1, <1>3, <2>1, <2>2, SaidStays DEF RowRead
  <1>8. r.pc \in {"session", "publish"} \/ (r.pc = "drop" /\ LogsIn(r)) =>
            Fresh("live", Granted(r.at))'
    <2> SUFFICES ASSUME r.pc \in {"session", "publish"} \/ (r.pc = "drop" /\ LogsIn(r))
                 PROVE Fresh("live", Granted(r.at))'
      OBVIOUS
    <2>1. r.at \in Int /\ Granted(r.at) \in Int /\ Granted(r.at) <= clock
      BY <1>1, <1>2, Times DEF Locals
    <2>2. Fresh("live", Granted(r.at))
      BY DEF Locals
    <2> QED BY <2>1, <2>2, Times, FreshStays
  <1>9. r.pc = "keep" \/ (r.pc = "profile" /\ r.op = "prefer") =>
            r.at # None /\ Fresh("live", r.at)'
    BY <1>1, <1>2, Times, FreshStays DEF Locals
  <1>10. r.pc = "renew" => Fresh("live", r.at - Latency)'
    <2> SUFFICES ASSUME r.pc = "renew" PROVE Fresh("live", r.at - Latency)'
      OBVIOUS
    <2>1. r.at \in Int /\ r.at - Latency \in Int /\ r.at - Latency <= clock
      BY <1>1, <1>2, Times DEF Locals
    <2>2. Fresh("live", r.at - Latency)
      BY DEF Locals
    <2> QED BY <2>1, <2>2, Times, FreshStays
  <1> QED BY <1>4, <1>5, <1>6, <1>7, <1>8, <1>9, <1>10 DEF Locals

\* A copy of the row that stays says what was so when it was read
LEMMA AuthStays ==
    ASSUME AccRow, AccAuth, Moves, NEW a \in Addresses, authCache[a] # None,
           authCache'[a] = authCache[a]
    PROVE  AuthCopy(authCache[a])'
  <1>1. PICK c \in [row : Accounts!User, expires : 0..(MaxClock + CacheTTL)] :
            c = authCache[a] /\ AuthCopy(c)
    BY DEF AccAuth
  <1>2. /\ clock \in Nat /\ clock' \in Nat /\ clock <= clock' /\ (user # None => user' # None)
    BY LeftTyped, AccConstants DEF Moves, AccRow
  <1>3. /\ c.expires \in Int /\ c.expires - CacheTTL - Latency \in Int
        /\ c.expires - CacheTTL - Latency <= clock /\ c.expires <= clock' + CacheTTL
    BY <1>1, <1>2, AccConstants DEF AuthCopy
  <1>4. /\ Said(c.row, c.expires - CacheTTL - Latency)'
        /\ Open(c.row.locked, c.expires - CacheTTL - Latency)'
    BY <1>1, <1>3, SaidStays DEF AuthCopy
  <1>5. AuthCopy(c)'
    BY <1>1, <1>2, <1>3, <1>4 DEF AuthCopy
  <1> QED BY <1>1, <1>5

\* A copy of the profile that stays is of an account that was there
LEMMA ProfileStays ==
    ASSUME AccRow, AccProfile, Moves, UNCHANGED profileCache
    PROVE  AccProfile'
  <1> SUFFICES ASSUME profileCache # None PROVE ProfileCopy(profileCache)'
    BY DEF AccProfile
  <1>1. PICK c \in [expires : 0..(MaxClock + CacheTTL)] : c = profileCache /\ ProfileCopy(c)
    BY DEF AccProfile
  <1>2. /\ clock \in Nat /\ clock' \in Nat /\ clock <= clock'
    BY LeftTyped, AccConstants DEF Moves, AccRow
  <1>3. /\ c.expires <= clock' + CacheTTL
        /\ Granted(c.expires - CacheTTL - Latency) \in Int
        /\ Granted(c.expires - CacheTTL - Latency) <= clock
    BY <1>1, <1>2, AccConstants DEF ProfileCopy, Granted, Guessed
  <1>4. Fresh("live", Granted(c.expires - CacheTTL - Latency))'
    BY <1>1, <1>3, Times, FreshStays DEF ProfileCopy
  <1>5. ProfileCopy(c)'
    BY <1>3, <1>4 DEF ProfileCopy
  <1> QED BY <1>1, <1>5
\* Copies that are dropped, or stay
LEMMA AuthKept ==
    ASSUME AccRow, AccAuth, Moves, DOMAIN authCache' = Addresses,
           authCache' = [a \in Addresses |-> authCache'[a]],
           \A a \in Addresses : authCache'[a] \in {authCache[a], None}
    PROVE  AccAuth'
  <1>1. authCache' \in [Addresses ->
            {None} \cup [row : Accounts!User, expires : 0..(MaxClock + CacheTTL)]]
    BY DEF AccAuth
  <1>2. ASSUME NEW a \in Addresses, authCache'[a] # None
        PROVE  authCache'[a].row.address = a /\ AuthCopy(authCache[a])'
    BY <1>2, AuthStays DEF AccAuth
  <1> QED BY <1>1, <1>2 DEF AccAuth

\* Copies that stay
LEMMA AuthSame ==
    ASSUME AccRow, AccAuth, Moves, UNCHANGED authCache
    PROVE  AccAuth'
  BY AuthKept DEF AccAuth

\* invalidateUserCaches keeps what is known of the copies, whatever address it is given
LEMMA AuthDropped ==
    ASSUME AccRow, AccAuth, AccProfile, Moves, NEW x, Accounts!Invalidate(x)
    PROVE  AccAuth' /\ AccProfile'
  <1>1. CASE UNCHANGED <<profileCache, authCache>>
    BY <1>1, AuthSame, ProfileStays
  <1>2. CASE profileCache' = None /\ authCache' = [authCache EXCEPT ![x] = None]
    <2>1. /\ DOMAIN authCache' = Addresses /\ authCache' = [a \in Addresses |-> authCache'[a]]
          /\ \A a \in Addresses : authCache'[a] \in {authCache[a], None}
      BY <1>2 DEF AccAuth
    <2> QED BY <1>2, <2>1, AuthKept DEF AccProfile
  <1> QED BY <1>1, <1>2 DEF Accounts!Invalidate

\* The copy of a row that was read within the latency
LEMMA AuthFilled ==
    ASSUME AccRow, AccAuth, UNCHANGED <<clock, user, left>>, NEW row \in Accounts!User,
           NEW t \in Int,
           user # None, ~row.deleted, Said(row, t), Open(row.locked, t), t <= clock,
           clock <= t + Latency,
           authCache' \in {authCache, [authCache EXCEPT ![row.address] = Accounts!Copy(row)]}
    PROVE  AccAuth'
  <1>m. Moves
    BY DEF Moves, RowMoves
  <1>1. CASE authCache' = authCache
    BY <1>m, <1>1, AuthSame
  <1>2. CASE authCache' = [authCache EXCEPT ![row.address] = Accounts!Copy(row)]
    <2>1. PICK c \in [row : Accounts!User, expires : 0..(MaxClock + CacheTTL)] :
                /\ c = Accounts!Copy(row) /\ c.row = row
                /\ c.expires = clock + CacheTTL /\ row.address \in Addresses
      BY AccConstants, RowFacts DEF Accounts!Copy, AccRow
    <2>2. /\ clock \in Int /\ c.expires - CacheTTL - Latency \in Int
          /\ c.expires - CacheTTL - Latency <= t
      BY <2>1, AccConstants DEF AccRow
    <2>3. /\ Said(row, c.expires - CacheTTL - Latency)
          /\ Open(row.locked, c.expires - CacheTTL - Latency)
      BY <2>2, SaidWeaker
    <2>4. /\ Said(row, c.expires - CacheTTL - Latency)'
          /\ Open(row.locked, c.expires - CacheTTL - Latency)'
      <3>1. c.expires - CacheTTL - Latency <= clock
        BY <2>2
      <3> QED BY <1>m, <2>2, <2>3, <3>1, SaidStays, <2>1
    <2>5. AuthCopy(c)'
      <3>1. c.expires <= clock' + CacheTTL /\ user' # None /\ ~c.row.deleted
        BY <2>1, AccConstants DEF AccRow
      <3> QED BY <2>1, <2>4, <3>1 DEF AuthCopy
    <2>6. authCache' \in [Addresses ->
            {None} \cup [row : Accounts!User, expires : 0..(MaxClock + CacheTTL)]]
      BY <1>2, <2>1 DEF AccAuth
    <2>7. ASSUME NEW a \in Addresses, authCache'[a] # None
          PROVE  authCache'[a].row.address = a /\ AuthCopy(authCache[a])'
      <3>1. CASE a = row.address
        <4>1. authCache'[a] = c
          BY <1>2, <2>1, <3>1 DEF AccAuth
        <4> QED BY <2>1, <2>5, <3>1, <4>1
      <3>2. CASE a # row.address
        <4>1. authCache'[a] = authCache[a]
          BY <1>2, <3>2 DEF AccAuth
        <4> QED BY <1>m, <2>7, <4>1, AuthStays DEF AccAuth
      <3> QED BY <3>1, <3>2
    <2> QED BY <2>6, <2>7 DEF AccAuth
  <1> QED BY <1>1, <1>2

\* What is shown of the account is cached, by a handler that knows that it was there
LEMMA ProfileFilled ==
    ASSUME AccRow, AccProfile, UNCHANGED <<clock, user, left>>, Accounts!SetProfile,
           NEW t \in Int, Fresh("live", t), Granted(clock - Latency) <= t
    PROVE  AccProfile'
  <1>m. Moves
    BY DEF Moves, RowMoves
  <1>1. CASE profileCache' = profileCache
    BY <1>m, <1>1, ProfileStays
  <1>2. CASE profileCache' = [expires |-> clock + CacheTTL]
    <2>1. clock \in 0..MaxClock /\ clock \in Int /\ clock + CacheTTL \in 0..(MaxClock + CacheTTL)
      BY AccConstants DEF AccRow
    <2>2. /\ Granted(clock - Latency) \in Int /\ Granted(clock - Latency) <= clock
          /\ Granted((clock + CacheTTL) - CacheTTL - Latency) = Granted(clock - Latency)
      BY <2>1, AccConstants DEF Granted, Guessed
    <2>3. Fresh("live", Granted(clock - Latency))
      BY <2>2, Weaker, Times
    <2>4. Fresh("live", Granted(clock - Latency))'
      BY <2>3 DEF Fresh, Accounts!Holds, Granted, Guessed
    <2>5. profileCache'.expires = clock + CacheTTL /\ clock' = clock
      BY <1>2
    <2>6. ProfileCopy(profileCache)'
      BY <2>1, <2>2, <2>4, <2>5 DEF ProfileCopy
    <2> QED BY <1>2, <2>1, <2>6 DEF AccProfile
  <1> QED BY <1>1, <1>2 DEF Accounts!SetProfile

\* One request goes on, the others stay
LEMMA RequestsGo ==
    ASSUME AccRow, AccRequests, Moves, UNCHANGED clock, NEW q \in Requests,
           NEW c \in Accounts!RequestType, req' = [req EXCEPT ![q] = c], Locals(c)'
    PROVE  AccRequests'
  <1>1. req' \in [Requests -> Accounts!RequestType]
    BY DEF AccRequests
  <1>2. ASSUME NEW u \in Requests PROVE Locals(req[u])'
    <2>1. CASE u = q
      <3>1. req'[u] = c
        BY <2>1 DEF AccRequests
      <3> QED BY <3>1
    <2>2. CASE u # q
      <3>1. PICK r \in Accounts!RequestType : r = req[u] /\ Locals(r)
        BY DEF AccRequests
      <3>2. req'[u] = r
        BY <2>2, <3>1 DEF AccRequests
      <3>3. r.at # None => clock' <= r.at + Latency
        BY <3>1 DEF Locals
      <3>4. Locals(r)'
        BY <3>1, <3>3, LocalsStay
      <3> QED BY <3>2, <3>4
    <2> QED BY <2>1, <2>2
  <1> QED BY <1>1, <1>2 DEF AccRequests

\* A request that ends knows nothing
LEMMA Ends ==
    ASSUME AccRow, AccRequests, Moves, UNCHANGED clock, NEW q \in Requests, Accounts!End(q)
    PROVE  AccRequests'
  <1>1. Accounts!Idle \in Accounts!RequestType /\ Accounts!Idle.pc = "idle"
        /\ Accounts!Idle.at = None
    BY DEF Accounts!Idle, Accounts!RequestType, Accounts!Pcs
  <1>2. Locals(Accounts!Idle)'
    BY <1>1 DEF Locals, Accounts!Idle
  <1> QED BY <1>1, <1>2, RequestsGo DEF Accounts!End, Accounts!Go
\* A request has its type, and what it knows is so
LEMMA Request ==
    ASSUME AccInv, NEW q \in Requests
    PROVE  \E r \in Accounts!RequestType : r = req[q] /\ Locals(r)
  BY DEF AccInv, AccRequests

\* A request begins
LEMMA AccStarts ==
    ASSUME AccInv, NEW q \in Requests, Accounts!Start(q)
    PROVE  AccInv'
  <1>m. Moves /\ UNCHANGED <<clock, changes, authCache, profileCache>> /\ AccRow'
    BY DEF Accounts!Start, Moves, RowMoves, AccInv, AccRow
  <1>1. ASSUME NEW c \in Accounts!RequestType, c.at = None, Accounts!Go(q, c),
               c.pc \in {"lookup", "verify", "edit", "profile", "save"},
               c.pc = "lookup" =>
                    c.op \in Accounts!Logins /\ c.address \in Addresses
                        /\ c.password \in Passwords,
               c.pc = "verify" => c.op = "password" /\ c.new \in Passwords,
               c.pc = "edit" => c.op \in Accounts!Edits,
               c.pc = "profile" => c.op = "view"
        PROVE  AccRequests'
    <2>1. Locals(c)'
      BY <1>1 DEF Locals
    <2> QED BY <1>m, <1>1, <2>1, RequestsGo DEF AccInv, Accounts!Go
  <1>2. ASSUME NEW op \in Accounts!Logins, NEW a \in Addresses, NEW p \in Passwords,
               Accounts!Begin(q, "lookup", op, a, p, None)
        PROVE  AccRequests'
    <2> DEFINE c == [pc |-> "lookup", op |-> op, address |-> a, password |-> p, new |-> None,
                     seen |-> None, at |-> None]
    <2>1. /\ c \in Accounts!RequestType /\ c.at = None /\ c.pc = "lookup" /\ c.op = op
          /\ c.address = a /\ c.password = p
      BY DEF Accounts!RequestType, Accounts!Pcs, Accounts!Logins
    <2> QED BY <1>1, <1>2, <2>1 DEF Accounts!Begin
  <1>3. ASSUME NEW p \in Passwords, NEW n \in Passwords,
               Accounts!Begin(q, "verify", "password", None, p, n)
        PROVE  AccRequests'
    <2> DEFINE c == [pc |-> "verify", op |-> "password", address |-> None, password |-> p,
                     new |-> n, seen |-> None, at |-> None]
    <2>1. /\ c \in Accounts!RequestType /\ c.at = None /\ c.pc = "verify" /\ c.op = "password"
          /\ c.new = n
      BY DEF Accounts!RequestType, Accounts!Pcs, Accounts!Logins
    <2> QED BY <1>1, <1>3, <2>1 DEF Accounts!Begin
  <1>4. ASSUME NEW op \in Accounts!Edits, Accounts!Begin(q, "edit", op, None, None, None)
        PROVE  AccRequests'
    <2> DEFINE c == [pc |-> "edit", op |-> op, address |-> None, password |-> None,
                     new |-> None, seen |-> None, at |-> None]
    <2>1. c \in Accounts!RequestType /\ c.at = None /\ c.pc = "edit" /\ c.op = op
      BY DEF Accounts!RequestType, Accounts!Pcs, Accounts!Edits
    <2> QED BY <1>1, <1>4, <2>1 DEF Accounts!Begin
  <1>5. ASSUME NEW op \in Accounts!Views,
               Accounts!Begin(q, IF op = "view" THEN "profile" ELSE "save", op, None, None, None)
        PROVE  AccRequests'
    <2> DEFINE c == [pc |-> IF op = "view" THEN "profile" ELSE "save", op |-> op,
                     address |-> None, password |-> None, new |-> None, seen |-> None,
                     at |-> None]
    <2>1. /\ c \in Accounts!RequestType /\ c.at = None /\ c.op = op
          /\ c.pc \in {"profile", "save"} /\ (c.pc = "profile" => op = "view")
      BY DEF Accounts!RequestType, Accounts!Pcs, Accounts!Views
    <2> QED BY <1>1, <1>5, <2>1 DEF Accounts!Begin
  <1>6. AccRequests'
    BY <1>2, <1>3, <1>4, <1>5 DEF Accounts!Start
  <1> QED BY <1>m, <1>6, AuthSame, ProfileStays DEF AccInv

\* A login goes on by a row, or is refused; a registration goes on without one
LEMMA Decides ==
    ASSUME AccInv, NEW q \in Requests, UNCHANGED <<clock, user, left>>,
           req[q].pc \in {"lookup", "select", "fill"},
           \/ Accounts!Decided(q, None)
           \/ \E row \in Accounts!User :
                /\ Accounts!Decided(q, row)
                /\ row.address = req[q].address /\ ~row.deleted /\ user # None
                /\ Said(row, Guessed(clock)) /\ Open(row.locked, Guessed(clock))
    PROVE  AccRequests'
  <1>m. Moves
    BY DEF Moves, RowMoves
  <1>1. PICK r \in Accounts!RequestType : r = req[q] /\ Locals(r)
    BY Request
  <1>2. CASE Accounts!End(q)
    BY <1>m, <1>2, Ends DEF AccInv
  <1>3. CASE Accounts!To(q, "insert")
    <2> DEFINE c == [r EXCEPT !.pc = "insert"]
    <2>1. /\ c \in Accounts!RequestType /\ c.pc = "insert" /\ c.at = r.at
          /\ c.password = r.password /\ c.address = r.address
      BY DEF Accounts!RequestType, Accounts!Pcs
    <2>2. c.password \in Passwords /\ c.address \in Addresses
      BY <1>1, <2>1 DEF Locals
    <2>3. req' = [req EXCEPT ![q] = c]
      BY <1>1, <1>3 DEF Accounts!To, Accounts!Go
    <2>4. c.at # None => c.at <= clock' /\ clock' <= c.at + Latency
      BY <1>1, <2>1 DEF Locals
    <2> HIDE DEF c
    <2>5. Locals(c)'
      BY <2>1, <2>2, <2>4 DEF Locals
    <2> QED BY <1>m, <2>1, <2>3, <2>5, RequestsGo DEF AccInv
  <1>4. ASSUME NEW row \in Accounts!User, Accounts!Decided(q, row), ~Accounts!End(q),
               row.address = req[q].address, ~row.deleted, user # None,
               Said(row, Guessed(clock)), Open(row.locked, Guessed(clock))
        PROVE  AccRequests'
    <2>0. PICK now \in 0..MaxClock : now = clock
      BY DEF AccInv, AccRow
    <2> DEFINE c == [r EXCEPT !.pc = "guess", !.seen = row, !.at = now]
    <2>1. /\ c \in Accounts!RequestType /\ c.pc = "guess" /\ c.seen = row /\ c.at = now
          /\ c.op = r.op /\ c.address = r.address /\ c.password = r.password
      BY DEF Accounts!RequestType, Accounts!Pcs
    <2>2. req' = [req EXCEPT ![q] = c] /\ row.locked <= now /\ r.op # "create"
      <3>1. row # None /\ row.locked \in Nat
        BY RowFacts
      <3>2. Accounts!Saw(q, "guess", row) /\ ~(row.locked > clock) /\ r.op # "create"
        BY <1>1, <1>4, <3>1 DEF Accounts!Decided
      <3> QED BY <1>1, <2>0, <3>1, <3>2 DEF Accounts!Saw, Accounts!Go
    <2>3. r.op = "login" /\ r.address \in Addresses /\ r.password \in Passwords
      BY <1>1, <2>2 DEF Locals, Accounts!Logins
    <2>4. /\ now \in Int /\ Guessed(now) \in Int /\ Guessed(now) <= now /\ now <= clock
      BY <2>0, Times
    <2>5. Said(row, Guessed(now))' /\ Open(row.locked, Guessed(now))'
      BY <1>m, <1>4, <2>0, <2>4, SaidStays DEF AccInv
    <2>6. /\ c.at # None /\ c.at <= clock' /\ clock' <= c.at + Latency /\ row.locked <= c.at
      BY <2>0, <2>1, <2>2, AccConstants
    <2> HIDE DEF c
    <2>7. RowRead(c)'
      BY <1>1, <1>4, <2>1 DEF RowRead
    <2>8. Locals(c)'
      BY <1>4, <2>1, <2>3, <2>5, <2>6, <2>7 DEF Locals, Accounts!Logins
    <2> QED BY <1>m, <2>1, <2>2, <2>8, RequestsGo DEF AccInv
  <1> QED BY <1>2, <1>3, <1>4 DEF Accounts!Decided

\* A request that goes on without an answer keeps what it knows, where it is asked for less
LEMMA GoesOn ==
    ASSUME AccInv, NEW q \in Requests, UNCHANGED <<clock, user, left>>,
           \/ req[q].pc = "lookup" /\ Accounts!To(q, "select")
           \/ req[q].pc = "session" /\ Accounts!To(q, "drop")
           \/ req[q].pc = "drop" /\ LogsIn(req[q]) /\ Accounts!To(q, "publish")
           \/ req[q].pc = "change" /\ Accounts!To(q, "drop")
           \/ req[q].pc = "profile" /\ Accounts!To(q, "read")
    PROVE  AccRequests'
  <1>m. Moves
    BY DEF Moves, RowMoves
  <1>1. PICK r \in Accounts!RequestType : r = req[q] /\ Locals(r)
    BY Request
  <1>2. PICK pc \in {"select", "drop", "publish", "read"} :
            /\ req' = [req EXCEPT ![q] = [r EXCEPT !.pc = pc]]
            /\ \/ r.pc = "lookup" /\ pc = "select"
               \/ r.pc = "session" /\ pc = "drop"
               \/ r.pc = "drop" /\ LogsIn(r) /\ pc = "publish"
               \/ r.pc = "change" /\ r.op = "password" /\ pc = "drop"
               \/ r.pc = "profile" /\ pc = "read"
    BY <1>1 DEF Accounts!To, Accounts!Go, Locals
  <1> DEFINE c == [r EXCEPT !.pc = pc]
  <1>3. /\ c \in Accounts!RequestType /\ c.pc = pc /\ c.at = r.at /\ c.seen = r.seen
        /\ c.op = r.op /\ c.address = r.address /\ c.password = r.password
    BY DEF Accounts!RequestType, Accounts!Pcs
  <1>4. r.at # None => clock' <= r.at + Latency
    BY <1>1 DEF Locals
  <1>5. Locals(r)'
    BY <1>m, <1>1, <1>4, LocalsStay DEF AccInv
  <1>6. req' = [req EXCEPT ![q] = c]
    BY <1>2
  <1> HIDE DEF c
  <1>7. Locals(c)'
    BY <1>2, <1>3, <1>5 DEF Locals, LogsIn
  <1> QED BY <1>m, <1>3, <1>6, <1>7, RequestsGo DEF AccInv

\* A login that finds a copy goes by what was so when that was read
LEMMA AccLooksUp ==
    ASSUME AccInv, NEW q \in Requests, Accounts!Lookup(q)
    PROVE  AccInv'
  <1>m. Moves /\ UNCHANGED <<clock, user, left, changes, authCache, profileCache>> /\ AccRow'
    BY DEF Accounts!Lookup, Moves, RowMoves, AccInv, AccRow
  <1>1. PICK r \in Accounts!RequestType : r = req[q] /\ Locals(r)
    BY Request
  <1>2. r.pc = "lookup" /\ r.address \in Addresses
    BY <1>1 DEF Accounts!Lookup, Locals
  <1>3. ASSUME Accounts!To(q, "select") PROVE AccRequests'
    BY <1>1, <1>2, <1>3, <1>m, GoesOn
  <1>4. ASSUME Accounts!Live(authCache[r.address]),
               Accounts!Decided(q, authCache[r.address].row)
        PROVE  AccRequests'
    <2>1. PICK c \in [row : Accounts!User, expires : 0..(MaxClock + CacheTTL)] :
                c = authCache[r.address] /\ c.row.address = r.address /\ AuthCopy(c)
      BY <1>2, <1>4 DEF Accounts!Live, AccInv, AccAuth
    <2>2. /\ c.row \in Accounts!User /\ clock < c.expires /\ clock \in Int
          /\ c.expires - CacheTTL - Latency \in Int /\ Guessed(clock) \in Int
          /\ Guessed(clock) <= c.expires - CacheTTL - Latency
      BY <1>4, <2>1, AccConstants DEF Accounts!Live, Guessed, AccInv, AccRow
    <2>3. /\ ~c.row.deleted /\ user # None
          /\ Said(c.row, Guessed(clock)) /\ Open(c.row.locked, Guessed(clock))
      BY <2>1, <2>2, SaidWeaker DEF AuthCopy, AccInv
    <2> QED BY <1>1, <1>2, <1>4, <1>m, <2>1, <2>2, <2>3, Decides
  <1>5. AccRequests'
    BY <1>1, <1>3, <1>4 DEF Accounts!Lookup
  <1> QED BY <1>m, <1>5, AuthSame, ProfileStays DEF AccInv
\* A statement leaves a row
LEMMA RowGoes ==
    ASSUME AccRow, RowMoves, UNCHANGED clock, changes' \in 0..MaxChanges
    PROVE  AccRow' /\ Moves
  BY LeftTyped DEF AccRow, Moves

\* A step that leaves the copies as they are
LEMMA CachesStay ==
    ASSUME AccInv, Moves, AccRow', AccRequests', UNCHANGED <<authCache, profileCache>>
    PROVE  AccInv'
  BY AuthSame, ProfileStays DEF AccInv

\* What the row says now
LEMMA SaidNow ==
    ASSUME AccRow, NEW row \in Accounts!User, row = user, NEW t \in Int
    PROVE  /\ Open(row.locked, t)
           /\ ~row.deleted => Said(row, t) /\ Fresh("live", t)
  <1>1. row # None /\ row.locked \in Nat
    BY RowFacts
  <1> QED BY <1>1 DEF Open, Said, Fresh, Accounts!Holds

\* The request q, which was at r, goes on to pc as c, after a statement executed now
Ran(q, pc, r, c, now) ==
    /\ r = req[q] /\ Locals(r) /\ now = clock /\ now \in Int
    /\ req' = [req EXCEPT ![q] = c]
    /\ c.at = now /\ c.pc = pc /\ c.op = r.op /\ c.address = r.address
    /\ c.password = r.password /\ c.new = r.new
    /\ c.at # None /\ c.at <= clock' /\ clock' <= c.at + Latency
    /\ Granted(now) \in Int /\ Granted(now) <= now

\* A time at which a statement is executed
LEMMA RanNow ==
    ASSUME AccRow, UNCHANGED clock
    PROVE  \E now \in 0..MaxClock :
                /\ now = clock /\ now \in Int /\ now # None /\ now <= clock'
                /\ clock' <= now + Latency /\ Granted(now) \in Int /\ Granted(now) <= now
  <1>1. PICK now \in 0..MaxClock : now = clock
    BY DEF AccRow
  <1> QED BY <1>1, AccConstants, Times DEF Granted, Guessed

\* A request goes on after a statement
LEMMA DidNow ==
    ASSUME AccInv, NEW q \in Requests, UNCHANGED clock, NEW pc \in Accounts!Pcs,
           Accounts!Did(q, pc)
    PROVE  \E r \in Accounts!RequestType, c \in Accounts!RequestType, now \in 0..MaxClock :
                Ran(q, pc, r, c, now) /\ c.seen = r.seen
  <1>1. PICK r \in Accounts!RequestType : r = req[q] /\ Locals(r)
    BY Request
  <1>2. PICK now \in 0..MaxClock :
            /\ now = clock /\ now \in Int /\ now # None /\ now <= clock'
            /\ clock' <= now + Latency /\ Granted(now) \in Int /\ Granted(now) <= now
    BY RanNow DEF AccInv
  <1> DEFINE c == [r EXCEPT !.pc = pc, !.at = now]
  <1>3. /\ c \in Accounts!RequestType /\ c.at = now /\ c.pc = pc /\ c.op = r.op
        /\ c.address = r.address /\ c.password = r.password /\ c.new = r.new /\ c.seen = r.seen
    BY DEF Accounts!RequestType
  <1>4. req' = [req EXCEPT ![q] = c]
    BY <1>1, <1>2 DEF Accounts!Did, Accounts!Go
  <1> HIDE DEF c
  <1> QED BY <1>1, <1>2, <1>3, <1>4 DEF Ran

\* A request goes on with the row that a statement has given
LEMMA SawNow ==
    ASSUME AccInv, NEW q \in Requests, UNCHANGED clock, NEW pc \in Accounts!Pcs,
           NEW row \in Accounts!User, Accounts!Saw(q, pc, row)
    PROVE  \E r \in Accounts!RequestType, c \in Accounts!RequestType, now \in 0..MaxClock :
                Ran(q, pc, r, c, now) /\ c.seen = row
  <1>1. PICK r \in Accounts!RequestType : r = req[q] /\ Locals(r)
    BY Request
  <1>2. PICK now \in 0..MaxClock :
            /\ now = clock /\ now \in Int /\ now # None /\ now <= clock'
            /\ clock' <= now + Latency /\ Granted(now) \in Int /\ Granted(now) <= now
    BY RanNow DEF AccInv
  <1> DEFINE c == [r EXCEPT !.pc = pc, !.seen = row, !.at = now]
  <1>3. /\ c \in Accounts!RequestType /\ c.at = now /\ c.pc = pc /\ c.op = r.op
        /\ c.address = r.address /\ c.password = r.password /\ c.new = r.new /\ c.seen = row
    BY DEF Accounts!RequestType
  <1>4. req' = [req EXCEPT ![q] = c]
    BY <1>1, <1>2 DEF Accounts!Saw, Accounts!Go
  <1> HIDE DEF c
  <1> QED BY <1>1, <1>2, <1>3, <1>4 DEF Ran

\* A login that reads the row
LEMMA AccSelects ==
    ASSUME AccInv, NEW q \in Requests, Accounts!Select(q)
    PROVE  AccInv'
  <1>m. /\ UNCHANGED <<clock, user, left, changes, authCache, profileCache>>
        /\ Moves /\ AccRow' /\ req[q].pc = "select"
    BY DEF Accounts!Select, Moves, RowMoves, AccInv, AccRow
  <1>1. ASSUME Accounts!Found(req[q].address), Accounts!Saw(q, "fill", user)
        PROVE  AccRequests'
    <2>1. PICK row \in Accounts!User : row = user /\ row # None
      BY <1>1, RowFacts DEF Accounts!Found, Accounts!Shown, AccInv, AccRow
    <2>2. "fill" \in Accounts!Pcs /\ Accounts!Saw(q, "fill", row)
      BY <1>1, <2>1 DEF Accounts!Pcs
    <2>3. PICK r \in Accounts!RequestType, c \in Accounts!RequestType, now \in 0..MaxClock :
                Ran(q, "fill", r, c, now) /\ c.seen = row
      BY <1>m, <2>2, SawNow
    <2>4. ~row.deleted /\ row.address = r.address
      BY <1>1, <2>1, <2>3 DEF Ran, Accounts!Found, Accounts!Shown
    <2>5. Said(row, now)' /\ Open(row.locked, now)'
      BY <1>m, <2>1, <2>3, <2>4, SaidNow, SaidStays DEF Ran, AccInv
    <2>6. /\ c.op \in Accounts!Logins /\ c.address \in Addresses /\ c.password \in Passwords
      BY <1>m, <2>3 DEF Ran, Locals
    <2>7. RowRead(c)'
      BY <1>m, <2>1, <2>3, <2>4 DEF Ran, RowRead
    <2>8. Locals(c)'
      BY <2>3, <2>5, <2>6, <2>7 DEF Ran, Locals
    <2> QED BY <1>m, <2>3, <2>8, RequestsGo DEF Ran, AccInv
  <1>2. AccRequests'
    BY <1>m, <1>1, Decides DEF Accounts!Select
  <1> QED BY <1>m, <1>2, CachesStay

\* A login that caches the row that it has read
LEMMA AccFills ==
    ASSUME AccInv, NEW q \in Requests, Accounts!Fill(q)
    PROVE  AccInv'
  <1>m. UNCHANGED <<clock, user, left, changes>> /\ Moves /\ AccRow' /\ req[q].pc = "fill"
    BY DEF Accounts!Fill, Moves, RowMoves, AccInv, AccRow
  <1>1. PICK r \in Accounts!RequestType : r = req[q] /\ Locals(r)
    BY Request
  <1>2. PICK row \in Accounts!User : row = r.seen
    BY <1>m, <1>1 DEF Locals, RowRead
  <1>3. PICK t \in 0..MaxClock : t = r.at
    BY <1>m, <1>1 DEF Locals, Accounts!RequestType
  <1>4. /\ row.address = r.address /\ ~row.deleted /\ user # None /\ t \in Int
        /\ Said(row, t) /\ Open(row.locked, t) /\ t <= clock /\ clock <= t + Latency
    BY <1>m, <1>1, <1>2, <1>3, AccConstants DEF Locals, RowRead
  <1>5. /\ clock \in Int /\ Guessed(clock) \in Int /\ Guessed(clock) <= t
        /\ Granted(clock - Latency) <= t
    BY <1>4, AccConstants DEF Guessed, Granted, AccInv, AccRow
  <1>6. Said(row, Guessed(clock)) /\ Open(row.locked, Guessed(clock))
    BY <1>4, <1>5, SaidWeaker DEF AccInv
  <1>7. AccRequests'
    BY <1>m, <1>1, <1>2, <1>4, <1>6, Decides DEF Accounts!Fill
  <1>8. AccAuth'
    BY <1>m, <1>1, <1>2, <1>4, AuthFilled DEF Accounts!Fill, Accounts!CacheUser, AccInv
  <1>9. AccProfile'
    <2>1. Fresh("live", t)
      BY <1>4 DEF Said
    <2> QED BY <1>m, <1>4, <1>5, <2>1, ProfileFilled DEF Accounts!Fill, Accounts!CacheUser, AccInv
  <1> QED BY <1>m, <1>7, <1>8, <1>9 DEF AccInv
\* A statement writes a row
LEMMA Written ==
    ASSUME AccInv, NEW row \in Accounts!User, Accounts!Write(row), UNCHANGED clock,
           changes' \in 0..MaxChanges
    PROVE  AccRow' /\ Moves /\ user' = row /\ user' # None
  <1>1. RowMoves /\ user' = row
    BY DEF RowMoves, Accounts!Write
  <1> QED BY <1>1, RowGoes, RowFacts DEF AccInv

\* A wrong password counts, and locks the account with the last one
LEMMA AccMisses ==
    ASSUME AccInv, NEW q \in Requests, Accounts!Miss(q)
    PROVE  AccInv'
  <1>1. PICK r \in Accounts!RequestType : r = req[q] /\ Locals(r)
    BY Request
  <1>2. /\ user # None /\ r.seen \in Accounts!User /\ r.password # r.seen.password
    BY <1>1 DEF Accounts!Miss, Locals, RowRead
  <1>3. PICK u \in Accounts!User : u = user /\ u.failed \in 0..MaxFailed
    BY <1>2, RowFacts DEF AccInv, AccRow
  <1> DEFINE n == IF u.failed < MaxFailed THEN u.failed + 1 ELSE u.failed
             l == IF u.failed + 1 >= MaxFailed THEN clock + LockWindow ELSE u.locked
             row == [u EXCEPT !.failed = n, !.locked = l]
  <1>4. n \in 0..MaxFailed
    BY <1>3, AccConstants
  <1>5. l \in Accounts!Locks
    <2>1. clock + LockWindow \in Accounts!Locks
      BY AccConstants DEF AccInv, AccRow, Accounts!Locks
    <2>2. u.locked \in Accounts!Locks
      BY DEF Accounts!User
    <2> QED BY <2>1, <2>2
  <1>6. row \in Accounts!User
    BY <1>4, <1>5 DEF Accounts!User
  <1>7. Accounts!Write(row)
    BY <1>3 DEF Accounts!Miss
  <1> HIDE DEF row
  <1>8. UNCHANGED <<clock, authCache, profileCache, changes>> /\ Accounts!Did(q, "drop")
    BY DEF Accounts!Miss
  <1>9. AccRow' /\ Moves /\ user' # None
    <2>1. changes' \in 0..MaxChanges
      BY <1>8 DEF AccInv, AccRow
    <2> QED BY <1>6, <1>7, <1>8, <2>1, Written
  <1>10. PICK r0 \in Accounts!RequestType, c \in Accounts!RequestType, now \in 0..MaxClock :
            Ran(q, "drop", r0, c, now) /\ c.seen = r0.seen
    BY <1>8, DidNow DEF Accounts!Pcs
  <1>11. c.seen \in Accounts!User /\ ~LogsIn(c)
    BY <1>1, <1>2, <1>10 DEF Ran, LogsIn
  <1>12. Locals(c)'
    BY <1>9, <1>10, <1>11 DEF Ran, Locals, LogsIn
  <1>13. AccRequests'
    BY <1>8, <1>9, <1>10, <1>12, RequestsGo DEF Ran, AccInv
  <1> QED BY <1>8, <1>9, <1>13, CachesStay

\* A right one unlocks the account
LEMMA AccGrants ==
    ASSUME AccInv, NEW q \in Requests, Accounts!Grant(q)
    PROVE  AccInv'
  <1>1. PICK r \in Accounts!RequestType : r = req[q] /\ Locals(r)
    BY Request
  <1>2. /\ user # None /\ r.seen \in Accounts!User /\ r.password = r.seen.password
        /\ r.op = "login" /\ r.at # None /\ r.at <= clock /\ clock <= r.at + Latency
        /\ Said(r.seen, Guessed(r.at))
    BY <1>1 DEF Accounts!Grant, Locals, RowRead
  <1>3. PICK u \in Accounts!User : u = user
    BY <1>2 DEF AccInv, AccRow
  <1> DEFINE row == [u EXCEPT !.failed = 0, !.locked = 0]
  <1>4. row \in Accounts!User
    <2>1. 0 \in 0..MaxFailed /\ 0 \in Accounts!Locks
      BY AccConstants DEF Accounts!Locks
    <2> QED BY <2>1 DEF Accounts!User
  <1>5. Accounts!Write(row)
    BY <1>3 DEF Accounts!Grant
  <1> HIDE DEF row
  <1>6. UNCHANGED <<clock, authCache, profileCache, changes>> /\ Accounts!Did(q, "session")
    BY DEF Accounts!Grant
  <1>7. AccRow' /\ Moves /\ user' # None
    <2>1. changes' \in 0..MaxChanges
      BY <1>6 DEF AccInv, AccRow
    <2> QED BY <1>4, <1>5, <1>6, <2>1, Written
  <1>8. PICK r0 \in Accounts!RequestType, c \in Accounts!RequestType, now \in 0..MaxClock :
            Ran(q, "session", r0, c, now) /\ c.seen = r0.seen
    BY <1>6, DidNow DEF Accounts!Pcs
  <1>9. c.seen \in Accounts!User /\ LogsIn(c)
    BY <1>1, <1>2, <1>8 DEF Ran, LogsIn
  <1>10. Fresh("live", Granted(now))'
    <2>1. /\ r.at \in Int /\ Guessed(r.at) \in Int /\ Granted(now) \in Int
          /\ Granted(now) <= Guessed(r.at) /\ Granted(now) <= clock
      <3>1. r.at \in Nat /\ now = clock /\ now \in Nat
        BY <1>2, <1>8 DEF Accounts!RequestType, Ran
      <3> QED BY <1>2, <3>1, AccConstants DEF Guessed, Granted
    <2>2. Fresh("live", Guessed(r.at))
      BY <1>2 DEF Said
    <2>3. Fresh("live", Granted(now))
      BY <2>1, <2>2, Weaker, Times DEF AccInv
    <2> QED BY <1>7, <2>1, <2>3, FreshStays, Times DEF AccInv
  <1>11. Locals(c)'
    BY <1>7, <1>8, <1>9, <1>10 DEF Ran, Locals, LogsIn
  <1>12. AccRequests'
    BY <1>6, <1>7, <1>8, <1>11, RequestsGo DEF Ran, AccInv
  <1> QED BY <1>6, <1>7, <1>12, CachesStay

\* A row that is there now
LEMMA LiveNow ==
    ASSUME NEW row \in Accounts!User, user' = row, ~row.deleted, NEW t
    PROVE  Fresh("live", t)'
  BY RowFacts DEF Fresh, Accounts!Holds

\* A registration
LEMMA AccInserts ==
    ASSUME AccInv, NEW q \in Requests, Accounts!Insert(q)
    PROVE  AccInv'
  <1>1. PICK r \in Accounts!RequestType : r = req[q] /\ Locals(r)
    BY Request
  <1>2. r.password \in Passwords /\ r.address \in Addresses
    BY <1>1 DEF Accounts!Insert, Locals
  <1>3. UNCHANGED <<clock, authCache, profileCache, changes>> /\ changes' \in 0..MaxChanges
    BY DEF Accounts!Insert, AccInv, AccRow
  <1>4. ASSUME Accounts!End(q), UNCHANGED <<user, left>> PROVE AccInv'
    <2>1. AccRow' /\ Moves
      BY <1>3, <1>4, RowGoes DEF RowMoves, AccInv
    <2> QED BY <1>3, <2>1, <1>4, Ends, CachesStay DEF AccInv
  <1> DEFINE row == [password |-> r.password, address |-> r.address, failed |-> 0, locked |-> 0,
                     deleted |-> FALSE]
  <1>5. ASSUME Accounts!Write(row), Accounts!Did(q, "publish") PROVE AccInv'
    <2>1. row \in Accounts!User /\ ~row.deleted
      BY <1>2, AccConstants DEF Accounts!User, Accounts!Locks
    <2> HIDE DEF row
    <2>2. AccRow' /\ Moves /\ user' = row
      BY <1>3, <1>5, <2>1, Written
    <2>3. PICK r0 \in Accounts!RequestType, c \in Accounts!RequestType, now \in 0..MaxClock :
              Ran(q, "publish", r0, c, now)
      BY <1>3, <1>5, DidNow DEF Accounts!Pcs
    <2>4. Fresh("live", Granted(now))'
      BY <2>1, <2>2, LiveNow
    <2>5. Locals(c)'
      BY <2>3, <2>4 DEF Ran, Locals
    <2>6. AccRequests'
      BY <1>3, <2>2, <2>3, <2>5, RequestsGo DEF Ran, AccInv
    <2> QED BY <1>3, <2>2, <2>6, CachesStay
  <1> QED BY <1>1, <1>4, <1>5 DEF Accounts!Insert

\* The steps after a login's statement, a change or a registration that change nothing of it
LEMMA AccCaches ==
    ASSUME AccInv, NEW q \in Requests,
           \/ Accounts!Session(q) \/ Accounts!Drop(q) \/ Accounts!Publish(q)
           \/ Accounts!Renew(q) \/ Accounts!Fail(q)
    PROVE  AccInv'
  <1>m. UNCHANGED <<clock, user, left, changes>> /\ Moves /\ AccRow'
    BY DEF Accounts!Session, Accounts!Drop, Accounts!Publish, Accounts!Renew, Accounts!Fail,
       Moves,
           RowMoves, AccInv, AccRow
  <1>1. PICK r \in Accounts!RequestType : r = req[q] /\ Locals(r)
    BY Request
  <1>2. ASSUME Accounts!Session(q) PROVE AccInv'
    BY <1>m, <1>2, GoesOn, CachesStay DEF Accounts!Session
  <1>3. ASSUME Accounts!Drop(q) PROVE AccInv'
    <2>1. AccAuth' /\ AccProfile'
      BY <1>m, <1>3, AuthDropped DEF Accounts!Drop, AccInv
    <2>2. AccRequests'
      BY <1>m, <1>3, GoesOn, Ends DEF Accounts!Drop, LogsIn, AccInv
    <2> QED BY <1>m, <2>1, <2>2 DEF AccInv
  <1>4. ASSUME Accounts!Publish(q) \/ Accounts!Renew(q) PROVE AccInv'
    <2>1. PICK t \in 0..MaxClock : t = r.at /\ t <= clock /\ clock <= t + Latency
      BY <1>1, <1>4 DEF Accounts!Publish, Accounts!Renew, Locals, Accounts!RequestType
    <2>2. clock \in Int /\ t \in Int
      BY <2>1, AccConstants DEF AccInv, AccRow
    <2>3. \E s \in Int : Fresh("live", s) /\ Granted(clock - Latency) <= s
      <3>1. CASE Accounts!Publish(q)
        <4>1. Fresh("live", Granted(t))
          BY <1>1, <2>1, <3>1 DEF Accounts!Publish, Locals
        <4>2. Granted(t) \in Int /\ Granted(clock - Latency) <= Granted(t)
          BY <2>1, <2>2, AccConstants DEF Granted, Guessed
        <4> QED BY <4>1, <4>2
      <3>2. CASE Accounts!Renew(q)
        <4>1. Fresh("live", t - Latency)
          BY <1>1, <2>1, <3>2 DEF Accounts!Renew, Locals
        <4>2. t - Latency \in Int /\ Granted(clock - Latency) <= t - Latency
          BY <2>1, <2>2, AccConstants DEF Granted, Guessed
        <4> QED BY <4>1, <4>2
      <3> QED BY <1>4, <3>1, <3>2
    <2>4. /\ Accounts!SetProfile /\ Accounts!End(q) /\ UNCHANGED authCache
      BY <1>4 DEF Accounts!Publish, Accounts!Renew
    <2>5. AccProfile'
      BY <1>m, <2>3, <2>4, ProfileFilled DEF AccInv
    <2>6. AccRequests' /\ AccAuth'
      BY <1>m, <2>4, Ends, AuthSame DEF AccInv
    <2> QED BY <1>m, <2>5, <2>6 DEF AccInv
  <1>5. ASSUME Accounts!Fail(q) PROVE AccInv'
    BY <1>m, <1>5, Ends, CachesStay DEF Accounts!Fail, AccInv
  <1> QED BY <1>2, <1>3, <1>4, <1>5
\* change-password compares the password that it has read with the one given
LEMMA AccVerifies ==
    ASSUME AccInv, NEW q \in Requests, Accounts!Verify(q)
    PROVE  AccInv'
  <1>m. /\ UNCHANGED <<clock, user, left, changes, authCache, profileCache>>
        /\ Moves /\ AccRow' /\ req[q].pc = "verify"
    BY DEF Accounts!Verify, Moves, RowMoves, AccInv, AccRow
  <1>1. ASSUME Accounts!Shown, Accounts!Saw(q, "change", user)
        PROVE  AccRequests'
    <2>1. PICK row \in Accounts!User : row = user /\ row # None
      BY <1>1, RowFacts DEF Accounts!Shown, AccInv, AccRow
    <2>2. "change" \in Accounts!Pcs /\ Accounts!Saw(q, "change", row)
      BY <1>1, <2>1 DEF Accounts!Pcs
    <2>3. PICK r \in Accounts!RequestType, c \in Accounts!RequestType, now \in 0..MaxClock :
                Ran(q, "change", r, c, now) /\ c.seen = row
      BY <1>m, <2>2, SawNow
    <2>4. c.op = "password" /\ c.new \in Passwords /\ user' # None
      BY <1>m, <2>1, <2>3 DEF Ran, Locals
    <2>5. Locals(c)'
      BY <2>3, <2>4 DEF Ran, Locals
    <2> QED BY <1>m, <2>3, <2>5, RequestsGo DEF Ran, AccInv
  <1>2. ASSUME Accounts!End(q) PROVE AccRequests'
    BY <1>m, <1>2, Ends DEF AccInv
  <1>3. AccRequests'
    BY <1>1, <1>2 DEF Accounts!Verify
  <1> QED BY <1>m, <1>3, CachesStay

\* and changes it
LEMMA AccChanges ==
    ASSUME AccInv, NEW q \in Requests, Accounts!ChangePassword(q)
    PROVE  AccInv'
  <1>1. PICK r \in Accounts!RequestType : r = req[q] /\ Locals(r)
    BY Request
  <1>2. /\ r.pc = "change" /\ user # None /\ r.seen \in Accounts!User /\ r.op = "password"
        /\ r.new \in Passwords /\ r.at # None
    BY <1>1 DEF Accounts!ChangePassword, Locals
  <1>3. PICK u \in Accounts!User : u = user
    BY <1>2 DEF AccInv, AccRow
  <1> DEFINE row == [u EXCEPT !.password = r.new]
  <1>4. row \in Accounts!User
    BY <1>2 DEF Accounts!User
  <1>5. Accounts!Write(row)
    BY <1>1, <1>3 DEF Accounts!ChangePassword
  <1> HIDE DEF row
  <1>6. /\ UNCHANGED <<clock, authCache, profileCache>> /\ changes' \in 0..MaxChanges
        /\ Accounts!To(q, "drop")
    BY AccConstants DEF Accounts!ChangePassword, Accounts!Changes, AccInv, AccRow
  <1>7. AccRow' /\ Moves /\ user' # None
    BY <1>4, <1>5, <1>6, Written
  <1> DEFINE c == [r EXCEPT !.pc = "drop"]
  <1>8. /\ c \in Accounts!RequestType /\ c.pc = "drop" /\ c.at = r.at /\ c.seen = r.seen
        /\ c.op = r.op
    BY DEF Accounts!RequestType, Accounts!Pcs
  <1>9. req' = [req EXCEPT ![q] = c]
    BY <1>1, <1>6 DEF Accounts!To, Accounts!Go
  <1> HIDE DEF c
  <1>10. c.at # None => c.at <= clock' /\ clock' <= c.at + Latency
    BY <1>1, <1>6, <1>8 DEF Locals
  <1>11. Locals(c)'
    BY <1>2, <1>7, <1>8, <1>10 DEF Locals, LogsIn
  <1>12. AccRequests'
    BY <1>6, <1>7, <1>8, <1>9, <1>11, RequestsGo DEF AccInv
  <1> QED BY <1>6, <1>7, <1>12, CachesStay

\* What an administrator's change leaves is a row
LEMMA EditedTyped ==
    ASSUME AccRow, user # None, NEW op \in Accounts!Edits, NEW row \in Accounts!Edited(op)
    PROVE  row \in Accounts!User
  <1>1. PICK u \in Accounts!User : u = user
    BY DEF AccRow
  <1>2. clock + LockWindow \in Accounts!Locks /\ 0 \in Accounts!Locks
    BY AccConstants DEF AccRow, Accounts!Locks
  <1>3. CASE op = "move"
    BY <1>1, <1>3 DEF Accounts!Edited, Accounts!User
  <1>4. CASE op = "lock"
    BY <1>1, <1>2, <1>4 DEF Accounts!Edited, Accounts!User
  <1>5. CASE op = "unlock"
    BY <1>1, <1>2, <1>5 DEF Accounts!Edited, Accounts!User
  <1>6. CASE op = "delete"
    BY <1>1, <1>6 DEF Accounts!Edited, Accounts!User
  <1>7. CASE op = "restore"
    BY <1>1, <1>7 DEF Accounts!Edited, Accounts!User
  <1> QED BY <1>3, <1>4, <1>5, <1>6, <1>7 DEF Accounts!Edits

\* An administrator's change
LEMMA AccEdits ==
    ASSUME AccInv, NEW q \in Requests, Accounts!Edit(q)
    PROVE  AccInv'
  <1>1. PICK r \in Accounts!RequestType : r = req[q] /\ Locals(r)
    BY Request
  <1>2. r.pc = "edit" /\ r.op \in Accounts!Edits
    BY <1>1 DEF Accounts!Edit, Locals
  <1>3. UNCHANGED <<clock, authCache, profileCache>>
    BY DEF Accounts!Edit
  <1>4. ASSUME Accounts!End(q), UNCHANGED <<user, left, changes>> PROVE AccInv'
    <2>1. AccRow' /\ Moves
      BY <1>3, <1>4, RowGoes DEF RowMoves, AccInv, AccRow
    <2> QED BY <1>3, <2>1, <1>4, Ends, CachesStay DEF AccInv
  <1>5. ASSUME user # None, Accounts!Changes,
               NEW row \in Accounts!Edited(r.op), Accounts!Write(row),
                   Accounts!Saw(q, "drop", row)
        PROVE  AccInv'
    <2>1. row \in Accounts!User /\ changes' \in 0..MaxChanges /\ "drop" \in Accounts!Pcs
      <3>1. row \in Accounts!User
        BY <1>2, <1>5, EditedTyped DEF AccInv
      <3>2. changes' \in 0..MaxChanges
        BY <1>5, AccConstants DEF Accounts!Changes, AccInv, AccRow
      <3> QED BY <3>1, <3>2 DEF Accounts!Pcs
    <2>2. AccRow' /\ Moves /\ user' # None
      BY <1>3, <1>5, <2>1, Written
    <2>3. PICK r0 \in Accounts!RequestType, c \in Accounts!RequestType, now \in 0..MaxClock :
              Ran(q, "drop", r0, c, now) /\ c.seen = row
      BY <1>3, <1>5, <2>1, SawNow
    <2>4. c.op # "login"
      BY <1>1, <1>2, <2>3 DEF Ran, Accounts!Edits
    <2>5. Locals(c)'
      BY <2>1, <2>2, <2>3, <2>4 DEF Ran, Locals, LogsIn
    <2>6. AccRequests'
      BY <1>3, <2>2, <2>3, <2>5, RequestsGo DEF Ran, AccInv
    <2> QED BY <1>3, <2>2, <2>6, CachesStay
  <1> QED BY <1>1, <1>4, <1>5 DEF Accounts!Edit

\* PUT profile and PUT preferences
LEMMA AccSaves ==
    ASSUME AccInv, NEW q \in Requests, Accounts!Save(q)
    PROVE  AccInv'
  <1>1. UNCHANGED <<clock, authCache, profileCache>>
    BY DEF Accounts!Save
  <1>2. ASSUME Accounts!End(q), UNCHANGED <<user, left, changes>> PROVE AccInv'
    <2>1. AccRow' /\ Moves
      BY <1>1, <1>2, RowGoes DEF RowMoves, AccInv, AccRow
    <2> QED BY <1>1, <2>1, <1>2, Ends, CachesStay DEF AccInv
  <1>3. ASSUME Accounts!Shown, Accounts!Changes, Accounts!Write(user),
               NEW pc \in {"publish", "profile"}, Accounts!Did(q, pc)
        PROVE  AccInv'
    <2>1. PICK row \in Accounts!User : row = user /\ ~row.deleted
      BY <1>3 DEF Accounts!Shown, AccInv, AccRow
    <2>2. changes' \in 0..MaxChanges /\ pc \in Accounts!Pcs
      BY <1>3, AccConstants DEF Accounts!Changes, AccInv, AccRow, Accounts!Pcs
    <2>3. AccRow' /\ Moves /\ user' = row
      BY <1>1, <1>3, <2>1, <2>2, Written
    <2>4. PICK r \in Accounts!RequestType, c \in Accounts!RequestType, now \in 0..MaxClock :
              Ran(q, pc, r, c, now)
      BY <1>1, <1>3, <2>2, DidNow
    <2>5. Fresh("live", Granted(now))' /\ Fresh("live", now)'
      BY <2>1, <2>3, LiveNow
    <2>6. Locals(c)'
      BY <1>3, <2>4, <2>5 DEF Ran, Locals
    <2>7. AccRequests'
      BY <1>1, <2>3, <2>4, <2>6, RequestsGo DEF Ran, AccInv
    <2> QED BY <1>1, <2>3, <2>7, CachesStay
  <1> QED BY <1>2, <1>3 DEF Accounts!Save

\* A profile that is given ends its request, or that of PUT preferences caches it again
LEMMA Gives ==
    ASSUME AccInv, NEW q \in Requests, UNCHANGED <<clock, user, left>>,
           req[q].pc \in {"profile", "keep"}, Accounts!Given(q)
    PROVE  AccRequests'
  <1>m. Moves
    BY DEF Moves, RowMoves
  <1>1. ASSUME Accounts!End(q) PROVE AccRequests'
    BY <1>m, <1>1, Ends DEF AccInv
  <1>2. ASSUME req[q].op = "prefer", Accounts!Did(q, "renew") PROVE AccRequests'
    <2>1. PICK r \in Accounts!RequestType, c \in Accounts!RequestType, now \in 0..MaxClock :
              Ran(q, "renew", r, c, now)
      BY <1>2, DidNow DEF Accounts!Pcs
    <2>2. r.at # None /\ Fresh("live", r.at) /\ r.at <= clock /\ clock <= r.at + Latency
      BY <1>2, <2>1 DEF Ran, Locals
    <2>3. /\ r.at \in Int /\ now - Latency \in Int /\ now - Latency <= r.at
          /\ now - Latency <= clock
      <3>1. r.at \in Nat /\ now = clock /\ now \in Nat
        BY <2>1, <2>2 DEF Ran, Accounts!RequestType
      <3> QED BY <2>2, <3>1, AccConstants
    <2>4. Fresh("live", now - Latency)
      BY <2>2, <2>3, Weaker, Times DEF AccInv
    <2>5. Fresh("live", now - Latency)'
      BY <1>m, <2>3, <2>4, FreshStays, Times DEF AccInv
    <2>6. Locals(c)'
      BY <2>1, <2>5 DEF Ran, Locals
    <2> QED BY <1>m, <2>1, <2>6, RequestsGo DEF Ran, AccInv
  <1> QED BY <1>1, <1>2 DEF Accounts!Given

\* A profile that is taken from its copy
LEMMA AccProfiles ==
    ASSUME AccInv, NEW q \in Requests, Accounts!Profile(q)
    PROVE  AccInv'
  <1>m. /\ UNCHANGED <<clock, user, left, changes, authCache, profileCache>>
        /\ Moves /\ AccRow' /\ req[q].pc = "profile"
    BY DEF Accounts!Profile, Moves, RowMoves, AccInv, AccRow
  <1>1. AccRequests'
    BY <1>m, Gives, GoesOn DEF Accounts!Profile
  <1> QED BY <1>m, <1>1, CachesStay

\* A profile that is read from the row
LEMMA AccReads ==
    ASSUME AccInv, NEW q \in Requests, Accounts!Read(q)
    PROVE  AccInv'
  <1>m. /\ UNCHANGED <<clock, user, left, changes, authCache, profileCache>>
        /\ Moves /\ AccRow'
    BY DEF Accounts!Read, Moves, RowMoves, AccInv, AccRow
  <1>1. ASSUME Accounts!Shown, Accounts!Did(q, "keep") PROVE AccRequests'
    <2>1. PICK row \in Accounts!User : row = user /\ ~row.deleted
      BY <1>1 DEF Accounts!Shown, AccInv, AccRow
    <2>2. PICK r \in Accounts!RequestType, c \in Accounts!RequestType, now \in 0..MaxClock :
              Ran(q, "keep", r, c, now)
      BY <1>m, <1>1, DidNow DEF Accounts!Pcs
    <2>3. Fresh("live", now)'
      BY <1>m, <2>1, LiveNow
    <2>4. Locals(c)'
      BY <2>2, <2>3 DEF Ran, Locals
    <2> QED BY <1>m, <2>2, <2>4, RequestsGo DEF Ran, AccInv
  <1>2. AccRequests'
    BY <1>m, <1>1, Ends DEF Accounts!Read, AccInv
  <1> QED BY <1>m, <1>2, CachesStay

\* A profile that was read is cached
LEMMA AccKeeps ==
    ASSUME AccInv, NEW q \in Requests, Accounts!Keep(q)
    PROVE  AccInv'
  <1>m. /\ UNCHANGED <<clock, user, left, changes, authCache>>
        /\ Moves /\ AccRow' /\ req[q].pc = "keep"
    BY DEF Accounts!Keep, Moves, RowMoves, AccInv, AccRow
  <1>1. PICK r \in Accounts!RequestType : r = req[q] /\ Locals(r)
    BY Request
  <1>2. PICK t \in 0..MaxClock : t = r.at /\ clock <= t + Latency /\ Fresh("live", t)
    BY <1>m, <1>1 DEF Locals, Accounts!RequestType
  <1>3. t \in Int /\ Granted(clock - Latency) <= t
    BY <1>2, AccConstants DEF Granted, Guessed, AccInv, AccRow
  <1>4. AccProfile'
    BY <1>m, <1>2, <1>3, ProfileFilled DEF Accounts!Keep, AccInv
  <1>5. AccRequests'
    BY <1>m, Gives DEF Accounts!Keep
  <1> QED BY <1>m, <1>4, <1>5, AuthSame DEF AccInv

\* The time passes, for no longer than the latency while a request goes by a row
LEMMA AccTicks ==
    ASSUME AccInv, Accounts!Tick
    PROVE  AccInv'
  <1>m. /\ UNCHANGED <<user, left, changes, authCache, profileCache, req>>
        /\ clock < MaxClock /\ clock' = clock + 1 /\ Moves
    BY DEF Accounts!Tick, Moves
  <1>1. AccRow'
    BY <1>m, AccConstants DEF AccInv, AccRow
  <1>2. AccRequests'
    <2>1. ASSUME NEW q \in Requests PROVE Locals(req[q])'
      <3>1. PICK r \in Accounts!RequestType : r = req[q] /\ Locals(r)
        BY Request
      <3>2. r.at # None => clock' <= r.at + Latency
        <4>1. r.at # None => r.at \in Nat /\ clock \in Nat /\ clock < r.at + Latency
          BY <3>1 DEF Accounts!Tick, Accounts!RequestType, AccInv, AccRow
        <4> QED BY <1>m, <4>1, AccConstants
      <3>3. Locals(r)'
        BY <1>m, <3>1, <3>2, LocalsStay DEF AccInv
      <3> QED BY <1>m, <3>1, <3>3
    <2> QED BY <1>m, <2>1 DEF AccInv, AccRequests
  <1> QED BY <1>m, <1>1, <1>2, CachesStay
\* The invariant holds at the beginning
LEMMA AccInit ==
    ASSUME Accounts!Init
    PROVE  AccInv
  <1>1. user \in Accounts!User \cup {None}
    <2>1. 0 \in 0..MaxFailed /\ 0 \in Accounts!Locks
      BY AccConstants DEF Accounts!Locks
    <2>2. ASSUME NEW u \in Accounts!NewUser PROVE u \in Accounts!User
      <3>1. PICK p \in Passwords, a \in Addresses :
                u = [password |-> p, address |-> a, failed |-> 0, locked |-> 0, deleted |-> FALSE]
        BY DEF Accounts!NewUser
      <3> QED BY <2>1, <3>1 DEF Accounts!User
    <2> QED BY <2>2 DEF Accounts!Init
  <1>2. AccRow
    <2>1. clock \in 0..MaxClock /\ changes \in 0..MaxChanges
      BY AccConstants DEF Accounts!Init
    <2>2. left \in [Accounts!Facts -> 0..MaxClock \cup {None}]
      BY DEF Accounts!Init
    <2> QED BY <1>1, <2>1, <2>2 DEF AccRow
  <1>3. AccAuth /\ AccProfile
    BY DEF Accounts!Init, AccAuth, AccProfile
  <1>4. AccRequests
    <2>1. Accounts!Idle \in Accounts!RequestType /\ Locals(Accounts!Idle)
      BY DEF Accounts!Idle, Accounts!RequestType, Accounts!Pcs, Locals
    <2> QED BY <2>1 DEF Accounts!Init, AccRequests
  <1> QED BY <1>2, <1>3, <1>4 DEF AccInv

\* The invariant is one of the variables of the accounts
LEMMA AccStays ==
    ASSUME AccInv, UNCHANGED accountsVars
    PROVE  AccInv'
  <1>m. UNCHANGED <<clock, user, left, changes, authCache, profileCache, req>>
    BY DEF accountsVars
  <1>1. AccRow' /\ Moves
    BY <1>m DEF AccInv, AccRow, Moves, RowMoves
  <1>2. AccRequests'
    <2>1. ASSUME NEW q \in Requests PROVE Locals(req[q])'
      <3>1. PICK r \in Accounts!RequestType : r = req[q] /\ Locals(r)
        BY Request
      <3>2. r.at # None => clock' <= r.at + Latency
        BY <1>m, <3>1 DEF Locals
      <3>3. Locals(r)'
        BY <1>1, <3>1, <3>2, LocalsStay DEF AccInv
      <3> QED BY <1>m, <3>1, <3>3
    <2> QED BY <1>m, <2>1 DEF AccInv, AccRequests
  <1> QED BY <1>m, <1>1, <1>2, CachesStay

\* Every step of the accounts keeps the invariant
LEMMA AccStep ==
    ASSUME AccInv, [Accounts!Next]_accountsVars
    PROVE  AccInv'
  <1>1. CASE UNCHANGED accountsVars
    BY <1>1, AccStays
  <1>2. CASE Accounts!Tick
    BY <1>2, AccTicks
  <1>3. ASSUME NEW q \in Requests, Accounts!Handle(q) PROVE AccInv'
    <2>1. CASE Accounts!Start(q) \/ Accounts!Lookup(q) \/ Accounts!Select(q) \/ Accounts!Fill(q)
      BY <2>1, AccStarts, AccLooksUp, AccSelects, AccFills
    <2>2. CASE Accounts!Miss(q) \/ Accounts!Grant(q) \/ Accounts!Insert(q)
      BY <2>2, AccMisses, AccGrants, AccInserts
    <2>3. CASE \/ Accounts!Session(q) \/ Accounts!Drop(q) \/ Accounts!Publish(q)
               \/ Accounts!Renew(q) \/ Accounts!Fail(q)
      BY <2>3, AccCaches
    <2>4. CASE \/ Accounts!Verify(q) \/ Accounts!ChangePassword(q) \/ Accounts!Edit(q)
               \/ Accounts!Save(q)
      BY <2>4, AccVerifies, AccChanges, AccEdits, AccSaves
    <2>5. CASE Accounts!Profile(q) \/ Accounts!Read(q) \/ Accounts!Keep(q)
      BY <2>5, AccProfiles, AccReads, AccKeeps
    <2> QED BY <1>3, <2>1, <2>2, <2>3, <2>4, <2>5 DEF Accounts!Handle
  <1> QED BY <1>1, <1>2, <1>3 DEF Accounts!Next

\* A step of the backend is one of the accounts, or leaves them as they are
LEMMA AccSteps == [Next]_vars => [Accounts!Next]_accountsVars
  BY DEF Next, vars, accountsVars, learningVars

\* The invariant holds in every behaviour of the backend
LEMMA AccAlways == Spec => []AccInv
  <1>1. Init => AccInv
    BY AccInit DEF Init
  <1>2. AccInv /\ [Next]_vars => AccInv'
    BY AccSteps, AccStep
  <1> QED BY <1>1, <1>2, PTL DEF Spec

\* What was so within the window is recent
LEMMA RecentlySo ==
    ASSUME AccRow, NEW w \in Int, NEW t \in Int, clock < t + w
    PROVE  /\ \A f \in Accounts!Facts : Fresh(f, t) => Accounts!Recent(f, w)
           /\ \A l \in Nat : l <= clock /\ Open(l, t) => Accounts!Recent("open", w)
  <1>1. clock \in Int /\ \A f \in Accounts!Facts : left[f] # None => left[f] \in Int
    BY AccConstants DEF AccRow
  <1>2. ASSUME NEW f \in Accounts!Facts, Fresh(f, t) PROVE Accounts!Recent(f, w)
    <2>1. CASE Accounts!Holds(f, user)
      BY <2>1 DEF Accounts!Recent
    <2>2. CASE left[f] # None /\ t <= left[f]
      <3>1. left[f] \in Int /\ clock < left[f] + w
        BY <1>1, <2>2
      <3> QED BY <2>2, <3>1 DEF Accounts!Recent
    <2> QED BY <1>2, <2>1, <2>2 DEF Fresh
  <1>3. ASSUME NEW l \in Nat, l <= clock, Open(l, t) PROVE Accounts!Recent("open", w)
    <2>1. CASE user # None /\ user.locked <= l
      <3>1. user.locked \in Nat
        BY <2>1, RowFacts DEF AccRow
      <3>2. user.locked <= clock
        BY <1>1, <1>3, <2>1, <3>1
      <3> QED BY <2>1, <3>2 DEF Accounts!Recent, Accounts!Holds
    <2>2. CASE left["open"] # None /\ t <= left["open"]
      <3>1. left["open"] \in Int /\ clock < left["open"] + w
        BY <1>1, <2>2 DEF Accounts!Facts
      <3> QED BY <2>2, <3>1 DEF Accounts!Recent
    <2> QED BY <1>3, <2>1, <2>2 DEF Open
  <1> QED BY <1>2, <1>3

\* A login is decided by what was so when its copy was read
LEMMA LoginsRecent ==
    ASSUME AccInv, NEW q \in Requests, req[q].pc = "guess"
    PROVE  /\ \A f \in {req[q].seen.password, req[q].address, "live"} :
                    Accounts!Recent(f, Accounts!LoginWindow)
           /\ Accounts!Recent("open", Accounts!LoginWindow)
  <1>1. PICK r \in Accounts!RequestType : r = req[q] /\ Locals(r)
    BY Request
  <1>2. PICK t \in 0..MaxClock : t = r.at
    BY <1>1 DEF Locals, Accounts!RequestType
  <1>3. /\ r.seen \in Accounts!User /\ r.seen.address = r.address /\ r.seen.locked <= t
        /\ Said(r.seen, Guessed(t)) /\ Open(r.seen.locked, Guessed(t))
        /\ t <= clock /\ clock <= t + Latency
    BY <1>1, <1>2, AccConstants DEF Locals, RowRead
  <1>4. /\ Guessed(t) \in Int /\ Accounts!LoginWindow \in Int
        /\ clock < Guessed(t) + Accounts!LoginWindow
        /\ r.seen.locked \in Nat /\ r.seen.locked <= clock
    <2>1. clock \in Int /\ t \in Int /\ r.seen.locked \in Nat
      BY <1>3, RowFacts DEF AccInv, AccRow
    <2>2. /\ Guessed(t) \in Int /\ Accounts!LoginWindow \in Int
          /\ clock < Guessed(t) + Accounts!LoginWindow
      BY <1>3, <2>1, AccConstants DEF Guessed, Accounts!LoginWindow
    <2> QED BY <1>3, <2>1, <2>2
  <1>5. \A f \in {r.seen.password, r.seen.address, "live"} :
            Accounts!Recent(f, Accounts!LoginWindow)
    BY <1>3, <1>4, RowFacts, RecentlySo DEF Said, AccInv
  <1>6. Accounts!Recent("open", Accounts!LoginWindow)
    BY <1>3, <1>4, RecentlySo DEF AccInv
  <1> QED BY <1>1, <1>3, <1>5, <1>6

\* A profile is shown by what was so when its copy, or that by which a login made the
\* copy, was read
LEMMA ShownRecent ==
    ASSUME AccInv, NEW q \in Requests,
           \/ Accounts!Profile(q) /\ req'[q].pc = "idle"
           \/ Accounts!Keep(q)
    PROVE  Accounts!Recent("live", Accounts!ShownWindow)
  <1>1. PICK r \in Accounts!RequestType : r = req[q] /\ Locals(r)
    BY Request
  <1>2. ASSUME NEW t \in Int, Fresh("live", t), clock < t + Accounts!ShownWindow
        PROVE  Accounts!Recent("live", Accounts!ShownWindow)
    <2>1. Accounts!ShownWindow \in Int /\ "live" \in Accounts!Facts
      BY AccConstants DEF Accounts!ShownWindow, Accounts!LoginWindow, Accounts!Facts
    <2> QED BY <1>2, <2>1, RecentlySo DEF AccInv
  <1>3. clock \in Int
    BY DEF AccInv, AccRow
  <1>4. CASE Accounts!Profile(q) /\ req'[q].pc = "idle"
    <2>1. Accounts!Live(profileCache)
      <3>1. ~Accounts!To(q, "read")
        <4>1. Accounts!To(q, "read") => req'[q].pc = "read"
          BY <1>1 DEF Accounts!To, Accounts!Go, AccInv, AccRequests, Accounts!RequestType
        <4> QED BY <1>4, <4>1
      <3> QED BY <1>4, <3>1 DEF Accounts!Profile
    <2>2. PICK c \in [expires : 0..(MaxClock + CacheTTL)] :
                c = profileCache /\ ProfileCopy(c) /\ clock < c.expires
      BY <2>1 DEF Accounts!Live, AccInv, AccProfile
    <2> DEFINE t == Granted(c.expires - CacheTTL - Latency)
    <2>3. /\ t \in Int /\ Fresh("live", t) /\ clock < t + Accounts!ShownWindow
      <3>1. c.expires \in Int
        BY <2>2, AccConstants
      <3>2. t \in Int /\ clock < t + Accounts!ShownWindow
        BY <1>3, <2>2, <3>1, AccConstants
           DEF Granted, Guessed, Accounts!ShownWindow, Accounts!LoginWindow
      <3> QED BY <2>2, <3>2 DEF ProfileCopy
    <2> HIDE DEF t
    <2> QED BY <1>2, <2>3
  <1>5. CASE Accounts!Keep(q)
    <2>1. PICK t \in 0..MaxClock : t = r.at /\ Fresh("live", t) /\ clock <= t + Latency
      BY <1>1, <1>5 DEF Accounts!Keep, Locals, Accounts!RequestType
    <2>2. t \in Int /\ clock < t + Accounts!ShownWindow
      BY <1>3, <2>1, AccConstants DEF Accounts!ShownWindow, Accounts!LoginWindow
    <2> QED BY <1>2, <2>1, <2>2
  <1> QED BY <1>4, <1>5

\* A login is granted by a password and an address that the account had within two cache
\* times of it, to an account that was there and not locked then, and a profile shown that
\* was there, with any number of requests and every length of the cache's and the handlers'
\* times (login, auth.ts:457-591; getUserByEmail, getUserById, db.ts:240-301).
THEOREM DecidedCorrect == Spec => DecidedByRecentRow
  <1>1. ASSUME AccInv, NEW q \in Requests
        PROVE  /\ Accounts!Grant(q) => \A f \in {req[q].password, req[q].address, "live"} :
                            Accounts!Recent(f, Accounts!LoginWindow)
               /\ Accounts!Grant(q) \/ Accounts!Miss(q) =>
                            Accounts!Recent("open", Accounts!LoginWindow)
               /\ ((Accounts!Profile(q) \/ Accounts!Keep(q)) /\ req[q].op = "view"
                   /\ req'[q].pc = "idle")
                        => Accounts!Recent("live", Accounts!ShownWindow)
    <2>1. Accounts!Grant(q) => \A f \in {req[q].password, req[q].address, "live"} :
                            Accounts!Recent(f, Accounts!LoginWindow)
      BY <1>1, LoginsRecent DEF Accounts!Grant
    <2>2. Accounts!Grant(q) \/ Accounts!Miss(q) =>
                            Accounts!Recent("open", Accounts!LoginWindow)
      BY <1>1, LoginsRecent DEF Accounts!Grant, Accounts!Miss
    <2>3. ((Accounts!Profile(q) \/ Accounts!Keep(q)) /\ req[q].op = "view"
           /\ req'[q].pc = "idle")
                        => Accounts!Recent("live", Accounts!ShownWindow)
      BY <1>1, ShownRecent
    <2> QED BY <2>1, <2>2, <2>3
  <1>2. AccInv =>
        [\A q \in Requests :
            /\ Accounts!Grant(q) => \A f \in {req[q].password, req[q].address, "live"} :
                                Accounts!Recent(f, Accounts!LoginWindow)
            /\ Accounts!Grant(q) \/ Accounts!Miss(q) =>
                                Accounts!Recent("open", Accounts!LoginWindow)
            /\ (Accounts!Profile(q) \/ Accounts!Keep(q)) /\ req[q].op = "view"
               /\ req'[q].pc = "idle"
                => Accounts!Recent("live", Accounts!ShownWindow)]_(Accounts!vars)
    BY <1>1
  <1> QED BY <1>2, AccAlways, PTL DEF Spec, DecidedByRecentRow, Accounts!DecidedByRecentRow

\* Each variable of each part has its type.
THEOREM TypeCorrect == Spec => []TypeOK
  <1>1. AccInv => Accounts!TypeOK
    BY DEF AccInv, AccRow, AccAuth, AccProfile, AccRequests, Accounts!TypeOK
  <1>2. PointsInv => Learning!TypeOK
    BY DEF PointsInv
  <1>3. AccInv /\ PointsInv => TypeOK
    BY <1>1, <1>2 DEF TypeOK
  <1> QED BY <1>3, AccAlways, PointsAlways, PTL

=============================================================================
