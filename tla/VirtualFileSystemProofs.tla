---------------------- MODULE VirtualFileSystemProofs ----------------------
(***************************************************************************)
(* Proofs about VirtualFileSystem, for any processes, threads, paths,      *)
(* files and contents, and any number of writes.                           *)
(*                                                                         *)
(* CommitsSurvive is not inductive: that a COMMIT record may be written    *)
(* rests on the version a thread has put on disk under the lock still      *)
(* being there when it syncs the directory (Locked), and on what it synced *)
(* not having been removed before the record (Versions).  TextsKept rests  *)
(* on a writer's text having its file before the checkpoint refers to it,  *)
(* and on no step but a power loss taking such a file away (ThreadTexts).  *)
(***************************************************************************)
EXTENDS VirtualFileSystem, TLAPS

\* A thread that replaces a file has its lock; what it put there is there until it syncs.
Locked ==
    \A t \in Threads :
        /\ thread[t].pc \in {"replace", "sync"} => lock[FileOf(t)] = {t}
        /\ thread[t].pc = "sync" => disk[FileOf(t)].ver = thread[t].ver

\* Versions grow; one that waits for its COMMIT record has been synced, unless removed.
Versions ==
    /\ \A f \in Files : disk[f].ver <= seq /\ durable[f].ver <= seq
    /\ \A t \in Threads :
         /\ thread[t].ver <= seq
         /\ thread[t].pc = "commit" /\ thread[t].ver > removed[FileOf(t)] =>
                disk[FileOf(t)].ver >= thread[t].ver /\ durable[FileOf(t)].ver >= thread[t].ver

\* The texts of what threads hold have files.
ThreadTexts ==
    ~outage =>
        \A t \in Threads :
            /\ thread[t].pc \in {"artifact", "lock", "replace", "sync", "commit", "publish"}
                 /\ thread[t].val \in Large => thread[t].val \in artifacts
            /\ Exists(thread[t].found.file) /\ thread[t].found.file.val \in Large =>
                 thread[t].found.file.val \in artifacts

IndInv == TypeOK /\ Locked /\ Versions /\ CommitsSurvive /\ TextsKept /\ ThreadTexts

-----------------------------------------------------------------------------

\* What stands for no file and for no call has the type of one.
LEMMA Nothing ==
    /\ NoFile \in Content
    /\ NoFile.ver = 0
    /\ NodeOf(NoFile) \in Node
    /\ NodeOf(NoFile).file = NoFile
    /\ IdleThread \in Thread
    /\ IdleThread.pc = "idle"
    /\ IdleThread.ver = 0
    /\ IdleThread.found = NodeOf(NoFile)
<1>1. (CHOOSE p \in Paths : TRUE) \in Paths
  BY VfsAssumption
<1>2. (CHOOSE v \in Values : TRUE) \in Values
  BY VfsAssumption
<1>3. NoFile \in Content /\ NoFile.ver = 0
  BY <1>1, <1>2 DEF NoFile, Content
<1>4. NoFile.path \in Paths /\ NoFile.val \in Values
  BY <1>1, <1>2 DEF NoFile
<1>5. NodeOf(NoFile) \in Node /\ NodeOf(NoFile).file = NoFile
  BY <1>3 DEF NodeOf, Node
<1>6. IdleThread \in Thread
  BY <1>4, <1>5 DEF IdleThread, Thread
<1>7. IdleThread.pc = "idle" /\ IdleThread.ver = 0 /\ IdleThread.found = NodeOf(NoFile)
  BY DEF IdleThread
<1> QED
  BY <1>3, <1>5, <1>6, <1>7

\* A thread's path has a file.
LEMMA FileTyped == ASSUME TypeOK, NEW t \in Threads PROVE FileOf(t) \in Files
<1>1. thread[t].path \in Paths
  BY DEF TypeOK, Thread
<1> QED
  BY <1>1, VfsAssumption DEF FileOf

\* So has a node whose texts were put back.
LEMMA InjectedTyped == ASSUME NEW n \in Node PROVE Injected(n) \in Node
<1>1. [n EXCEPT !.texts = TRUE] \in Node /\ [n EXCEPT !.texts = FALSE] \in Node
  BY DEF Node
<1>2. CASE n.file.val \in artifacts
  <2>1. (n.file.val \in artifacts) = TRUE
    BY <1>2
  <2> QED
    BY <1>1, <2>1, Zenon DEF Injected
<1>3. CASE n.file.val \notin artifacts
  <2>1. (n.file.val \in artifacts) = FALSE
    BY <1>3
  <2> QED
    BY <1>1, <2>1, Zenon DEF Injected
<1> QED
  BY <1>2, <1>3

-----------------------------------------------------------------------------
(* The parts of the invariant, each over a step.                           *)

\* Every variable keeps its type.
LEMMA TypeStep == TypeOK /\ [Next]_vars => TypeOK'
<1> SUFFICES ASSUME TypeOK, [Next]_vars PROVE TypeOK'
  OBVIOUS
<1> USE Nothing
<1>1. ASSUME NEW t \in Threads, WriteStart(t) PROVE TypeOK'
  <2>1. PICK p \in Paths, v \in Values :
          thread' = [thread EXCEPT ![t] =
                       [IdleThread EXCEPT !.pc = "extract", !.path = p, !.val = v]]
    BY <1>1 DEF WriteStart
  <2>2. [IdleThread EXCEPT !.pc = "extract", !.path = p, !.val = v] \in Thread
    BY DEF Thread
  <2>3. thread' \in [Threads -> Thread]
    BY <2>1, <2>2 DEF TypeOK
  <2> QED
    BY <1>1, <2>3 DEF TypeOK, WriteStart, shared, history
<1>2. ASSUME NEW t \in Threads, Extract(t) PROVE TypeOK'
  BY <1>2 DEF TypeOK, Extract, Goto, history, Thread
<1>3. ASSUME NEW t \in Threads, ArtifactSync(t) PROVE TypeOK'
  BY <1>3 DEF TypeOK, ArtifactSync, Goto, history, Thread
<1>4. ASSUME NEW t \in Threads, Lock(t) PROVE TypeOK'
  BY <1>4, FileTyped DEF TypeOK, Lock, Goto, shared, history, Thread
<1>5. ASSUME NEW t \in Threads, Replace(t) PROVE TypeOK'
  <2>1. [path |-> thread[t].path, val |-> thread[t].val, ver |-> seq + 1, intact |-> TRUE] \in Content
    BY DEF TypeOK, Thread, Content
  <2>2. disk' \in [Files -> Content]
    BY <1>5, <2>1 DEF Replace, TypeOK
  <2>3. [thread[t] EXCEPT !.pc = "sync", !.ver = seq + 1] \in Thread
    <3>1. thread[t] \in Thread /\ seq + 1 \in Nat
      BY DEF TypeOK
    <3> QED
      BY <3>1 DEF Thread
  <2>4. thread' = [thread EXCEPT ![t] = [thread[t] EXCEPT !.pc = "sync", !.ver = seq + 1]]
    BY <1>5 DEF Replace, TypeOK
  <2>5. thread' \in [Threads -> Thread]
    BY <2>3, <2>4 DEF TypeOK
  <2> QED
    BY <1>5, <2>2, <2>5 DEF TypeOK, Replace, history
<1>6. ASSUME NEW t \in Threads, Sync(t) PROVE TypeOK'
  <2>1. lock' \in [Files -> {{}} \cup {{u} : u \in Threads}]
    BY <1>6 DEF TypeOK, Sync
  <2> QED
    BY <1>6, <2>1 DEF TypeOK, Sync, Goto, history, Thread
<1>7. ASSUME NEW t \in Threads, Commit(t) PROVE TypeOK'
  <2>1. thread[t].ver \in Nat
    BY DEF TypeOK, Thread
  <2>2. acked' \in [Files -> Nat]
    BY <1>7, <2>1 DEF TypeOK, Commit
  <2> QED
    BY <1>7, <2>2 DEF TypeOK, Commit, Goto, shared, Thread
<1>8. ASSUME NEW t \in Threads, Publish(t) PROVE TypeOK'
  <2> DEFINE c == [path |-> thread[t].path, val |-> thread[t].val, ver |-> thread[t].ver,
                   intact |-> TRUE]
  <2>1. c \in Content
    BY DEF TypeOK, Thread, Content
  <2>2. NodeOf(c) \in Node
    BY <2>1 DEF NodeOf, Node
  <2>3. node' = [node EXCEPT ![ProcessOf[t]][thread[t].path] = NodeOf(c)]
    BY <1>8 DEF Publish
  <2> HIDE DEF c
  <2>4. node' \in [Processes -> [Paths -> Node]]
    BY <2>2, <2>3 DEF TypeOK
  <2> QED
    BY <1>8, <2>4 DEF TypeOK, Publish, Return, shared, history
<1>9. ASSUME NEW t \in Threads, WriteFail(t) PROVE TypeOK'
  <2>1. lock' \in [Files -> {{}} \cup {{u} : u \in Threads}]
    BY <1>9 DEF TypeOK, WriteFail
  <2> QED
    BY <1>9, <2>1 DEF TypeOK, WriteFail, Return, shared, history
<1>10. ASSUME NEW t \in Threads, ReadHit(t) PROVE TypeOK'
  <2> DEFINE p0 == ProcessOf[t]
             removing(q) == [IdleThread EXCEPT !.pc = "remove", !.path = q]
  <2>1. PICK p \in Paths :
          \/ node' = [node EXCEPT ![p0][p] = Injected(node[p0][p])] /\ thread' = thread
          \/ thread' = [thread EXCEPT ![t] = removing(p)] /\ node' = node
    BY <1>10 DEF ReadHit
  <2>2. removing(p) \in Thread
    BY DEF Thread
  <2>3. p0 \in Processes /\ node[p0][p] \in Node
    BY VfsAssumption DEF TypeOK
  <2>4. Injected(node[p0][p]) \in Node
    BY <2>3, InjectedTyped
  <2> HIDE DEF p0, removing
  <2>5. node' \in [Processes -> [Paths -> Node]]
    <3>1. CASE node' = node
      BY <3>1 DEF TypeOK
    <3>2. ASSUME NEW n \in Node, node' = [node EXCEPT ![p0][p] = n]
          PROVE  node' \in [Processes -> [Paths -> Node]]
      BY <3>2 DEF TypeOK
    <3> QED
      BY <2>1, <2>4, <3>1, <3>2
  <2>6. thread' \in [Threads -> Thread]
    BY <2>1, <2>2 DEF TypeOK
  <2> QED
    BY <1>10, <2>5, <2>6 DEF TypeOK, ReadHit, shared, history
<1>11. ASSUME NEW t \in Threads, ReadMiss(t) PROVE TypeOK'
  <2>1. PICK p \in Paths :
          thread' = [thread EXCEPT ![t] = [IdleThread EXCEPT !.pc = "load", !.path = p]]
    BY <1>11 DEF ReadMiss
  <2>2. [IdleThread EXCEPT !.pc = "load", !.path = p] \in Thread
    BY DEF Thread
  <2>3. thread' \in [Threads -> Thread]
    BY <2>1, <2>2 DEF TypeOK
  <2> QED
    BY <1>11, <2>3 DEF TypeOK, ReadMiss, shared, history
<1>12. ASSUME NEW t \in Threads, Load(t) PROVE TypeOK'
  <2> DEFINE loaded == [thread[t] EXCEPT !.pc = "install", !.found = NodeOf(disk[FileOf(t)])]
  <2>1. NodeOf(disk[FileOf(t)]) \in Node
    BY FileTyped DEF TypeOK, NodeOf, Node
  <2>2. loaded \in Thread
    BY <2>1 DEF TypeOK, Thread
  <2>3. \/ thread' = [thread EXCEPT ![t] = loaded]
        \/ thread' = [thread EXCEPT ![t] = IdleThread]
    BY <1>12 DEF TypeOK, Load, Return
  <2> HIDE DEF loaded
  <2>4. thread' \in [Threads -> Thread]
    BY <2>2, <2>3 DEF TypeOK
  <2> QED
    BY <1>12, <2>4 DEF TypeOK, Load, shared, history
<1>13. ASSUME NEW t \in Threads, Install(t) PROVE TypeOK'
  <2> DEFINE removing == [thread[t] EXCEPT !.pc = "remove"]
  <2>1. thread[t].found \in Node /\ removing \in Thread
    BY DEF TypeOK, Thread
  <2>2. Injected(thread[t].found) \in Node
    BY <2>1, InjectedTyped
  <2>3. node' \in [Processes -> [Paths -> Node]]
    <3>1. PICK n \in Node : node' = [node EXCEPT ![ProcessOf[t]][thread[t].path] = n]
      BY <1>13, <2>1, <2>2 DEF Install
    <3> QED
      BY <3>1 DEF TypeOK
  <2>4. \/ thread' = [thread EXCEPT ![t] = removing]
        \/ thread' = [thread EXCEPT ![t] = IdleThread]
    BY <1>13 DEF TypeOK, Install, Return, Goto
  <2> HIDE DEF removing
  <2>5. thread' \in [Threads -> Thread]
    BY <2>1, <2>4 DEF TypeOK
  <2> QED
    BY <1>13, <2>3, <2>5 DEF TypeOK, Install, shared, history
<1>14. ASSUME NEW t \in Threads, Remove(t) PROVE TypeOK'
  <2>1. disk' \in [Files -> Content]
    BY <1>14 DEF TypeOK, Remove
  <2>2. acked' \in [Files -> Nat]
    BY <1>14 DEF TypeOK, Remove
  <2>3. removed' \in [Files -> Nat]
    BY <1>14 DEF TypeOK, Remove
  <2>4. thread' \in [Threads -> Thread]
    BY <1>14 DEF TypeOK, Remove, Goto, Thread
  <2> QED
    BY <1>14, <2>1, <2>2, <2>3, <2>4 DEF TypeOK, Remove
<1>15. ASSUME NEW t \in Threads, Drop(t) PROVE TypeOK'
  BY <1>15 DEF TypeOK, Drop, Return, shared, history
<1>16. ASSUME NEW S \in SUBSET Processes, Die(S)
       PROVE  /\ node' \in [Processes -> [Paths -> Node]]
              /\ todo' \in [Processes -> SUBSET Files]
              /\ thread' \in [Threads -> Thread]
              /\ lock' \in [Files -> {{}} \cup {{t} : t \in Threads}]
  <2>1. node' \in [Processes -> [Paths -> Node]]
    BY <1>16 DEF TypeOK, Die, NoNodes
  <2>2. ASSUME NEW f \in Files
        PROVE  {t \in lock[f] : ProcessOf[t] \notin S} \in {{}} \cup {{t} : t \in Threads}
    <3>1. CASE lock[f] = {}
      BY <3>1
    <3>2. ASSUME NEW u \in Threads, lock[f] = {u}
          PROVE  {t \in lock[f] : ProcessOf[t] \notin S} \in {{}} \cup {{t} : t \in Threads}
      BY <3>2
    <3> QED
      BY <3>1, <3>2 DEF TypeOK
  <2>3. lock' \in [Files -> {{}} \cup {{t} : t \in Threads}]
    BY <1>16, <2>2 DEF Die
  <2> QED
    BY <1>16, <2>1, <2>3 DEF TypeOK, Die
<1>17. ASSUME NEW p \in Processes, Crash(p) PROVE TypeOK'
  BY <1>16, <1>17 DEF TypeOK, Crash, shared, history
<1>18. CASE PowerLoss
  <2>1. disk' \in [Files -> Content] /\ durable' \in [Files -> Content]
    BY <1>18 DEF TypeOK, PowerLoss
  <2>2. artifacts' \subseteq Large /\ synced' \subseteq artifacts'
    BY <1>18 DEF TypeOK, PowerLoss
  <2> QED
    BY <1>16, <1>18, <2>1, <2>2 DEF TypeOK, PowerLoss
<1>19. ASSUME NEW p \in Processes, NEW f \in Files, RecoverFile(p, f) PROVE TypeOK'
  <2>1. disk[f].path \in Paths /\ NodeOf(disk[f]) \in Node
    BY DEF TypeOK, NodeOf, Node, Content
  <2>2. node' \in [Processes -> [Paths -> Node]]
    BY <1>19, <2>1 DEF TypeOK, RecoverFile
  <2> QED
    BY <1>19, <2>2 DEF TypeOK, RecoverFile, shared, history
<1>20. ASSUME NEW f \in Files, Damage(f) PROVE TypeOK'
  <2>1. disk' \in [Files -> Content] /\ durable' \in [Files -> Content]
    BY <1>20 DEF TypeOK, Damage, Content
  <2> QED
    BY <1>20, <2>1 DEF TypeOK, Damage, history
<1>21. CASE UNCHANGED vars
  BY <1>21 DEF TypeOK, vars, shared, history
<1> QED
  BY <1>1, <1>2, <1>3, <1>4, <1>5, <1>6, <1>7, <1>8, <1>9, <1>10, <1>11, <1>12, <1>13, <1>14,
     <1>15, <1>17, <1>18, <1>19, <1>20, <1>21 DEF Next, Step

\* A step of one thread leaves the others where they are.
LEMMA Others ==
    ASSUME TypeOK, NEW t \in Threads,
           WriteStart(t) \/ ReadHit(t) \/ ReadMiss(t) \/ WriteFail(t) \/ Step(t)
    PROVE  \A u \in Threads \ {t} : thread'[u] = thread[u]
<1>1. CASE WriteStart(t) \/ ReadMiss(t)
  BY <1>1 DEF TypeOK, WriteStart, ReadMiss
<1>2. CASE ReadHit(t)
  BY <1>2 DEF TypeOK, ReadHit
<1>3. CASE WriteFail(t) \/ Publish(t) \/ Drop(t)
  BY <1>3 DEF TypeOK, WriteFail, Publish, Drop, Return
<1>4. CASE Extract(t) \/ ArtifactSync(t) \/ Lock(t) \/ Sync(t) \/ Commit(t) \/ Remove(t)
  BY <1>4 DEF TypeOK, Extract, ArtifactSync, Lock, Sync, Commit, Remove, Goto
<1>5. CASE Replace(t)
  BY <1>5 DEF TypeOK, Replace
<1>6. CASE Load(t) \/ Install(t)
  BY <1>6 DEF TypeOK, Load, Install, Return, Goto
<1> QED
  BY <1>1, <1>2, <1>3, <1>4, <1>5, <1>6 DEF Step

\* Where each action takes its thread, with which path, value and version.
LEMMA Gone ==
    ASSUME TypeOK, NEW t \in Threads
    PROVE  /\ WriteStart(t) => thread'[t].pc = "extract" /\ thread'[t].ver = 0
           /\ ReadMiss(t) => thread'[t].pc = "load" /\ thread'[t].ver = 0
           /\ ReadHit(t) => thread' = thread \/ (thread'[t].pc = "remove" /\ thread'[t].ver = 0)
           /\ WriteFail(t) \/ Publish(t) \/ Drop(t) => thread'[t] = IdleThread
           /\ Extract(t) =>
                thread'[t].pc \in {"lock", "artifact"} /\ thread'[t].ver = thread[t].ver
           /\ ArtifactSync(t) => thread'[t].pc = "lock" /\ thread'[t].ver = thread[t].ver
           /\ Lock(t) => /\ thread'[t].pc = "replace" /\ thread'[t].path = thread[t].path
                         /\ thread'[t].ver = thread[t].ver
           /\ Replace(t) => /\ thread'[t].pc = "sync" /\ thread'[t].path = thread[t].path
                            /\ thread'[t].ver = seq + 1
           /\ Sync(t) => /\ thread'[t].pc = "commit" /\ thread'[t].path = thread[t].path
                         /\ thread'[t].ver = thread[t].ver
           /\ Commit(t) => thread'[t].pc = "publish" /\ thread'[t].ver = thread[t].ver
           /\ Load(t) => \/ thread'[t] = IdleThread
                         \/ thread'[t].pc = "install" /\ thread'[t].ver = thread[t].ver
           /\ Install(t) => \/ thread'[t] = IdleThread
                            \/ thread'[t].pc = "remove" /\ thread'[t].ver = thread[t].ver
           /\ Remove(t) => thread'[t].pc = "drop" /\ thread'[t].ver = thread[t].ver
<1> USE Nothing
<1>1. thread[t] \in Thread /\ thread \in [Threads -> Thread]
  BY DEF TypeOK
<1>2. WriteStart(t) => thread'[t].pc = "extract" /\ thread'[t].ver = 0
  <2>1. ASSUME WriteStart(t)
        PROVE  thread'[t].pc = "extract" /\ thread'[t].ver = 0
    <3>1. PICK p \in Paths, v \in Values :
            thread'[t] = [IdleThread EXCEPT !.pc = "extract", !.path = p, !.val = v]
      BY <1>1, <2>1 DEF WriteStart
    <3> QED
      BY <3>1 DEF Thread
  <2> QED
    BY <2>1
<1>3. ReadMiss(t) => thread'[t].pc = "load" /\ thread'[t].ver = 0
  BY <1>1 DEF ReadMiss, Thread
<1>4. ReadHit(t) => thread' = thread \/ (thread'[t].pc = "remove" /\ thread'[t].ver = 0)
  <2>1. ASSUME NEW p \in Paths, thread'[t] = [IdleThread EXCEPT !.pc = "remove", !.path = p]
        PROVE  thread'[t].pc = "remove" /\ thread'[t].ver = 0
    BY <2>1 DEF Thread
  <2> QED
    BY <1>1, <2>1 DEF ReadHit
<1>5. WriteFail(t) \/ Publish(t) \/ Drop(t) => thread'[t] = IdleThread
  BY <1>1 DEF WriteFail, Publish, Drop, Return
<1>6. Extract(t) => thread'[t].pc \in {"lock", "artifact"} /\ thread'[t].ver = thread[t].ver
  BY <1>1 DEF Extract, Goto, Thread
<1>7. ArtifactSync(t) => thread'[t].pc = "lock" /\ thread'[t].ver = thread[t].ver
  BY <1>1 DEF ArtifactSync, Goto, Thread
<1>8. Lock(t) => /\ thread'[t].pc = "replace" /\ thread'[t].path = thread[t].path
                /\ thread'[t].ver = thread[t].ver
  BY <1>1 DEF Lock, Goto, Thread
<1>9. Replace(t) => /\ thread'[t].pc = "sync" /\ thread'[t].path = thread[t].path
                   /\ thread'[t].ver = seq + 1
  BY <1>1 DEF Replace, Thread
<1>10. Sync(t) => /\ thread'[t].pc = "commit" /\ thread'[t].path = thread[t].path
                 /\ thread'[t].ver = thread[t].ver
  BY <1>1 DEF Sync, Goto, Thread
<1>11. Commit(t) => thread'[t].pc = "publish" /\ thread'[t].ver = thread[t].ver
  BY <1>1 DEF Commit, Goto, Thread
<1>12. Load(t) => \/ thread'[t] = IdleThread
                  \/ thread'[t].pc = "install" /\ thread'[t].ver = thread[t].ver
  <2> DEFINE loaded == [thread[t] EXCEPT !.pc = "install", !.found = NodeOf(disk[FileOf(t)])]
  <2>1. loaded.pc = "install" /\ loaded.ver = thread[t].ver
    BY <1>1 DEF Thread
  <2>2. Load(t) => thread'[t] = IdleThread \/ thread'[t] = loaded
    BY <1>1 DEF Load, Return
  <2> HIDE DEF loaded
  <2> QED
    BY <2>1, <2>2
<1>13. Install(t) => \/ thread'[t] = IdleThread
                     \/ thread'[t].pc = "remove" /\ thread'[t].ver = thread[t].ver
  <2> DEFINE removing == [thread[t] EXCEPT !.pc = "remove"]
  <2>1. removing.pc = "remove" /\ removing.ver = thread[t].ver
    BY <1>1 DEF Thread
  <2>2. Install(t) => thread'[t] = IdleThread \/ thread'[t] = removing
    BY <1>1 DEF Install, Return, Goto
  <2> HIDE DEF removing
  <2> QED
    BY <2>1, <2>2
<1>14. Remove(t) => thread'[t].pc = "drop" /\ thread'[t].ver = thread[t].ver
  BY <1>1 DEF Remove, Goto, Thread
<1> QED
  BY <1>2, <1>3, <1>4, <1>5, <1>6, <1>7, <1>8, <1>9, <1>10, <1>11, <1>12, <1>13, <1>14

\* A dead process's threads are idle, the others keep their locks.
LEMMA Dead ==
    ASSUME TypeOK, NEW S \in SUBSET Processes, Die(S), NEW t \in Threads
    PROVE  \/ thread'[t] = IdleThread
           \/ /\ thread'[t] = thread[t]
              /\ lock[FileOf(t)] = {t} => lock'[FileOf(t)] = {t}
<1>1. CASE ProcessOf[t] \in S
  BY <1>1 DEF TypeOK, Die
<1>2. CASE ProcessOf[t] \notin S
  <2>1. thread'[t] = thread[t]
    BY <1>2 DEF TypeOK, Die
  <2>2. lock[FileOf(t)] = {t} => lock'[FileOf(t)] = {t}
    BY <1>2, FileTyped DEF Die
  <2> QED
    BY <2>1, <2>2
<1> QED
  BY <1>1, <1>2

\* Who replaces a file has its lock, and what it put there stays until it syncs.
LEMMA LockedStep == TypeOK /\ Locked /\ [Next]_vars => Locked'
<1> SUFFICES ASSUME TypeOK, Locked, [Next]_vars, NEW u \in Threads
             PROVE  /\ thread'[u].pc \in {"replace", "sync"} => lock'[FileOf(u)'] = {u}
                    /\ thread'[u].pc = "sync" => disk'[FileOf(u)'].ver = thread'[u].ver
  BY DEF Locked
<1> DEFINE Goal == /\ thread'[u].pc \in {"replace", "sync"} => lock'[FileOf(u)'] = {u}
                   /\ thread'[u].pc = "sync" => disk'[FileOf(u)'].ver = thread'[u].ver
<1> USE Nothing
<1>1. /\ thread[u].pc \in {"replace", "sync"} => lock[FileOf(u)] = {u}
      /\ thread[u].pc = "sync" => disk[FileOf(u)].ver = thread[u].ver
      /\ FileOf(u) \in Files
  BY FileTyped DEF Locked
<1>2. ASSUME NEW t \in Threads,
             \/ WriteStart(t) \/ ReadHit(t) \/ ReadMiss(t) \/ Extract(t) \/ ArtifactSync(t)
             \/ Commit(t) \/ Publish(t) \/ Load(t) \/ Install(t) \/ Drop(t)
      PROVE  Goal
  <2>1. UNCHANGED <<lock, disk>>
    BY <1>2 DEF WriteStart, ReadHit, ReadMiss, Extract, ArtifactSync, Commit, Publish, Load,
                Install, Drop, shared
  <2>2. CASE u = t
    <3>1. thread'[t].pc \notin {"replace", "sync"} \/ thread' = thread
      BY <1>2, Gone
    <3> QED
      BY <1>1, <2>1, <2>2, <3>1 DEF FileOf
  <2>3. CASE u # t
    BY <1>1, <1>2, <2>1, <2>3, Others DEF FileOf, Step
  <2> QED
    BY <2>2, <2>3
<1>3. ASSUME NEW t \in Threads, Lock(t) PROVE Goal
  <2>1. /\ disk' = disk /\ lock[FileOf(t)] = {} /\ FileOf(t) \in Files
        /\ lock' = [lock EXCEPT ![FileOf(t)] = {t}]
    BY <1>3, FileTyped DEF Lock, Free, shared
  <2>2. CASE u = t
    <3>1. thread'[u].pc = "replace" /\ FileOf(u)' = FileOf(t)
      BY <1>3, <2>2, Gone DEF FileOf
    <3> QED
      BY <2>1, <2>2, <3>1 DEF TypeOK
  <2>3. CASE u # t
    <3>1. thread'[u] = thread[u] /\ FileOf(u)' = FileOf(u)
      BY <1>3, <2>3, Others DEF FileOf, Step
    <3> QED
      BY <1>1, <2>1, <3>1 DEF TypeOK
  <2> QED
    BY <2>2, <2>3
<1>4. ASSUME NEW t \in Threads, Replace(t) PROVE Goal
  <2>1. /\ lock' = lock /\ lock[FileOf(t)] = {t} /\ FileOf(t) \in Files
        /\ disk' = [disk EXCEPT ![FileOf(t)] =
                      [path |-> thread[t].path, val |-> thread[t].val, ver |-> seq + 1,
                       intact |-> TRUE]]
    BY <1>4, FileTyped DEF Replace, Locked
  <2>2. CASE u = t
    <3>1. thread'[u].ver = seq + 1 /\ FileOf(u)' = FileOf(t)
      BY <1>4, <2>2, Gone DEF FileOf
    <3> QED
      BY <2>1, <2>2, <3>1 DEF TypeOK
  <2>3. CASE u # t
    <3>1. thread'[u] = thread[u] /\ FileOf(u)' = FileOf(u)
      BY <1>4, <2>3, Others DEF FileOf, Step
    <3> QED
      BY <1>1, <2>1, <2>3, <3>1 DEF TypeOK
  <2> QED
    BY <2>2, <2>3
<1>5. ASSUME NEW t \in Threads, Sync(t) \/ WriteFail(t) PROVE Goal
  <2>1. /\ disk' = disk /\ FileOf(t) \in Files
        /\ \A f \in Files \ {FileOf(t)} : lock'[f] = lock[f]
    BY <1>5, FileTyped DEF Sync, WriteFail, shared, TypeOK
  <2>2. CASE u = t
    BY <1>5, <2>2, Gone
  <2>3. CASE u # t
    <3>1. thread'[u] = thread[u] /\ FileOf(u)' = FileOf(u)
      BY <1>5, <2>3, Others DEF FileOf, Step
    <3>2. CASE Sync(t)
      <4>1. lock[FileOf(t)] = {t}
        BY <3>2 DEF Sync, Locked
      <4> QED
        BY <1>1, <2>1, <2>3, <3>1, <4>1
    <3>3. CASE WriteFail(t)
      <4>1. lock' = [lock EXCEPT ![FileOf(t)] = @ \ {t}]
        BY <3>3 DEF WriteFail
      <4> QED
        BY <1>1, <2>1, <2>3, <3>1, <4>1 DEF TypeOK
    <3> QED
      BY <1>5, <3>2, <3>3
  <2> QED
    BY <2>2, <2>3
<1>6. ASSUME NEW t \in Threads, Remove(t) PROVE Goal
  <2>1. /\ lock' = lock /\ lock[FileOf(t)] = {} /\ FileOf(t) \in Files
        /\ disk' = [disk EXCEPT ![FileOf(t)] = NoFile]
    BY <1>6, FileTyped DEF Remove, Free
  <2>2. CASE u = t
    BY <1>6, <2>2, Gone
  <2>3. CASE u # t
    <3>1. thread'[u] = thread[u] /\ FileOf(u)' = FileOf(u)
      BY <1>6, <2>3, Others DEF FileOf, Step
    <3> QED
      BY <1>1, <2>1, <3>1 DEF TypeOK
  <2> QED
    BY <2>2, <2>3
<1>7. ASSUME NEW p \in Processes, Crash(p) PROVE Goal
  <2>1. disk' = disk /\ Die({p})
    BY <1>7 DEF Crash, shared
  <2> QED
    BY <1>1, <2>1, Dead DEF FileOf
<1>8. ASSUME PowerLoss PROVE Goal
  <2>1. thread'[u] = IdleThread
    BY <1>8, VfsAssumption DEF PowerLoss, Die, TypeOK
  <2> QED
    BY <2>1
<1>9. ASSUME NEW f \in Files, Damage(f) PROVE Goal
  <2>1. lock' = lock /\ thread' = thread /\ disk' = [disk EXCEPT ![f].intact = FALSE]
    BY <1>9 DEF Damage
  <2>2. \A g \in Files : disk'[g].ver = disk[g].ver
    BY <2>1 DEF TypeOK, Content
  <2> QED
    BY <1>1, <2>1, <2>2 DEF FileOf
<1>10. ASSUME NEW p \in Processes, NEW f \in Files, RecoverFile(p, f) PROVE Goal
  BY <1>1, <1>10 DEF RecoverFile, shared, FileOf
<1>11. ASSUME UNCHANGED vars PROVE Goal
  BY <1>1, <1>11 DEF vars, shared, FileOf
<1> HIDE DEF Goal
<1>12. ASSUME NEW t \in Threads,
              WriteStart(t) \/ ReadHit(t) \/ ReadMiss(t) \/ Step(t) \/ WriteFail(t)
       PROVE  Goal
  BY <1>2, <1>3, <1>4, <1>5, <1>6, <1>12 DEF Step
<1>13. Goal
  BY <1>7, <1>8, <1>9, <1>10, <1>11, <1>12 DEF Next
<1> QED
  BY <1>13 DEF Goal

\* A version that waits for its COMMIT record is on disk and synced, unless removed; and
\* what has its COMMIT record stays so.
LEMMA VersionsStep ==
    TypeOK /\ Locked /\ Versions /\ CommitsSurvive /\ [Next]_vars => Versions' /\ CommitsSurvive'
<1> SUFFICES ASSUME TypeOK, Locked, Versions, CommitsSurvive, [Next]_vars
             PROVE  Versions' /\ CommitsSurvive'
  OBVIOUS
<1> DEFINE Safe(u) ==
             /\ thread[u].ver <= seq
             /\ thread[u].pc = "commit" /\ thread[u].ver > removed[FileOf(u)] =>
                  /\ disk[FileOf(u)].ver >= thread[u].ver
                  /\ durable[FileOf(u)].ver >= thread[u].ver
           Kept(f) ==
             /\ disk[f].ver <= seq /\ durable[f].ver <= seq
             /\ acked[f] > 0 => disk[f].ver >= acked[f] /\ durable[f].ver >= acked[f]
           Goal == (\A f \in Files : Kept(f)') /\ (\A u \in Threads : Safe(u)')
<1> USE Nothing
<1>1. (\A f \in Files : Kept(f)) /\ (\A u \in Threads : Safe(u))
  BY DEF Versions, CommitsSurvive
<1>2. /\ seq \in Nat
      /\ \A f \in Files : /\ disk[f].ver \in Nat /\ durable[f].ver \in Nat
                          /\ acked[f] \in Nat /\ removed[f] \in Nat
      /\ \A u \in Threads : thread[u].ver \in Nat /\ FileOf(u) \in Files
  BY FileTyped DEF TypeOK, Content, Thread
<1>3. ASSUME NEW t \in Threads,
             \/ WriteStart(t) \/ ReadHit(t) \/ ReadMiss(t) \/ WriteFail(t) \/ Extract(t)
             \/ ArtifactSync(t) \/ Lock(t) \/ Publish(t) \/ Load(t) \/ Install(t) \/ Drop(t)
      PROVE  Goal
  <2>1. UNCHANGED <<disk, durable, seq, acked, removed>>
    BY <1>3 DEF WriteStart, ReadHit, ReadMiss, WriteFail, Extract, ArtifactSync, Lock, Publish,
                Load, Install, Drop, shared, history
  <2>2. ASSUME NEW u \in Threads PROVE Safe(u)'
    <3>1. CASE u = t
      <4>1. \/ thread' = thread
            \/ /\ thread'[t].ver \in {thread[t].ver, 0}
               /\ thread'[t].pc # "commit"
        BY <1>3, Gone
      <4> QED
        BY <1>1, <1>2, <2>1, <3>1, <4>1 DEF FileOf
    <3>2. CASE u # t
      <4>1. thread'[u] = thread[u]
        BY <1>3, <3>2, Others DEF Step
      <4> QED
        BY <1>1, <2>1, <4>1 DEF FileOf
    <3> QED
      BY <3>1, <3>2
  <2>3. \A f \in Files : Kept(f)'
    BY <1>1, <2>1
  <2> QED
    BY <2>2, <2>3
<1>4. ASSUME NEW t \in Threads, Replace(t) PROVE Goal
  <2>1. /\ UNCHANGED <<durable, acked, removed>> /\ seq' = seq + 1
        /\ \A f \in Files : disk'[f].ver = IF f = FileOf(t) THEN seq + 1 ELSE disk[f].ver
    BY <1>4 DEF Replace, history, TypeOK
  <2>2. ASSUME NEW u \in Threads PROVE Safe(u)'
    <3>1. CASE u = t
      BY <1>2, <1>4, <2>1, <3>1, Gone
    <3>2. CASE u # t
      <4>1. thread'[u] = thread[u] /\ FileOf(u)' = FileOf(u)
        BY <1>4, <3>2, Others DEF Step, FileOf
      <4> QED
        BY <1>1, <1>2, <2>1, <4>1
    <3> QED
      BY <3>1, <3>2
  <2>3. \A f \in Files : Kept(f)'
    BY <1>1, <1>2, <2>1
  <2> QED
    BY <2>2, <2>3
<1>5. ASSUME NEW t \in Threads, Sync(t) PROVE Goal
  <2>1. UNCHANGED <<disk, seq, acked, removed>> /\ durable' = disk
    BY <1>5 DEF Sync, history
  <2>2. ASSUME NEW u \in Threads PROVE Safe(u)'
    <3>1. CASE u = t
      <4>1. thread'[u].ver = thread[u].ver /\ FileOf(u)' = FileOf(u)
        BY <1>5, <3>1, Gone DEF FileOf
      <4>2. disk[FileOf(u)].ver = thread[u].ver
        BY <1>5, <3>1 DEF Sync, Locked
      <4> QED
        BY <1>1, <1>2, <2>1, <4>1, <4>2
    <3>2. CASE u # t
      <4>1. thread'[u] = thread[u] /\ FileOf(u)' = FileOf(u)
        BY <1>5, <3>2, Others DEF Step, FileOf
      <4> QED
        BY <1>1, <1>2, <2>1, <4>1
    <3> QED
      BY <3>1, <3>2
  <2>3. \A f \in Files : Kept(f)'
    BY <1>1, <1>2, <2>1
  <2> QED
    BY <2>2, <2>3
<1>6. ASSUME NEW t \in Threads, Commit(t) PROVE Goal
  <2>1. /\ UNCHANGED <<disk, durable, seq, removed>> /\ thread[t].pc = "commit"
        /\ \A f \in Files : \/ acked'[f] = acked[f]
                            \/ f = FileOf(t) /\ acked'[f] = thread[t].ver
                                 /\ thread[t].ver > removed[f]
    BY <1>6 DEF Commit, shared, TypeOK
  <2>2. ASSUME NEW u \in Threads PROVE Safe(u)'
    <3>1. CASE u = t
      BY <1>1, <1>2, <1>6, <2>1, <3>1, Gone
    <3>2. CASE u # t
      <4>1. thread'[u] = thread[u] /\ FileOf(u)' = FileOf(u)
        BY <1>6, <3>2, Others DEF Step, FileOf
      <4> QED
        BY <1>1, <1>2, <2>1, <4>1
    <3> QED
      BY <3>1, <3>2
  <2>3. \A f \in Files : Kept(f)'
    BY <1>1, <1>2, <2>1
  <2> QED
    BY <2>2, <2>3
<1>7. ASSUME NEW t \in Threads, Remove(t) PROVE Goal
  <2>1. UNCHANGED <<durable, seq>>
    BY <1>7 DEF Remove
  <2>2. \A f \in Files :
          \/ disk'[f].ver = disk[f].ver /\ acked'[f] = acked[f] /\ removed'[f] = removed[f]
          \/ f = FileOf(t) /\ disk'[f].ver = 0 /\ acked'[f] = 0 /\ removed'[f] = seq
    <3>1. \A f \in Files : disk'[f] = IF f = FileOf(t) THEN NoFile ELSE disk[f]
      BY <1>7 DEF Remove, TypeOK
    <3>2. CASE Exists(disk[FileOf(t)])
      BY <1>7, <3>1, <3>2 DEF Remove, TypeOK
    <3>3. CASE ~Exists(disk[FileOf(t)])
      <4>1. acked' = acked /\ removed' = removed
        BY <1>7, <3>3 DEF Remove
      <4>2. disk[FileOf(t)].ver = 0
        BY <1>2, <3>3 DEF Exists
      <4> QED
        BY <3>1, <4>1, <4>2
    <3> QED
      BY <3>2, <3>3
  <2>3. ASSUME NEW u \in Threads PROVE Safe(u)'
    <3>1. CASE u = t
      BY <1>1, <1>2, <1>7, <2>1, <3>1, Gone
    <3>2. CASE u # t
      <4>1. thread'[u] = thread[u] /\ FileOf(u)' = FileOf(u)
        BY <1>7, <3>2, Others DEF Step, FileOf
      <4> QED
        BY <1>1, <1>2, <2>1, <2>2, <4>1
    <3> QED
      BY <3>1, <3>2
  <2>4. \A f \in Files : Kept(f)'
    BY <1>1, <1>2, <2>1, <2>2
  <2> QED
    BY <2>3, <2>4
<1>8. ASSUME NEW p \in Processes, Crash(p) PROVE Goal
  <2>1. UNCHANGED <<disk, durable, seq, acked, removed>> /\ Die({p})
    BY <1>8 DEF Crash, shared, history
  <2>2. ASSUME NEW u \in Threads PROVE Safe(u)'
    <3>1. thread'[u] = thread[u] \/ thread'[u] = IdleThread
      BY <2>1, Dead
    <3> QED
      BY <1>1, <1>2, <2>1, <3>1 DEF FileOf
  <2> QED
    BY <1>1, <2>1, <2>2
<1>9. ASSUME PowerLoss PROVE Goal
  <2>1. /\ UNCHANGED <<seq, acked, removed>> /\ durable' = disk'
        /\ \A f \in Files : disk'[f] \in {disk[f], durable[f]}
        /\ \A u \in Threads : thread'[u] = IdleThread
    BY <1>9, VfsAssumption DEF PowerLoss, Die, TypeOK
  <2> QED
    BY <1>1, <1>2, <2>1
<1>10. ASSUME NEW f \in Files, Damage(f) PROVE Goal
  <2>1. UNCHANGED <<seq, thread, acked, removed>>
    BY <1>10 DEF Damage, history
  <2>2. \A g \in Files : disk'[g].ver = disk[g].ver
    BY <1>10 DEF Damage, TypeOK, Content
  <2>3. \A g \in Files : durable'[g].ver = durable[g].ver
    BY <1>10 DEF Damage, TypeOK, Content
  <2> QED
    BY <1>1, <1>2, <2>1, <2>2, <2>3 DEF FileOf
<1>11. ASSUME NEW p \in Processes, NEW f \in Files, RecoverFile(p, f) PROVE Goal
  BY <1>1, <1>11 DEF RecoverFile, shared, history, FileOf
<1>12. ASSUME UNCHANGED vars PROVE Goal
  BY <1>1, <1>12 DEF vars, shared, history, FileOf
<1>13. Goal => Versions' /\ CommitsSurvive'
  BY DEF Versions, CommitsSurvive
<1> HIDE DEF Goal
<1>14. ASSUME NEW t \in Threads,
              WriteStart(t) \/ ReadHit(t) \/ ReadMiss(t) \/ Step(t) \/ WriteFail(t)
       PROVE  Goal
  BY <1>3, <1>4, <1>5, <1>6, <1>7, <1>14 DEF Step
<1>15. Goal
  BY <1>8, <1>9, <1>10, <1>11, <1>12, <1>14 DEF Next
<1> QED
  BY <1>13, <1>15

\* Without a power loss, no step leaves a checkpoint, a node or a thread with a text that has
\* no file: a writer moves the text's file into place first, and nobody removes one.
LEMMA TextsStep ==
    TypeOK /\ TextsKept /\ ThreadTexts /\ [Next]_vars => TextsKept' /\ ThreadTexts'
<1> SUFFICES ASSUME TypeOK, TextsKept, ThreadTexts, [Next]_vars, ~outage'
             PROVE  TextsKept' /\ ThreadTexts'
  BY DEF TextsKept, ThreadTexts
<1> DEFINE HasFile(v) == v \in Large => v \in artifacts
           Sound(c) == Exists(c) => HasFile(c.val)
           Writing(u) == thread[u].pc \in {"artifact", "lock", "replace", "sync", "commit",
                                           "publish"}
           Held(u) == (Writing(u) => HasFile(thread[u].val)) /\ Sound(thread[u].found.file)
           Goal == /\ \A f \in Files : Sound(disk[f])'
                   /\ \A p \in Processes, q \in Paths : Sound(node[p][q].file)'
                   /\ \A u \in Threads : Held(u)'
<1> USE Nothing
<1>1. Goal => TextsKept' /\ ThreadTexts'
  BY DEF TextsKept, ThreadTexts
<1>2. ~outage
  BY DEF Next, Step, WriteStart, ReadHit, ReadMiss, WriteFail, Extract, ArtifactSync, Lock,
         Replace, Sync, Commit, Publish, Load, Install, Remove, Drop, Crash, PowerLoss,
         RecoverFile, Damage, vars, history
<1>3. /\ \A f \in Files : Sound(disk[f])
      /\ \A p \in Processes, q \in Paths : Sound(node[p][q].file)
      /\ \A u \in Threads : Held(u)
  BY <1>2 DEF TextsKept, ThreadTexts
<1>4. ~Exists(NoFile) /\ Sound(NoFile)
  BY DEF Exists
<1>5. /\ \A f \in Files : disk[f] \in Content
      /\ \A p \in Processes, q \in Paths : node[p][q] \in Node
      /\ \A u \in Threads : /\ thread[u] \in Thread /\ FileOf(u) \in Files
                            /\ ProcessOf[u] \in Processes /\ thread[u].path \in Paths
  BY FileTyped, VfsAssumption DEF TypeOK, Thread
\* What is left to prove of a step of t: its own texts, and those that it put elsewhere
<1>6. ASSUME NEW t \in Threads,
             WriteStart(t) \/ ReadHit(t) \/ ReadMiss(t) \/ WriteFail(t) \/ Step(t),
             artifacts \subseteq artifacts', Held(t)',
             \A f \in Files : disk'[f] = disk[f] \/ Sound(disk[f])',
             \A p \in Processes, q \in Paths :
                 node'[p][q].file = node[p][q].file \/ Sound(node[p][q].file)'
      PROVE  Goal
  <2>1. ASSUME NEW u \in Threads PROVE Held(u)'
    <3>1. u = t \/ thread'[u] = thread[u]
      BY <1>6, Others
    <3> QED
      BY <1>3, <1>6, <3>1
  <2> QED
    BY <1>3, <1>6, <2>1
<1>7. ASSUME NEW t \in Threads, WriteStart(t) PROVE Goal
  <2>1. thread'[t].found = NodeOf(NoFile) /\ thread'[t].pc = "extract"
    <3>1. PICK p \in Paths, v \in Values :
            thread'[t] = [IdleThread EXCEPT !.pc = "extract", !.path = p, !.val = v]
      BY <1>7, <1>5 DEF WriteStart, TypeOK
    <3> QED
      BY <3>1 DEF Thread
  <2>2. Held(t)'
    BY <1>4, <2>1 DEF Exists
  <2> QED
    BY <1>6, <1>7, <2>2 DEF WriteStart, shared
<1>8. ASSUME NEW t \in Threads, ReadMiss(t) PROVE Goal
  <2>1. thread'[t].found = NodeOf(NoFile) /\ thread'[t].pc = "load"
    BY <1>5, <1>8 DEF ReadMiss, TypeOK, Thread
  <2>2. Held(t)'
    BY <1>4, <2>1 DEF Exists
  <2> QED
    BY <1>6, <1>8, <2>2 DEF ReadMiss, shared
<1>9. ASSUME NEW t \in Threads, WriteFail(t) PROVE Goal
  <2>1. Held(t)'
    BY <1>4, <1>9, Gone DEF Exists
  <2> QED
    BY <1>6, <1>9, <2>1 DEF WriteFail, shared
<1>10. ASSUME NEW t \in Threads, Extract(t) PROVE Goal
  <2>1. artifacts' = artifacts \cup ({thread[t].val} \cap Large) /\ disk' = disk /\ node' = node
    BY <1>10 DEF Extract
  <2>2. thread'[t].val = thread[t].val /\ thread'[t].found = thread[t].found
    BY <1>5, <1>10 DEF Extract, Goto, TypeOK, Thread
  <2>3. Held(t)'
    BY <1>3, <2>1, <2>2 DEF Exists
  <2> QED
    BY <1>6, <1>10, <2>1, <2>3 DEF Step
<1>11. ASSUME NEW t \in Threads,
              ArtifactSync(t) \/ Lock(t) \/ Sync(t) \/ Commit(t)
       PROVE  Goal
  <2>1. artifacts' = artifacts /\ disk' = disk /\ node' = node
    BY <1>11 DEF ArtifactSync, Lock, Sync, Commit, shared
  <2>2. thread'[t].val = thread[t].val /\ thread'[t].found = thread[t].found
    BY <1>5, <1>11 DEF ArtifactSync, Lock, Sync, Commit, Goto, TypeOK, Thread
  <2>3. Writing(t)
    BY <1>11 DEF ArtifactSync, Lock, Sync, Commit
  <2>4. Held(t)'
    BY <1>3, <2>1, <2>2, <2>3 DEF Exists
  <2> QED
    BY <1>6, <1>11, <2>1, <2>4 DEF Step
<1>12. ASSUME NEW t \in Threads, Replace(t) PROVE Goal
  <2>1. /\ artifacts' = artifacts /\ node' = node /\ Writing(t)
        /\ thread'[t].val = thread[t].val /\ thread'[t].found = thread[t].found
        /\ \A f \in Files : disk'[f].val = thread[t].val \/ disk'[f] = disk[f]
    BY <1>5, <1>12 DEF Replace, TypeOK, Thread
  <2>2. Held(t)' /\ \A f \in Files : disk'[f] = disk[f] \/ Sound(disk[f])'
    BY <1>3, <2>1 DEF Exists
  <2> QED
    BY <1>6, <1>12, <2>1, <2>2 DEF Step
<1>13. ASSUME NEW t \in Threads, Publish(t) PROVE Goal
  <2> DEFINE c == [path |-> thread[t].path, val |-> thread[t].val, ver |-> thread[t].ver,
                   intact |-> TRUE]
  <2>1. /\ artifacts' = artifacts /\ disk' = disk /\ Writing(t)
        /\ node' = [node EXCEPT ![ProcessOf[t]][thread[t].path] = NodeOf(c)]
    BY <1>13 DEF Publish, shared
  <2>2. NodeOf(c).file = c /\ c.val = thread[t].val
    BY DEF NodeOf
  <2> HIDE DEF c
  <2>3. \A p \in Processes, q \in Paths : node'[p][q] = NodeOf(c) \/ node'[p][q] = node[p][q]
    BY <1>5, <2>1 DEF TypeOK
  <2>4. \A p \in Processes, q \in Paths :
          node'[p][q].file = node[p][q].file \/ Sound(node[p][q].file)'
    BY <1>3, <2>1, <2>2, <2>3
  <2>5. Held(t)'
    BY <1>4, <1>13, Gone
  <2> QED
    BY <1>6, <1>13, <2>1, <2>4, <2>5 DEF Step
<1>14. ASSUME NEW n \in Node PROVE Injected(n).file = n.file
  BY DEF Injected, Node
<1>15. ASSUME NEW t \in Threads, ReadHit(t) PROVE Goal
  <2> DEFINE p0 == ProcessOf[t]
             removing(q) == [IdleThread EXCEPT !.pc = "remove", !.path = q]
  <2>1. artifacts' = artifacts /\ disk' = disk
    BY <1>15 DEF ReadHit, shared
  <2>2. PICK p \in Paths :
          \/ node' = [node EXCEPT ![p0][p] = Injected(node[p0][p])] /\ thread' = thread
          \/ thread' = [thread EXCEPT ![t] = removing(p)] /\ node' = node
    BY <1>15 DEF ReadHit
  <2>3. removing(p).pc = "remove" /\ removing(p).found = NodeOf(NoFile)
    BY DEF Thread
  <2>4. Injected(node[p0][p]).file = node[p0][p].file
    BY <1>5, <1>14
  <2> HIDE DEF removing, p0
  <2>5. \A q \in Processes, r \in Paths : node'[q][r].file = node[q][r].file
    <3>1. node \in [Processes -> [Paths -> Node]]
      BY DEF TypeOK
    <3>2. \/ node' = node
          \/ \E m : /\ m.file = node[p0][p].file
                   /\ node' = [node EXCEPT ![p0][p] = m]
      BY <2>2, <2>4
    <3> QED
      BY <3>1, <3>2
  <2>6. thread'[t] = thread[t] \/ thread'[t] = removing(p)
    BY <1>5, <2>2 DEF TypeOK
  <2>7. Held(t)'
    <3>1. CASE thread'[t] = thread[t]
      BY <1>3, <2>1, <3>1
    <3>2. CASE thread'[t] = removing(p)
      BY <1>4, <2>3, <3>2
    <3> QED
      BY <2>6, <3>1, <3>2
  <2> QED
    BY <1>6, <1>15, <2>1, <2>5, <2>7
<1>16. ASSUME NEW t \in Threads, Load(t) PROVE Goal
  <2> DEFINE loaded == [thread[t] EXCEPT !.pc = "install", !.found = NodeOf(disk[FileOf(t)])]
  <2>1. artifacts' = artifacts /\ disk' = disk /\ node' = node
    BY <1>16 DEF Load, shared
  <2>2. loaded.pc = "install" /\ loaded.found.file = disk[FileOf(t)]
    BY <1>5 DEF Thread, NodeOf
  <2>3. thread'[t] = IdleThread \/ thread'[t] = loaded
    BY <1>5, <1>16 DEF Load, Return, TypeOK
  <2> HIDE DEF loaded
  <2>4. Held(t)'
    BY <1>3, <1>4, <1>5, <2>1, <2>2, <2>3 DEF Exists
  <2> QED
    BY <1>6, <1>16, <2>1, <2>4 DEF Step
<1>17. ASSUME NEW t \in Threads, Install(t) PROVE Goal
  <2> DEFINE n == thread[t].found
             removing == [thread[t] EXCEPT !.pc = "remove"]
  <2>1. artifacts' = artifacts /\ disk' = disk
    BY <1>17 DEF Install, shared
  <2>2. n \in Node /\ removing.pc = "remove" /\ removing.found = n
    BY <1>5 DEF Thread
  <2>3. PICK m : /\ m = Injected(n) \/ m = n
                 /\ node' = [node EXCEPT ![ProcessOf[t]][thread[t].path] = m]
    BY <1>17 DEF Install
  <2>4. thread'[t] = IdleThread \/ thread'[t] = removing
    BY <1>5, <1>17 DEF Install, Return, Goto, TypeOK
  <2>5. m.file = n.file
    BY <1>14, <2>2, <2>3
  <2>6. \A p \in Processes, q \in Paths : node'[p][q] = m \/ node'[p][q] = node[p][q]
    BY <1>5, <2>3 DEF TypeOK
  <2>7. \A p \in Processes, q \in Paths :
          node'[p][q].file = node[p][q].file \/ Sound(node[p][q].file)'
    BY <1>3, <2>1, <2>5, <2>6
  <2> HIDE DEF removing
  <2>8. Held(t)'
    BY <1>3, <1>4, <2>1, <2>2, <2>4
  <2> QED
    BY <1>6, <1>17, <2>1, <2>7, <2>8 DEF Step
<1>18. ASSUME NEW t \in Threads, Remove(t) PROVE Goal
  <2>1. /\ artifacts' = artifacts /\ node' = node
        /\ \A f \in Files : disk'[f] = NoFile \/ disk'[f] = disk[f]
    BY <1>18 DEF Remove, TypeOK
  <2>2. thread'[t].pc = "drop" /\ thread'[t].found = thread[t].found
    BY <1>5, <1>18 DEF Remove, Goto, TypeOK, Thread
  <2>3. Held(t)' /\ \A f \in Files : disk'[f] = disk[f] \/ Sound(disk[f])'
    BY <1>3, <1>4, <2>1, <2>2
  <2> QED
    BY <1>6, <1>18, <2>1, <2>3 DEF Step
<1>19. ASSUME NEW t \in Threads, Drop(t) PROVE Goal
  <2>1. artifacts' = artifacts /\ disk' = disk
    BY <1>19 DEF Drop, shared
  <2>2. \A p \in Processes, q \in Paths :
          node'[p][q] = NodeOf(NoFile) \/ node'[p][q] = node[p][q]
    BY <1>5, <1>19 DEF Drop, TypeOK
  <2>3. \A p \in Processes, q \in Paths :
          node'[p][q].file = node[p][q].file \/ Sound(node[p][q].file)'
    BY <1>4, <2>2
  <2>4. Held(t)'
    BY <1>4, <1>19, Gone
  <2> QED
    BY <1>6, <1>19, <2>1, <2>3, <2>4 DEF Step
<1>20. ASSUME NEW p \in Processes, Crash(p) PROVE Goal
  <2>1. artifacts' = artifacts /\ disk' = disk /\ Die({p})
    BY <1>20 DEF Crash, shared
  <2>2. \A u \in Threads : thread'[u] = thread[u] \/ thread'[u] = IdleThread
    BY <2>1, Dead
  <2>3. \A q \in Processes, r \in Paths :
          node'[q][r] = NodeOf(NoFile) \/ node'[q][r] = node[q][r]
    BY <1>5, <2>1 DEF Die, NoNodes
  <2>4. \A u \in Threads : Held(u)'
    BY <1>3, <1>4, <2>1, <2>2
  <2> QED
    BY <1>3, <1>4, <2>1, <2>3, <2>4
<1>21. ASSUME PowerLoss PROVE Goal
  BY <1>21 DEF PowerLoss
<1>22. ASSUME NEW p \in Processes, NEW f \in Files, RecoverFile(p, f) PROVE Goal
  <2>1. artifacts' = artifacts /\ disk' = disk /\ thread' = thread
    BY <1>22 DEF RecoverFile, shared
  <2>2. \A q \in Processes, r \in Paths :
          node'[q][r] = NodeOf(disk[f]) \/ node'[q][r] = node[q][r]
    BY <1>5, <1>22 DEF RecoverFile, TypeOK
  <2>3. NodeOf(disk[f]).file = disk[f]
    BY DEF NodeOf
  <2> QED
    BY <1>3, <2>1, <2>2, <2>3
<1>23. ASSUME NEW f \in Files, Damage(f) PROVE Goal
  <2>1. artifacts' = artifacts /\ node' = node /\ thread' = thread
    BY <1>23 DEF Damage
  <2>2. \A g \in Files : disk'[g].val = disk[g].val /\ disk'[g].ver = disk[g].ver
    BY <1>5, <1>23 DEF Damage, TypeOK, Content
  <2> QED
    BY <1>3, <2>1, <2>2 DEF Exists
<1>24. ASSUME UNCHANGED vars PROVE Goal
  BY <1>3, <1>24 DEF vars, shared
<1> HIDE DEF Goal
<1>25. ASSUME NEW t \in Threads,
              WriteStart(t) \/ ReadHit(t) \/ ReadMiss(t) \/ Step(t) \/ WriteFail(t)
       PROVE  Goal
  BY <1>7, <1>8, <1>9, <1>10, <1>11, <1>12, <1>13, <1>15, <1>16, <1>17, <1>18, <1>19, <1>25
     DEF Step
<1>26. Goal
  BY <1>20, <1>21, <1>22, <1>23, <1>24, <1>25 DEF Next
<1> QED
  BY <1>1, <1>26

-----------------------------------------------------------------------------

\* The invariant holds in every state: types, locks, versions and texts support each other.
THEOREM Invariant == Spec => []IndInv
<1>1. Init => IndInv
  <2> SUFFICES ASSUME Init PROVE IndInv
    OBVIOUS
  <2> USE Nothing
  <2>1. TypeOK
    BY DEF Init, TypeOK, NoNodes
  <2>2. Locked /\ Versions
    BY DEF Init, Locked, Versions
  <2>3. CommitsSurvive /\ TextsKept /\ ThreadTexts
    BY DEF Init, CommitsSurvive, TextsKept, ThreadTexts, Exists, NoNodes
  <2> QED
    BY <2>1, <2>2, <2>3 DEF IndInv
<1>2. IndInv /\ [Next]_vars => IndInv'
  BY TypeStep, LockedStep, VersionsStep, TextsStep DEF IndInv
<1> QED
  BY <1>1, <1>2, PTL DEF Spec

\* Every variable, file, node and local of a call has its type; a file's lock has one holder.
THEOREM TypeCorrect == Spec => []TypeOK
<1>1. IndInv => TypeOK
  BY DEF IndInv
<1> QED
  BY <1>1, Invariant, PTL

\* A checkpoint with a COMMIT record survives other writers, failures, crashes and power
\* losses (write_state, atomic_write), until a reader removes it.
THEOREM CommitsCorrect == Spec => []CommitsSurvive
<1>1. IndInv => CommitsSurvive
  BY DEF IndInv
<1> QED
  BY <1>1, Invariant, PTL

\* A text moved out of a checkpoint is there for every reader, wherever processes die
\* (_extract_artifacts before the checkpoint's atomic_write).
THEOREM TextsCorrect == Spec => []TextsKept
<1>1. IndInv => TextsKept
  BY DEF IndInv
<1> QED
  BY <1>1, Invariant, PTL
=============================================================================
