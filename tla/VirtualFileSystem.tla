------------------------- MODULE VirtualFileSystem -------------------------
(***************************************************************************)
(* The checkpoint store of the agent kernel (core/unified_vfs.py): a file  *)
(* per path, large texts of its content moved to files of their own        *)
(* (artifacts), and in every process a dictionary of the nodes it has      *)
(* written, read or recovered.                                             *)
(*                                                                         *)
(* Orchestrators run in several processes on one disk, and in several      *)
(* threads of a process (the API server's thread pool, the listeners).     *)
(* A process may die at any step; after a power loss the disk has what was *)
(* synced, and anything, all or nothing, of what was not.                  *)
(*                                                                         *)
(* A node's content is one of Values; those in Large have a text of more   *)
(* than 2048 characters.  The journal is written and never read: it is     *)
(* left out, but for the moment its COMMIT record is on disk.  fsync_dir   *)
(* does its work: the code passes over an error of it in silence.          *)
(***************************************************************************)
EXTENDS Naturals

CONSTANTS
    Processes, Threads,
    ProcessOf,       \* the process of a thread
    Paths, Files,
    SafePath,        \* the file of a path: its separators become underscores
    Values, Large,
    MaxWrites        \* bound on the writes, for model checking

ASSUME VfsAssumption ==
    /\ ProcessOf \in [Threads -> Processes]
    /\ SafePath \in [Paths -> Files]
    /\ Paths # {}
    /\ Values # {}
    /\ Large \subseteq Values
    /\ MaxWrites \in Nat

VARIABLES
    disk,            \* per file, what is in the directory
    durable,         \* per file, what was when the directory was last synced
    artifacts,       \* large texts that have a file
    synced,          \* those whose directory has been synced since
    lock,            \* per file, who holds its flock
    node,            \* _nodes, per process and path
    todo,            \* per process, files still to recover: it is up when there are none
    thread,          \* per thread, the call in progress: its locals
    seq,             \* number of checkpoint files moved into place: their versions
    acked,           \* per file, the newest version with a COMMIT record, unless removed
    removed,         \* per file, the newest version when it was last removed
    outage           \* has there been a power loss?

shared == <<disk, durable, artifacts, synced>>
history == <<acked, removed, outage>>
vars == <<shared, lock, node, todo, thread, seq, history>>

-----------------------------------------------------------------------------

\* A checkpoint file; version 0 stands for none
Content == [path : Paths, val : Values, ver : Nat, intact : BOOLEAN]

NoFile == [path |-> CHOOSE p \in Paths : TRUE, val |-> CHOOSE v \in Values : TRUE,
           ver |-> 0, intact |-> TRUE]

\* texts: the artifacts' texts have been put back into the node's own content
Node == [file : Content, texts : BOOLEAN]

NodeOf(c) == [file |-> c, texts |-> FALSE]

Thread ==
    [pc    : {"idle", "extract", "artifact", "lock", "replace", "sync", "commit", "publish",
              "load", "install", "remove", "drop"},
     path  : Paths,
     val   : Values,
     ver   : Nat,
     found : Node]

IdleThread == [pc |-> "idle", path |-> NoFile.path, val |-> NoFile.val, ver |-> 0,
               found |-> NodeOf(NoFile)]

TypeOK ==
    /\ disk \in [Files -> Content]
    /\ durable \in [Files -> Content]
    /\ artifacts \subseteq Large
    /\ synced \subseteq artifacts
    /\ lock \in [Files -> {{}} \cup {{t} : t \in Threads}]
    /\ node \in [Processes -> [Paths -> Node]]
    /\ todo \in [Processes -> SUBSET Files]
    /\ thread \in [Threads -> Thread]
    /\ seq \in Nat
    /\ acked \in [Files -> Nat]
    /\ removed \in [Files -> Nat]
    /\ outage \in BOOLEAN

NoNodes == [p \in Paths |-> NodeOf(NoFile)]

Init ==
    /\ disk = [f \in Files |-> NoFile]
    /\ durable = disk
    /\ artifacts = {}
    /\ synced = {}
    /\ lock = [f \in Files |-> {}]
    /\ node = [p \in Processes |-> NoNodes]
    /\ todo = [p \in Processes |-> Files]
    /\ thread = [t \in Threads |-> IdleThread]
    /\ seq = 0
    /\ acked = [f \in Files |-> 0]
    /\ removed = [f \in Files |-> 0]
    /\ outage = FALSE

Exists(c) == c.ver > 0

FileOf(t) == SafePath[thread[t].path]

Free(t) == lock[FileOf(t)] = {}

Goto(t, pc) == thread' = [thread EXCEPT ![t].pc = pc]

Return(t) == thread' = [thread EXCEPT ![t] = IdleThread]

\* t has no call in progress and its process is up
Ready(t) == thread[t].pc = "idle" /\ todo[ProcessOf[t]] = {}

-----------------------------------------------------------------------------
(* write_state                                                             *)

WriteStart(t) ==
    /\ Ready(t)
    /\ seq < MaxWrites
    /\ \E p \in Paths, v \in Values :
         thread' = [thread EXCEPT ![t] =
                      [IdleThread EXCEPT !.pc = "extract", !.path = p, !.val = v]]
    /\ UNCHANGED <<shared, lock, node, todo, seq, history>>

\* Mutant: the text is cut out of the content and kept nowhere
ExtractLosing(t) ==
    /\ thread[t].pc = "extract"
    /\ Goto(t, "lock")
    /\ UNCHANGED <<shared, lock, node, todo, seq, history>>

\* _extract_artifacts moves the artifact into place, unless it exists
Extract(t) ==
    /\ thread[t].pc = "extract"
    /\ artifacts' = artifacts \cup ({thread[t].val} \cap Large)
    /\ Goto(t, IF artifacts' = artifacts THEN "lock" ELSE "artifact")
    /\ UNCHANGED <<disk, durable, synced, lock, node, todo, seq, history>>

\* and syncs its directory; the WRITE record follows
ArtifactSync(t) ==
    /\ thread[t].pc = "artifact"
    /\ synced' = artifacts
    /\ Goto(t, "lock")
    /\ UNCHANGED <<disk, durable, artifacts, lock, node, todo, seq, history>>

\* Mutant: a shared lock, as acquire_read takes
LockShared(t) ==
    /\ thread[t].pc = "lock"
    /\ lock' = [lock EXCEPT ![FileOf(t)] = @ \cup {t}]
    /\ Goto(t, "replace")
    /\ UNCHANGED <<shared, node, todo, seq, history>>

Lock(t) ==
    /\ thread[t].pc = "lock"
    /\ Free(t)
    /\ lock' = [lock EXCEPT ![FileOf(t)] = {t}]
    /\ Goto(t, "replace")
    /\ UNCHANGED <<shared, node, todo, seq, history>>

\* atomic_write: a temporary file, written and synced, takes the place of the old one
Replace(t) ==
    /\ thread[t].pc = "replace"
    /\ seq' = seq + 1
    /\ disk' = [disk EXCEPT ![FileOf(t)] =
                  [path |-> thread[t].path, val |-> thread[t].val, ver |-> seq', intact |-> TRUE]]
    /\ thread' = [thread EXCEPT ![t].pc = "sync", ![t].ver = seq']
    /\ UNCHANGED <<durable, artifacts, synced, lock, node, todo, history>>

\* Mutant: atomic_write without fsync_dir
SyncSkipped(t) ==
    /\ thread[t].pc = "sync"
    /\ lock' = [lock EXCEPT ![FileOf(t)] = {}]
    /\ Goto(t, "commit")
    /\ UNCHANGED <<shared, node, todo, seq, history>>

\* fsync_dir, and the lock is released
Sync(t) ==
    /\ thread[t].pc = "sync"
    /\ durable' = disk
    /\ lock' = [lock EXCEPT ![FileOf(t)] = {}]
    /\ Goto(t, "commit")
    /\ UNCHANGED <<disk, artifacts, synced, node, todo, seq, history>>

\* The COMMIT record
Commit(t) ==
    /\ thread[t].pc = "commit"
    /\ acked' = [acked EXCEPT ![FileOf(t)] =
                   IF thread[t].ver > removed[FileOf(t)] /\ thread[t].ver > @
                     THEN thread[t].ver ELSE @]
    /\ Goto(t, "publish")
    /\ UNCHANGED <<shared, lock, node, todo, seq, removed, outage>>

\* The node takes its place in _nodes, write_state returns True
Publish(t) ==
    /\ thread[t].pc = "publish"
    /\ LET c == [path |-> thread[t].path, val |-> thread[t].val, ver |-> thread[t].ver,
                 intact |-> TRUE]
       IN  node' = [node EXCEPT ![ProcessOf[t]][thread[t].path] = NodeOf(c)]
    /\ Return(t)
    /\ UNCHANGED <<shared, lock, todo, seq, history>>

\* An OSError, before the try (raised) or within (ROLLBACK record, returns False);
\* either way the lock is released and what was done stays
WriteFail(t) ==
    /\ thread[t].pc \in {"extract", "lock", "replace", "commit"}
    /\ lock' = [lock EXCEPT ![FileOf(t)] = @ \ {t}]
    /\ Return(t)
    /\ UNCHANGED <<shared, node, todo, seq, history>>

-----------------------------------------------------------------------------
(* read_state                                                              *)

\* The content in memory is what the checksum was computed of
Matches(n) == n.file.intact /\ ~n.texts

\* _inject_artifacts writes the texts into the inner dictionary, which the copy shares
\* with the node
Injected(n) == [n EXCEPT !.texts = n.file.val \in artifacts]

\* The node is in memory, valid and returned or to be removed
ReadHit(t) ==
    /\ Ready(t)
    /\ \E p \in Paths :
         LET n == node[ProcessOf[t]][p]
         IN  /\ Exists(n.file)
             /\ IF Matches(n)
                  THEN /\ node' = [node EXCEPT ![ProcessOf[t]][p] = Injected(n)]
                       /\ UNCHANGED thread
                  ELSE /\ thread' = [thread EXCEPT ![t] =
                                       [IdleThread EXCEPT !.pc = "remove", !.path = p]]
                       /\ UNCHANGED node
    /\ UNCHANGED <<shared, lock, todo, seq, history>>

\* It is not, and there is a file
ReadMiss(t) ==
    /\ Ready(t)
    /\ \E p \in Paths :
         /\ ~Exists(node[ProcessOf[t]][p].file)
         /\ Exists(disk[SafePath[p]])
         /\ thread' = [thread EXCEPT ![t] = [IdleThread EXCEPT !.pc = "load", !.path = p]]
    /\ UNCHANGED <<shared, lock, node, todo, seq, history>>

\* _load_node_from_disk, under the file's lock; the file may be gone by now
Load(t) ==
    /\ thread[t].pc = "load"
    /\ Free(t)
    /\ IF Exists(disk[FileOf(t)])
         THEN thread' = [thread EXCEPT ![t].pc = "install", ![t].found = NodeOf(disk[FileOf(t)])]
         ELSE Return(t)
    /\ UNCHANGED <<shared, lock, node, todo, seq, history>>

Install(t) ==
    /\ thread[t].pc = "install"
    /\ LET n == thread[t].found
       IN  /\ node' = [node EXCEPT ![ProcessOf[t]][thread[t].path] =
                         IF Matches(n) THEN Injected(n) ELSE n]
           /\ IF Matches(n) THEN Return(t) ELSE Goto(t, "remove")
    /\ UNCHANGED <<shared, lock, todo, seq, history>>

\* _recover_from_corruption, under the file's lock
Remove(t) ==
    /\ thread[t].pc = "remove"
    /\ Free(t)
    /\ disk' = [disk EXCEPT ![FileOf(t)] = NoFile]
    /\ IF Exists(disk[FileOf(t)])
         THEN /\ acked' = [acked EXCEPT ![FileOf(t)] = 0]
              /\ removed' = [removed EXCEPT ![FileOf(t)] = seq]
         ELSE UNCHANGED <<acked, removed>>
    /\ Goto(t, "drop")
    /\ UNCHANGED <<durable, artifacts, synced, lock, node, todo, seq, outage>>

\* and the node goes, whichever it is by now; read_state returns None
Drop(t) ==
    /\ thread[t].pc = "drop"
    /\ node' = [node EXCEPT ![ProcessOf[t]][thread[t].path] = NodeOf(NoFile)]
    /\ Return(t)
    /\ UNCHANGED <<shared, lock, todo, seq, history>>

-----------------------------------------------------------------------------
(* Crashes, recovery and damage.                                           *)

\* Mutant: the lock is a file that its owner removes
DieLocked(S) ==
    /\ node' = [p \in Processes |-> IF p \in S THEN NoNodes ELSE node[p]]
    /\ todo' = [p \in Processes |-> IF p \in S THEN Files ELSE todo[p]]
    /\ thread' = [t \in Threads |-> IF ProcessOf[t] \in S THEN IdleThread ELSE thread[t]]
    /\ UNCHANGED lock

\* The processes S die; the kernel releases their locks
Die(S) ==
    /\ node' = [p \in Processes |-> IF p \in S THEN NoNodes ELSE node[p]]
    /\ todo' = [p \in Processes |-> IF p \in S THEN Files ELSE todo[p]]
    /\ thread' = [t \in Threads |-> IF ProcessOf[t] \in S THEN IdleThread ELSE thread[t]]
    /\ lock' = [f \in Files |-> {t \in lock[f] : ProcessOf[t] \notin S}]

Crash(p) ==
    /\ Die({p})
    /\ UNCHANGED <<shared, seq, history>>

PowerLoss ==
    /\ Die(Processes)
    /\ \E lost \in SUBSET Files : disk' = [f \in Files |-> IF f \in lost THEN durable[f] ELSE disk[f]]
    /\ durable' = disk'
    /\ \E lost \in SUBSET (artifacts \ synced) : artifacts' = artifacts \ lost
    /\ synced' = artifacts'
    /\ outage' = TRUE
    /\ UNCHANGED <<seq, acked, removed>>

\* _recover_all_states reads file by file, without the locks
RecoverFile(p, f) ==
    /\ f \in todo[p]
    /\ todo' = [todo EXCEPT ![p] = @ \ {f}]
    /\ node' = IF Exists(disk[f])
                 THEN [node EXCEPT ![p][disk[f].path] = NodeOf(disk[f])]
                 ELSE node
    /\ UNCHANGED <<shared, lock, thread, seq, history>>

\* A file is edited by hand or damaged
Damage(f) ==
    /\ Exists(disk[f])
    /\ disk[f].intact
    /\ disk' = [disk EXCEPT ![f].intact = FALSE]
    /\ durable' = IF durable[f].ver = disk[f].ver THEN [durable EXCEPT ![f].intact = FALSE]
                                                  ELSE durable
    /\ UNCHANGED <<artifacts, synced, lock, node, todo, thread, seq, history>>

Step(t) ==
    Extract(t) \/ ArtifactSync(t) \/ Lock(t) \/ Replace(t) \/ Sync(t) \/ Commit(t)
        \/ Publish(t) \/ Load(t) \/ Install(t) \/ Remove(t) \/ Drop(t)

Next ==
    \/ \E t \in Threads : WriteStart(t) \/ ReadHit(t) \/ ReadMiss(t) \/ Step(t) \/ WriteFail(t)
    \/ \E p \in Processes : Crash(p)
    \/ PowerLoss
    \/ \E p \in Processes, f \in Files : RecoverFile(p, f)
    \/ \E f \in Files : Damage(f)

\* The operating system runs every thread, and the release of a lock wakes all that wait
\* for it: one that finds it free time and again takes it some day.  No call has to fail.
Fairness == \A t \in Threads : SF_vars(Step(t))

Spec == Init /\ [][Next]_vars /\ Fairness

-----------------------------------------------------------------------------
(* Properties.                                                             *)

\* A checkpoint with a COMMIT record, or a newer one, is on disk, and would be after a
\* power loss, whatever other writers, failures and crashes do: only a reader that
\* takes it for corrupted removes it.
CommitsSurvive ==
    \A f \in Files :
        acked[f] > 0 => disk[f].ver >= acked[f] /\ durable[f].ver >= acked[f]

\* Processes may die anywhere: no checkpoint on disk or in memory, to be handed out or
\* recovered, refers to a text that has no file.
TextsKept ==
    ~outage =>
        /\ \A f \in Files : disk[f].val \in Large /\ Exists(disk[f]) => disk[f].val \in artifacts
        /\ \A p \in Processes, q \in Paths :
             node[p][q].file.val \in Large /\ Exists(node[p][q].file) =>
                 node[p][q].file.val \in artifacts

\* Every call returns, also one that waits for a lock whose holder dies.
CallsReturn == \A t \in Threads : thread[t].pc # "idle" ~> thread[t].pc = "idle"

\* "State corrupted for {path}. Removing corrupted checkpoint." (unified_vfs.py:247): the
\* checkpoint that is removed is a corrupted one.
RemovesOnlyCorrupted ==
    [][\A t \in Threads : Remove(t) /\ Exists(disk[FileOf(t)]) =>
          ~disk[FileOf(t)].intact]_vars
=============================================================================
