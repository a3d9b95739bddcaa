---------------------------- MODULE HybridMemory ----------------------------
(***************************************************************************)
(* The memory of the kernel: the hot entries of core/hybrid_memory.py, and *)
(* the store behind them, core/persistent_memory.py, that takes what is    *)
(* evicted and answers for what is not hot.                                *)
(*                                                                         *)
(* The threads that run tasks share both without a lock.  A step ends at   *)
(* each access to a file, at each request to a server, and between the two *)
(* changes that a store in the files makes in memory: the record is        *)
(* appended to the list, and then the end of the list is put into the      *)
(* index, whoever appended there meanwhile.  Walks over the hot entries    *)
(* are taken to be undisturbed.  The entry's copy in the backend lives and *)
(* dies with the hot entry and is not modelled apart, nor are the indexes  *)
(* of terms.                                                               *)
(*                                                                         *)
(* A value is the number of the request that wrote it.  The store has the  *)
(* JSON text of it, under that number, and a restored value is that text,  *)
(* never parsed again: a dict comes back as a string.                      *)
(***************************************************************************)
EXTENDS Integers, FiniteSets

CONSTANTS
    Keys,
    Volatile,       \* keys written by their full name: thoughts and errors of agents
    Threads,
    Modes,          \* of the store: a configured directory, one of this run, a server
    MaxHot,         \* hot_cache_max_entries
    None, Torn,
    MaxRequests     \* bounds the requests, for model checking

Rows == [Keys -> Nat \cup {None}]
Entry == [value : Nat, life : {"kept", "timed", "over"}]

MemoryAssumption ==
    /\ Volatile \subseteq Keys /\ IsFiniteSet(Keys)
    /\ Modes \subseteq {"file", "run", "server"}
    /\ MaxHot \in Nat /\ MaxRequests \in Nat
    /\ None \notin Keys \cup Nat \cup Entry /\ Torn \notin Rows

VARIABLES
    mode, alone,
    hot,        \* of each key: None, or its value and whether that expires
    latest,     \* of each key: its last record in the list that the files are made of
    newest,     \* the key of the record at the end of that list
    row,        \* of each key: what it is looked up as, in the index or at the server
    disk,       \* the index file, or Torn between its truncation and its end
    thread,     \* of each thread: the step it is at, and what it is storing
    requests,
    past, removed    \* history: the writes of each key; the keys removed since

vars == <<mode, alone, hot, latest, newest, row, disk, thread, requests, past, removed>>
list == <<latest, newest>>
history == <<past, removed>>

Nothing == [k \in Keys |-> None]

IdleThread == [at |-> "idle", todo |-> {}, now |-> None, drops |-> FALSE, text |-> Nothing]

IsHot(h) == {k \in Keys : h[k] # None}

\* A thread alone finishes what it does before another one starts
MayStart(t) ==
    /\ thread[t].at = "idle"
    /\ alone => \A u \in Threads : thread[u].at = "idle"

Request(t) ==
    /\ MayStart(t)
    /\ requests < MaxRequests
    /\ requests' = requests + 1

-----------------------------------------------------------------------------
(* The operations up to their first access to the store *)

\* The fifth of the entries with the lowest scores, which time decides
Victims(h) ==
    LET n == Cardinality(IsHot(h))
        limit == IF n < 5 THEN 1 ELSE n \div 5
    IN  {ks \in SUBSET IsHot(h) : Cardinality(ks) = limit}

\* Entries to be stored one after the other, and dropped if they are evicted
Storing(h, ks, evict) ==
    [at |-> "store", todo |-> {<<k, h[k].value>> : k \in ks}, now |-> None,
     drops |-> evict, text |-> Nothing]

Install(k, life) ==
    /\ hot' = [hot EXCEPT ![k] = [value |-> requests', life |-> life]]
    /\ past' = [past EXCEPT ![k] = @ \cup {requests'}]
    /\ removed' = removed \ {k}

\* SessionMemory.set: a time to live of zero or less is none
Lives == {"kept", "timed"}

\* What delete, and invalidate and clear_session, take
Discards == {{k} : k \in Keys} \cup {Keys}

\* What a task's agent is shown of the memory: never thoughts or errors
Asked == Keys \ Volatile

\* The entries that are left when some are dropped, with their copies in the backend and
\* their terms in the indexes
Without(ks) == [k \in Keys |-> IF k \in ks THEN None ELSE hot[k]]

\* set: too many entries are evicted before it returns
Set(t, k, life) ==
    /\ k \notin Volatile
    /\ Request(t)
    /\ Install(k, life)
    /\ IF Cardinality(IsHot(hot')) > MaxHot
       THEN \E ks \in Victims(hot') : thread' = [thread EXCEPT ![t] = Storing(hot', ks, TRUE)]
       ELSE UNCHANGED thread
    /\ UNCHANGED <<mode, alone, list, row, disk>>

\* append_agent_thought, append_agent_error: set_by_full_key, which evicts nothing
Append(t, k) ==
    /\ k \in Volatile
    /\ Request(t)
    /\ Install(k, "kept")
    /\ UNCHANGED <<mode, alone, list, row, disk, thread>>

\* Only the hot entries are dropped, never what is stored
Discard(t, ks) ==
    /\ Request(t)
    /\ hot' = Without(ks)
    /\ removed' = removed \cup ks
    /\ UNCHANGED <<mode, alone, list, row, disk, thread, past>>

\* clear_session_thoughts, at the end of a task
ClearThoughts(t) == Discard(t, Volatile)

\* A maintenance round, of the background task or at once
Maintain(t) ==
    /\ MayStart(t)
    /\ \E ks \in Victims(hot) :
        /\ ks # {}
        /\ thread' = [thread EXCEPT ![t] = Storing(hot, ks, TRUE)]
    /\ UNCHANGED <<mode, alone, hot, list, row, disk, requests, history>>

\* soft_flush stores every entry and keeps it
Flush(t) ==
    /\ MayStart(t)
    /\ IsHot(hot) # {}
    /\ thread' = [thread EXCEPT ![t] = Storing(hot, IsHot(hot), FALSE)]
    /\ UNCHANGED <<mode, alone, hot, list, row, disk, requests, history>>

\* get of an entry that has expired: None, and the entry is gone
GetExpired(t, k) ==
    /\ MayStart(t)
    /\ hot[k] # None /\ hot[k].life = "over"
    /\ hot' = Without({k})
    /\ UNCHANGED <<mode, alone, list, row, disk, thread, requests, history>>

\* touch_memory: the time of a record, which no text of ours has, and the index file
Touch == [at |-> "dump", todo |-> {}, now |-> None, drops |-> FALSE, text |-> Nothing]

\* get of a key that is not hot: the stored record is returned, and touched; deletion and
\* expiry are not asked about.  At a server it changes nothing.
GetStored(t, k) ==
    /\ MayStart(t)
    /\ k \in Asked
    /\ hot[k] = None /\ row[k] # None
    /\ mode # "server"
    /\ thread' = [thread EXCEPT ![t] = Touch]
    /\ UNCHANGED <<mode, alone, hot, list, row, disk, requests, history>>

-----------------------------------------------------------------------------
(* The store *)

\* The list of records is in memory
AppendRecord(t, kv) ==
    /\ mode # "server"
    /\ latest' = [latest EXCEPT ![kv[1]] = kv[2]]
    /\ newest' = kv[1]
    /\ thread' = [thread EXCEPT ![t].at = "index", ![t].now = kv]
    /\ UNCHANGED row

\* A store that fails is taken to have stored the entry
StoreBlind(t) ==
    /\ thread[t].at = "store"
    /\ \E kv \in thread[t].todo :
        \/ AppendRecord(t, kv)
        \/ /\ mode = "server"
           /\ thread' = [thread EXCEPT ![t].at = "stored", ![t].now = kv]
           /\ UNCHANGED <<list, row>>
    /\ UNCHANGED <<mode, alone, hot, disk, requests, history>>

\* A request to a server that is not answered raises, whether the value was written or not
Put(kv) ==
    LET new == [row EXCEPT ![kv[1]] = kv[2]]
    IN  {[rows |-> new, answered |-> TRUE]} \cup {[rows |-> old, answered |-> FALSE] : old \in {row, new}}

\* The exception ends the operation
StoreAtServer(t, kv) ==
    /\ mode = "server"
    /\ \E put \in Put(kv) :
        /\ row' = put.rows
        /\ thread' = [thread EXCEPT ![t] =
                        IF put.answered THEN [@ EXCEPT !.at = "stored", !.now = kv] ELSE IdleThread]
    /\ UNCHANGED list

\* store_memory of the next entry
Store(t) ==
    /\ thread[t].at = "store"
    /\ \E kv \in thread[t].todo : AppendRecord(t, kv) \/ StoreAtServer(t, kv)
    /\ UNCHANGED <<mode, alone, hot, disk, requests, history>>

\* _index_record: the place it gets is that of the end of the list
Index(t) ==
    /\ thread[t].at = "index"
    /\ row' = [row EXCEPT ![thread[t].now[1]] = latest[newest]]
    /\ thread' = [thread EXCEPT ![t].at = "dump"]
    /\ UNCHANGED <<mode, alone, hot, list, disk, requests, history>>

\* _write_json: the text of the list is made, the file truncated, and then written
Dump(t) ==
    /\ thread[t].at = "dump"
    /\ thread' = [thread EXCEPT ![t].at = "open", ![t].text = latest]
    /\ UNCHANGED <<mode, alone, hot, list, row, disk, requests, history>>

Open(t) ==
    /\ thread[t].at = "open"
    /\ disk' = Torn
    /\ thread' = [thread EXCEPT ![t].at = "write"]
    /\ UNCHANGED <<mode, alone, hot, list, row, requests, history>>

AfterWrite(t) == IF thread[t].now = None THEN IdleThread
                 ELSE [thread[t] EXCEPT !.at = "stored", !.text = Nothing]

\* The first entry is not written to the disk
WriteOnTouch(t) ==
    /\ thread[t].at = "write"
    /\ disk' = IF thread[t].now = None THEN thread[t].text ELSE disk
    /\ thread' = [thread EXCEPT ![t] = AfterWrite(t)]
    /\ UNCHANGED <<mode, alone, hot, list, row, requests, history>>

\* Two threads that write at once may leave what no reader can parse
Write(t) ==
    /\ thread[t].at = "write"
    /\ disk' \in {thread[t].text} \cup
            (IF \E u \in Threads \ {t} : thread[u].at = "write" THEN {Torn} ELSE {})
    /\ thread' = [thread EXCEPT ![t] = AfterWrite(t)]
    /\ UNCHANGED <<mode, alone, hot, list, row, requests, history>>

\* The stored entry is evicted: its key is dropped, whatever it holds by now
Drop(t) ==
    LET left == thread[t].todo \ {thread[t].now}
    IN  /\ thread[t].at = "stored"
        /\ hot' = IF thread[t].drops THEN Without({thread[t].now[1]}) ELSE hot
        /\ thread' = [thread EXCEPT ![t] =
                        IF left = {} THEN IdleThread
                        ELSE [@ EXCEPT !.at = "store", !.now = None, !.todo = left]]
        /\ UNCHANGED <<mode, alone, list, row, disk, requests, history>>

-----------------------------------------------------------------------------
(* Time and failure *)

Expire(k) ==
    /\ requests < MaxRequests
    /\ hot[k] # None /\ hot[k].life = "timed"
    /\ hot' = [hot EXCEPT ![k].life = "over"]
    /\ requests' = requests + 1
    /\ removed' = removed \cup {k}
    /\ UNCHANGED <<mode, alone, list, row, disk, thread, past>>

\* A torn file is taken for a list of records
OnDiskRaw == disk

\* The process dies and starts again: a torn index file counts as an empty one, and
\* without a configured directory each run has its own.  The index is made anew of the list.
OnDisk == IF disk = Torn THEN Nothing ELSE disk

Restart ==
    /\ requests < MaxRequests
    /\ hot' = Nothing
    /\ thread' = [t \in Threads |-> IdleThread]
    /\ \/ mode = "file" /\ row' = OnDisk /\ latest' = OnDisk /\ UNCHANGED disk
       \/ mode = "run" /\ row' = Nothing /\ latest' = Nothing /\ disk' = Nothing
       \/ mode = "server" /\ UNCHANGED <<row, latest, disk>>
    /\ newest' = None
    /\ requests' = requests + 1
    /\ removed' = Keys
    /\ UNCHANGED <<mode, alone, past>>

-----------------------------------------------------------------------------

Init ==
    /\ mode \in Modes /\ alone \in BOOLEAN
    /\ hot = Nothing /\ latest = Nothing /\ newest = None /\ row = Nothing /\ disk = Nothing
    /\ thread = [t \in Threads |-> IdleThread]
    /\ requests = 0
    /\ past = [k \in Keys |-> {}] /\ removed = {}

ThreadStep(t) ==
    \/ \E k \in Keys, life \in Lives : Set(t, k, life)
    \/ \E k \in Keys : Append(t, k) \/ GetExpired(t, k) \/ GetStored(t, k)
    \/ ClearThoughts(t) \/ \E ks \in Discards : Discard(t, ks)
    \/ Maintain(t) \/ Flush(t)
    \/ Store(t) \/ Index(t) \/ Dump(t) \/ Open(t) \/ Write(t) \/ Drop(t)

Next ==
    \/ \E t \in Threads : ThreadStep(t)
    \/ \E k \in Keys : Expire(k)
    \/ Restart

Spec == Init /\ [][Next]_vars

-----------------------------------------------------------------------------

TypeOK ==
    /\ mode \in Modes /\ alone \in BOOLEAN
    /\ hot \in [Keys -> Entry \cup {None}]
    /\ latest \in Rows /\ row \in Rows /\ newest \in Keys \cup {None}
    /\ disk \in Rows \cup {Torn}
    /\ thread \in [Threads -> [at : {"idle", "store", "index", "dump", "open", "write", "stored"},
                               todo : SUBSET (Keys \X Nat), now : (Keys \X Nat) \cup {None},
                               drops : BOOLEAN, text : Rows]]
    /\ requests \in Nat
    /\ past \in [Keys -> SUBSET Nat]
    /\ removed \subseteq Keys

\* What a reader of the key is shown: the value of a hot entry unless it has expired, else
\* the text that the store has under the key; thoughts and errors are not looked for there.
Shown(k) ==
    IF hot[k] # None THEN IF hot[k].life = "over" THEN None ELSE <<hot[k].value, "value">>
    ELSE IF k \in Asked /\ row[k] # None THEN <<row[k], "text">> ELSE None

\* The memory keeps the promise of KeyValue.  One thread at a time: evictions, flushes,
\* refused stores and restores make the value last written into its text at most, never
\* into an older one, and bring back, as texts, what was deleted or has expired.  Several
\* threads never make a key that was written and not removed show nothing, and what they
\* show in place of its value is a text that some write made: an older one of the key
\* (run_maintenance_once at hybrid_memory.py:349 stores an entry and then drops its key),
\* or one of another key (store_memory at persistent_memory.py:269-270).
Promise ==
    INSTANCE KeyValue WITH shown <- [k \in Keys |-> Shown(k)]
KeepsPromise == Promise!Spec

\* When a thread that was alone has returned, the index file says what a reader is told
\* from memory, after stores, reads that touch a record, and restarts: what was evicted
\* survives the process if that ends then (store_memory at persistent_memory.py:269-272).
DiskCurrent ==
    (mode = "file" /\ alone /\ \A t \in Threads : thread[t].at \in {"idle", "store", "stored"})
        => row = OnDisk

=============================================================================
