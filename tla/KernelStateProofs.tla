------------------------- MODULE KernelStateProofs --------------------------
(***************************************************************************)
(* Proofs about the parts of KernelState that keep something over many     *)
(* steps: the memory, the bus, the hooks of the modules, the intake of     *)
(* tasks, the sessions of the toolkit, the plans and the voice listener;   *)
(* and, with what KernelCallsProofs proves of the others, that every part  *)
(* has its types.                                                          *)
(***************************************************************************)
EXTENDS KernelCallsProofs

-----------------------------------------------------------------------------
(* HybridMemory.  A value that is hot, in the list, in the file or in a    *)
(* thread's hands was written under its key, one in the index under some   *)
(* key.  Where nobody else is at the store, what a thread is storing is    *)
(* still what the entries hold, the index says what the list says, and the *)
(* file says it too, unless a thread is between one of them and the next.  *)

MemThread ==
    [at : {"idle", "store", "index", "dump", "open", "write", "stored"},
     todo : SUBSET (Keys \X Nat), now : (Keys \X Nat) \cup {None},
     drops : BOOLEAN, text : Memory!Rows]

MemTypes ==
    /\ mode \in Stores /\ alone \in BOOLEAN
    /\ hot \in [Keys -> Memory!Entry \cup {None}]
    /\ latest \in Memory!Rows /\ newest \in Keys \cup {None} /\ row \in Memory!Rows
    /\ disk \in Memory!Rows \cup {Torn}
    /\ thread \in [Threads -> MemThread]
    /\ requests \in Nat
    /\ past \in [Keys -> SUBSET Nat]
    /\ removed \subseteq Keys

\* Where a value of a key is, it was written under the key, ...
Written(v, k) == v \in past[k] \cup {None}

\* ... or, where threads interleave and one indexes what another has appended, under any
Ever(k) == IF alone THEN past[k] ELSE UNION {past[j] : j \in Keys}

MemValues ==
    /\ \A k \in Keys : hot[k] # None =>
            /\ hot[k].value \in past[k]
            /\ hot[k].life = "over" => k \in removed
    /\ \A k \in Keys : Written(latest[k], k) /\ row[k] \in Ever(k) \cup {None}
    /\ newest # None => latest[newest] # None
    /\ disk # Torn => \A k \in Keys : Written(disk[k], k)

\* A thread that has indexed an entry before it writes the file, or has stored it
Indexed(c) == c.at = "stored" \/ (c.at \in {"dump", "open", "write"} /\ c.now # None)

\* What a thread stores, and the text it writes, too; what it has stored is in the store
MemThreads ==
    \A t \in Threads :
        /\ \A k \in Keys, v \in Nat : <<k, v>> \in thread[t].todo => v \in past[k]
        /\ \A k \in Keys : Written(thread[t].text[k], k)
        /\ thread[t].at = "index" => thread[t].now \in thread[t].todo /\ newest # None
        /\ Indexed(thread[t]) => thread[t].now \in thread[t].todo /\ row[thread[t].now[1]] # None

\* A thread alone stores what is hot, finds it at the end of the list, and drops what the
\* store has
MemAlone ==
    alone =>
        /\ \A t, u \in Threads : thread[t].at # "idle" /\ thread[u].at # "idle" => t = u
        /\ \A t \in Threads : thread[t].at # "idle" =>
                \A k \in Keys, v \in Nat :
                    <<k, v>> \in thread[t].todo => hot[k] # None /\ hot[k].value = v
        /\ \A t \in Threads : thread[t].at = "index" =>
                newest = thread[t].now[1] /\ latest[newest] = thread[t].now[2]
        /\ \A t \in Threads : Indexed(thread[t]) => row[thread[t].now[1]] = thread[t].now[2]

\* A thread alone indexes what it appended and no more, and the text that it writes is that
\* of the list, which the file has when it is written
MemDisk ==
    mode = "file" /\ alone =>
        /\ \A t \in Threads : thread[t].at = "index" =>
                \A k \in Keys : k # thread[t].now[1] => row[k] = latest[k]
        /\ (\A t \in Threads : thread[t].at # "index") => row = latest
        /\ \A t \in Threads : thread[t].at \in {"open", "write"} => thread[t].text = latest
        /\ (\A t \in Threads : thread[t].at \in {"idle", "store", "stored"})
                => row = Memory!OnDisk

MemInv == MemTypes /\ MemValues /\ MemThreads /\ MemAlone /\ MemDisk

\* What KernelAssumption says of the memory
LEMMA MemConstants ==
    /\ Volatile \subseteq Keys /\ Stores \subseteq {"file", "run", "server"}
    /\ None \notin Nat /\ None \notin Keys /\ None \notin Memory!Entry /\ Torn \notin Memory!Rows
  BY KernelAssumption DEF Memory!MemoryAssumption

\* The invariant says of the memory what the run checks: the file that a store has written
\* says what the records in memory say
LEMMA MemShows == MemInv => Memory!TypeOK /\ Memory!DiskCurrent
  <1> SUFFICES ASSUME MemInv PROVE Memory!TypeOK /\ Memory!DiskCurrent
    OBVIOUS
  <1>1. Memory!TypeOK
    BY DEF MemInv, MemTypes, MemThread, Memory!TypeOK
  <1>2. Memory!DiskCurrent
    <2> SUFFICES ASSUME mode = "file", alone,
                        \A t \in Threads : thread[t].at \in {"idle", "store", "stored"}
                 PROVE  row = Memory!OnDisk
      BY DEF Memory!DiskCurrent
    <2> QED BY DEF MemInv, MemDisk
  <1> QED BY <1>1, <1>2

\* A thread at no request, and an empty index
LEMMA MemIdle ==
    /\ Memory!IdleThread \in MemThread
    /\ Memory!IdleThread.at = "idle" /\ Memory!IdleThread.todo = {}
    /\ Memory!IdleThread.text = Memory!Nothing
    /\ Memory!Nothing \in Memory!Rows
    /\ \A k \in Keys : Memory!Nothing[k] = None
  <1>1. Memory!Nothing \in Memory!Rows /\ \A k \in Keys : Memory!Nothing[k] = None
    BY DEF Memory!Nothing, Memory!Rows
  <1>2. FALSE \in BOOLEAN
    OBVIOUS
  <1> QED BY <1>1, <1>2 DEF Memory!IdleThread, MemThread

\* Nothing is hot, and the file says what the index says, at the beginning
LEMMA MemInit ==
    ASSUME Memory!Init
    PROVE  MemInv
  <1>1. MemTypes
    <2>1. alone \in BOOLEAN
      BY Zenon DEF Memory!Init
    <2>2. hot \in [Keys -> Memory!Entry \cup {None}]
      BY DEF Memory!Init, Memory!Nothing
    <2> QED BY <2>1, <2>2, MemIdle DEF Memory!Init, MemTypes
  <1>2. MemValues
    BY MemIdle DEF Memory!Init, MemValues, Written, Ever
  <1>3. MemThreads
    BY MemIdle DEF Memory!Init, MemThreads, Written, Indexed
  <1>4. MemAlone
    BY MemIdle DEF Memory!Init, MemAlone, Indexed
  <1>5. MemDisk
    BY MemIdle, MemConstants DEF Memory!Init, MemDisk, Memory!OnDisk
  <1> QED BY <1>1, <1>2, <1>3, <1>4, <1>5 DEF MemInv

-----------------------------------------------------------------------------

\* One thread goes on
LEMMA MemTypesGo ==
    ASSUME MemTypes, NEW t \in Threads, NEW c \in MemThread, thread' = [thread EXCEPT ![t] = c]
    PROVE  /\ thread' \in [Threads -> MemThread]
           /\ thread'[t] = c /\ \A u \in Threads \ {t} : thread'[u] = thread[u]
  <1>1. thread \in [Threads -> MemThread]
    BY DEF MemTypes
  <1> QED BY <1>1

\* Steps that change the hot entries
HotMoves ==
    /\ hot' \in [Keys -> Memory!Entry \cup {None}] /\ requests' \in Nat
    /\ past' \in [Keys -> SUBSET Nat] /\ \A k \in Keys : past[k] \subseteq past'[k]
    /\ removed' \subseteq Keys
    /\ \A k \in Keys : hot'[k] # None =>
            /\ hot'[k].value \in past'[k]
            /\ hot'[k].life = "over" => k \in removed'
    /\ UNCHANGED <<mode, alone, latest, newest, row, disk>>

\* What may be in the index may stay there
LEMMA EverGrows ==
    ASSUME HotMoves, NEW k \in Keys
    PROVE  Ever(k) \subseteq Ever(k)'
  <1>1. alone' = alone /\ \A j \in Keys : past[j] \subseteq past'[j]
    BY DEF HotMoves
  <1>2. CASE alone
    BY <1>1, <1>2 DEF Ever
  <1>3. CASE ~alone
    BY <1>1, <1>3 DEF Ever
  <1> QED BY <1>2, <1>3

\* The hot entries change under no thread's hands
LEMMA MemHot ==
    ASSUME MemInv, HotMoves, UNCHANGED thread,
           alone => \/ \A t \in Threads : thread[t].at = "idle"
                    \/ \A k \in Keys : hot[k] # None
                       => hot'[k] # None /\ hot'[k].value = hot[k].value
    PROVE  MemInv'
  <1>1. MemTypes'
    BY DEF MemInv, MemTypes, HotMoves
  <1>2. MemValues'
    BY EverGrows DEF MemInv, MemValues, HotMoves, Written
  <1>3. MemThreads'
    BY DEF MemInv, MemThreads, HotMoves, Written, Indexed
  <1>4. MemAlone'
    BY DEF MemInv, MemAlone, HotMoves, Indexed
  <1>5. MemDisk'
    BY DEF MemInv, MemDisk, HotMoves, Memory!OnDisk
  <1> QED BY <1>1, <1>2, <1>3, <1>4, <1>5 DEF MemInv

\* A thread that begins to store hot entries, or to write the time of a record
LEMMA MemStarts ==
    ASSUME MemInv, HotMoves, NEW t \in Threads, NEW c \in MemThread,
           thread' = [thread EXCEPT ![t] = c],
           alone => \A u \in Threads : thread[u].at = "idle",
           \A k \in Keys, v \in Nat : <<k, v>> \in c.todo => hot'[k] # None /\ hot'[k].value = v,
           \/ c.at = "store" /\ c.text = Memory!Nothing
           \/ c.at = "dump" /\ c.now = None /\ c.text = Memory!Nothing
    PROVE  MemInv'
  <1>1. /\ thread' \in [Threads -> MemThread]
        /\ thread'[t] = c /\ \A u \in Threads \ {t} : thread'[u] = thread[u]
    BY MemTypesGo DEF MemInv
  <1>2. MemTypes'
    BY <1>1 DEF MemInv, MemTypes, HotMoves
  <1>3. MemValues'
    BY EverGrows DEF MemInv, MemValues, HotMoves, Written
  <1>4. MemThreads'
    <2>1. ASSUME NEW u \in Threads
          PROVE  /\ \A k \in Keys, v \in Nat : <<k, v>> \in thread'[u].todo => v \in past'[k]
                 /\ \A k \in Keys : thread'[u].text[k] \in past'[k] \cup {None}
                 /\ thread'[u].at = "index" =>
                        thread'[u].now \in thread'[u].todo /\ newest # None
                 /\ Indexed(thread'[u]) =>
                        thread'[u].now \in thread'[u].todo /\ row[thread'[u].now[1]] # None
      <3>1. CASE u = t
        <4>1. \A k \in Keys, v \in Nat : <<k, v>> \in c.todo => v \in past'[k]
          BY DEF HotMoves
        <4>2. \A k \in Keys : c.text[k] \in past'[k] \cup {None}
          BY MemIdle
        <4>3. ~Indexed(c) /\ c.at # "index"
          BY DEF Indexed
        <4> QED BY <1>1, <3>1, <4>1, <4>2, <4>3
      <3>2. CASE u # t
        BY <1>1, <3>2 DEF MemInv, MemThreads, HotMoves, Written
      <3> QED BY <3>1, <3>2
    <2> QED BY <2>1 DEF MemThreads, Written, HotMoves, Indexed
  <1>5. MemAlone'
    <2> SUFFICES ASSUME alone PROVE MemAlone'
      BY DEF MemAlone, HotMoves
    <2>1. \A u \in Threads : u # t => thread'[u].at = "idle"
      BY <1>1
    <2>2. ~Indexed(c) /\ c.at # "index"
      BY DEF Indexed
    <2>3. \A u \in Threads : ~Indexed(thread'[u]) /\ thread'[u].at # "index"
      BY <1>1, <2>1, <2>2 DEF Indexed
    <2> QED BY <1>1, <2>1, <2>3 DEF MemAlone, HotMoves, Indexed
  <1>6. MemDisk'
    <2> SUFFICES ASSUME mode = "file", alone PROVE MemDisk'
      BY DEF MemDisk, HotMoves
    <2>1. row = Memory!OnDisk /\ row = latest
      BY DEF MemInv, MemDisk
    <2>2. \A u \in Threads : thread'[u].at \in {"idle", "store", "dump"}
      BY <1>1
    <2> QED BY <1>1, <2>1, <2>2 DEF MemDisk, HotMoves, Memory!OnDisk
  <1> QED BY <1>2, <1>3, <1>4, <1>5, <1>6 DEF MemInv

-----------------------------------------------------------------------------

\* A thread that is to store hot entries
LEMMA MemStoring ==
    ASSUME NEW h \in [Keys -> Memory!Entry \cup {None}], NEW ks \in SUBSET Memory!IsHot(h),
           NEW evict \in BOOLEAN
    PROVE  /\ Memory!Storing(h, ks, evict) \in MemThread
           /\ Memory!Storing(h, ks, evict).at = "store"
           /\ Memory!Storing(h, ks, evict).text = Memory!Nothing
           /\ \A k \in Keys, v \in Nat : <<k, v>> \in Memory!Storing(h, ks, evict).todo
                    => h[k] # None /\ h[k].value = v
  <1> DEFINE list == {<<k, h[k].value>> : k \in ks}
  <1>1. Memory!Storing(h, ks, evict)
            = [at |-> "store", todo |-> list, now |-> None, drops |-> evict,
                text |-> Memory!Nothing]
    BY DEF Memory!Storing
  <1>2. ASSUME NEW k \in ks PROVE k \in Keys /\ h[k] # None /\ h[k].value \in Nat
    BY DEF Memory!IsHot, Memory!Entry
  <1>3. list \subseteq Keys \X Nat
    BY <1>2
  <1>4. \A k \in Keys, v \in Nat : <<k, v>> \in list => h[k] # None /\ h[k].value = v
    BY <1>2
  <1> HIDE DEF list
  <1>5. [at |-> "store", todo |-> list, now |-> None, drops |-> evict, text |-> Memory!Nothing]
            \in MemThread
    BY <1>3, MemIdle DEF MemThread
  <1> QED BY <1>1, <1>4, <1>5

\* An entry is installed, with a value that was never there
LEMMA MemInstall ==
    ASSUME MemInv, NEW k \in Keys, NEW life \in {"kept", "timed"}, requests' = requests + 1,
           Memory!Install(k, life), UNCHANGED <<mode, alone, latest, newest, row, disk>>
    PROVE  HotMoves
  <1>1. /\ hot \in [Keys -> Memory!Entry \cup {None}] /\ requests \in Nat
        /\ past \in [Keys -> SUBSET Nat] /\ removed \subseteq Keys
    BY DEF MemInv, MemTypes
  <1> DEFINE e == [value |-> requests', life |-> life]
             all == past[k] \cup {requests'}
  <1>2. e \in Memory!Entry /\ e.value = requests' /\ e.life # "over" /\ requests' \in Nat
    BY <1>1 DEF Memory!Entry
  <1>3. all \in SUBSET Nat /\ requests' \in all /\ past[k] \subseteq all
    BY <1>1, <1>2
  <1>4. hot' = [hot EXCEPT ![k] = e] /\ past' = [past EXCEPT ![k] = all]
        /\ removed' = removed \ {k}
    BY DEF Memory!Install
  <1> HIDE DEF e, all
  <1>5. hot' \in [Keys -> Memory!Entry \cup {None}] /\ past' \in [Keys -> SUBSET Nat]
    BY <1>1, <1>2, <1>3, <1>4
  <1>6. ASSUME NEW j \in Keys
        PROVE  /\ past[j] \subseteq past'[j]
               /\ hot'[j] # None => /\ hot'[j].value \in past'[j]
                                    /\ hot'[j].life = "over" => j \in removed'
    <2>1. CASE j = k
      BY <1>1, <1>2, <1>3, <1>4, <2>1
    <2>2. CASE j # k
      BY <1>1, <1>4, <2>2 DEF MemInv, MemValues
    <2> QED BY <2>1, <2>2
  <1> QED BY <1>1, <1>2, <1>4, <1>5, <1>6 DEF HotMoves

\* Entries are dropped that were removed or may go
LEMMA MemDropped ==
    ASSUME MemInv, NEW ks \in SUBSET Keys, hot' = Memory!Without(ks), requests' \in Nat,
           removed \subseteq removed', removed' \subseteq Keys,
           UNCHANGED <<mode, alone, latest, newest, row, disk, past>>
    PROVE  HotMoves
  <1>1. /\ hot \in [Keys -> Memory!Entry \cup {None}] /\ past \in [Keys -> SUBSET Nat]
    BY DEF MemInv, MemTypes
  <1>2. \A k \in Keys : hot'[k] = IF k \in ks THEN None ELSE hot[k]
    BY DEF Memory!Without
  <1>3. hot' \in [Keys -> Memory!Entry \cup {None}]
    BY <1>1 DEF Memory!Without
  <1> QED BY <1>1, <1>2, <1>3 DEF HotMoves, MemInv, MemValues

\* The hot entries stay
LEMMA MemStill ==
    ASSUME MemInv,
           UNCHANGED <<mode, alone, hot, latest, newest, row, disk, requests, past, removed>>
    PROVE  HotMoves
  BY DEF HotMoves, MemInv, MemTypes, MemValues

\* A thread takes a request when it is free, and when nobody else has one if alone
LEMMA MemRequest ==
    ASSUME NEW t \in Threads, Memory!MayStart(t)
    PROVE  thread[t].at = "idle" /\ (alone => \A u \in Threads : thread[u].at = "idle")
  BY DEF Memory!MayStart

\* The value of a key is set
LEMMA MemSet ==
    ASSUME MemInv, NEW t \in Threads, NEW k \in Keys, NEW life \in Memory!Lives,
           Memory!Set(t, k, life)
    PROVE  MemInv'
  <1>1. /\ Memory!MayStart(t) /\ requests' = requests + 1 /\ Memory!Install(k, life)
        /\ UNCHANGED <<mode, alone, latest, newest, row, disk>> /\ life \in {"kept", "timed"}
    BY DEF Memory!Set, Memory!Request, Memory!Lives, Memory!list
  <1>2. HotMoves
    BY <1>1, MemInstall
  <1>3. CASE UNCHANGED thread
    BY <1>1, <1>2, <1>3, MemRequest, MemHot
  <1>4. ASSUME NEW ks \in Memory!Victims(hot'),
               thread' = [thread EXCEPT ![t] = Memory!Storing(hot', ks, TRUE)]
        PROVE  MemInv'
    <2>1. ks \in SUBSET Memory!IsHot(hot') /\ TRUE \in BOOLEAN
      BY <1>4 DEF Memory!Victims
    <2> DEFINE c == Memory!Storing(hot', ks, TRUE)
    <2>2. hot' \in [Keys -> Memory!Entry \cup {None}]
      BY <1>2 DEF HotMoves
    <2>3. /\ c \in MemThread /\ c.at = "store" /\ c.text = Memory!Nothing
          /\ \A j \in Keys, v \in Nat : <<j, v>> \in c.todo => hot'[j] # None /\ hot'[j].value = v
      BY <2>1, <2>2, MemStoring
    <2>4. thread' = [thread EXCEPT ![t] = c]
      BY <1>4
    <2> HIDE DEF c
    <2> QED BY <1>1, <1>2, <2>3, <2>4, MemRequest, MemStarts
  <1> QED BY <1>3, <1>4 DEF Memory!Set

\* The values of hot entries are to be stored
LEMMA MemStoresHot ==
    ASSUME MemInv, NEW t \in Threads, NEW ks \in SUBSET Memory!IsHot(hot), NEW evict \in BOOLEAN,
           Memory!MayStart(t), thread' = [thread EXCEPT ![t] = Memory!Storing(hot, ks, evict)],
           UNCHANGED <<mode, alone, hot, latest, newest, row, disk, requests, past, removed>>
    PROVE  MemInv'
  <1> DEFINE c == Memory!Storing(hot, ks, evict)
  <1>1. /\ c \in MemThread /\ c.at = "store" /\ c.text = Memory!Nothing
        /\ \A k \in Keys, v \in Nat : <<k, v>> \in c.todo => hot[k] # None /\ hot[k].value = v
    <2>1. hot \in [Keys -> Memory!Entry \cup {None}]
      BY DEF MemInv, MemTypes
    <2> QED BY <2>1, MemStoring
  <1>2. thread' = [thread EXCEPT ![t] = c]
    OBVIOUS
  <1> HIDE DEF c
  <1> QED BY <1>1, <1>2, MemStill, MemRequest, MemStarts

\* The time of a record is to be written
LEMMA MemTouch ==
    /\ Memory!Touch \in MemThread /\ Memory!Touch.at = "dump" /\ Memory!Touch.now = None
    /\ Memory!Touch.todo = {} /\ Memory!Touch.text = Memory!Nothing
  <1>1. FALSE \in BOOLEAN
    OBVIOUS
  <1> QED BY <1>1, MemIdle DEF Memory!Touch, MemThread

\* The requests that begin with the hot entries
LEMMA MemRequests ==
    ASSUME MemInv, NEW t \in Threads,
           \/ \E k \in Keys : Memory!Append(t, k) \/ Memory!GetExpired(t, k)
              \/ Memory!GetStored(t, k)
           \/ Memory!ClearThoughts(t) \/ (\E ks \in Memory!Discards : Memory!Discard(t, ks))
           \/ Memory!Maintain(t) \/ Memory!Flush(t)
    PROVE  MemInv'
  <1>1. ASSUME NEW k \in Keys, Memory!Append(t, k) PROVE MemInv'
    <2>1. /\ Memory!MayStart(t) /\ requests' = requests + 1 /\ Memory!Install(k, "kept")
          /\ UNCHANGED <<mode, alone, latest, newest, row, disk, thread>>
      BY <1>1 DEF Memory!Append, Memory!Request, Memory!list
    <2> QED BY <2>1, MemInstall, MemRequest, MemHot
  <1>2. ASSUME NEW k \in Keys, Memory!GetExpired(t, k) PROVE MemInv'
    <2>1. /\ Memory!MayStart(t) /\ hot' = Memory!Without({k}) /\ {k} \in SUBSET Keys
          /\ UNCHANGED <<mode, alone, latest, newest, row, disk, thread, requests, past, removed>>
      BY <1>2 DEF Memory!GetExpired, Memory!history, Memory!list
    <2>2. requests' \in Nat /\ removed \subseteq removed' /\ removed' \subseteq Keys
      BY <2>1 DEF MemInv, MemTypes
    <2> QED BY <2>1, <2>2, MemDropped, MemRequest, MemHot
  <1>3. ASSUME NEW k \in Keys, Memory!GetStored(t, k) PROVE MemInv'
    <2>1. /\ Memory!MayStart(t) /\ thread' = [thread EXCEPT ![t] = Memory!Touch]
          /\ UNCHANGED <<mode, alone, hot, latest, newest, row, disk, requests, past, removed>>
      BY <1>3 DEF Memory!GetStored, Memory!history, Memory!list
    <2> DEFINE c == Memory!Touch
    <2>2. thread' = [thread EXCEPT ![t] = c] /\ c \in MemThread /\ c.at = "dump" /\ c.now = None
          /\ c.todo = {} /\ c.text = Memory!Nothing
      BY <2>1, MemTouch
    <2> HIDE DEF c
    <2> QED BY <2>1, <2>2, MemStill, MemRequest, MemStarts
  <1>4. ASSUME NEW ks \in SUBSET Keys, Memory!Discard(t, ks) PROVE MemInv'
    <2>1. /\ Memory!MayStart(t) /\ requests' = requests + 1 /\ hot' = Memory!Without(ks)
          /\ removed' = removed \cup ks
          /\ UNCHANGED <<mode, alone, latest, newest, row, disk, thread, past>>
      BY <1>4 DEF Memory!Discard, Memory!Request, Memory!list
    <2>2. requests' \in Nat /\ removed \subseteq removed' /\ removed' \subseteq Keys
      BY <2>1 DEF MemInv, MemTypes
    <2> QED BY <2>1, <2>2, MemDropped, MemRequest, MemHot
  <1>5. ASSUME Memory!ClearThoughts(t) PROVE MemInv'
    BY <1>4, <1>5, MemConstants DEF Memory!ClearThoughts
  <1>6. ASSUME NEW ks \in Memory!Discards, Memory!Discard(t, ks) PROVE MemInv'
    BY <1>4, <1>6 DEF Memory!Discards
  <1>7. CASE Memory!Maintain(t)
    <2>1. /\ Memory!MayStart(t)
          /\ UNCHANGED <<mode, alone, hot, latest, newest, row, disk, requests, past, removed>>
      BY <1>7 DEF Memory!Maintain, Memory!history, Memory!list
    <2>2. PICK ks \in Memory!Victims(hot) : thread'
               = [thread EXCEPT ![t] = Memory!Storing(hot, ks, TRUE)]
      BY <1>7 DEF Memory!Maintain
    <2>3. ks \in SUBSET Memory!IsHot(hot) /\ TRUE \in BOOLEAN
      BY DEF Memory!Victims
    <2> QED BY <2>1, <2>2, <2>3, MemStoresHot
  <1>8. CASE Memory!Flush(t)
    <2>1. /\ Memory!MayStart(t)
          /\ UNCHANGED <<mode, alone, hot, latest, newest, row, disk, requests, past, removed>>
          /\ thread' = [thread EXCEPT ![t] = Memory!Storing(hot, Memory!IsHot(hot), FALSE)]
      BY <1>8 DEF Memory!Flush, Memory!history, Memory!list
    <2>2. Memory!IsHot(hot) \in SUBSET Memory!IsHot(hot) /\ FALSE \in BOOLEAN
      OBVIOUS
    <2> QED BY <2>1, <2>2, MemStoresHot
  <1> QED BY <1>1, <1>2, <1>3, <1>5, <1>6, <1>7, <1>8

-----------------------------------------------------------------------------

\* What is asked of a thread that goes on with what it stores
LEMMA MemThreadsGo ==
    ASSUME MemInv, NEW t \in Threads, NEW c \in MemThread, thread' = [thread EXCEPT ![t] = c],
           UNCHANGED past, newest # None => newest' # None,
           \A k \in Keys : row[k] # None => row'[k] # None,
           \A k \in Keys, v \in Nat : <<k, v>> \in c.todo => v \in past[k],
           \A k \in Keys : Written(c.text[k], k),
           c.at = "index" => c.now \in c.todo /\ newest' # None,
           Indexed(c) => c.now \in c.todo /\ row'[c.now[1]] # None
    PROVE  MemThreads'
  <1>1. ASSUME NEW u \in Threads
        PROVE  /\ \A k \in Keys, v \in Nat : <<k, v>> \in thread'[u].todo => v \in past[k]
               /\ \A k \in Keys : thread'[u].text[k] \in past[k] \cup {None}
               /\ thread'[u].at = "index" =>
                      thread'[u].now \in thread'[u].todo /\ newest' # None
               /\ Indexed(thread'[u]) =>
                      thread'[u].now \in thread'[u].todo /\ row'[thread'[u].now[1]] # None
    <2>1. CASE u = t
      BY <2>1, MemTypesGo DEF MemInv, Written
    <2>2. CASE u # t
      <3>1. thread'[u] = thread[u] /\ thread[u] \in MemThread
        BY <2>2, MemTypesGo DEF MemInv, MemTypes
      <3>2. /\ \A k \in Keys, v \in Nat : <<k, v>> \in thread[u].todo => v \in past[k]
            /\ \A k \in Keys : thread[u].text[k] \in past[k] \cup {None}
            /\ thread[u].at = "index" => thread[u].now \in thread[u].todo /\ newest # None
            /\ Indexed(thread[u]) =>
                   thread[u].now \in thread[u].todo /\ row[thread[u].now[1]] # None
        BY DEF MemInv, MemThreads, Written
      <3>3. thread[u].now \in thread[u].todo => thread[u].now[1] \in Keys
        BY <3>1 DEF MemThread
      <3> QED BY <3>1, <3>2, <3>3
    <2> QED BY <2>1, <2>2
  <1> QED BY <1>1 DEF MemThreads, Written, Indexed

\* The same of a thread alone, and that no other is at the store
LEMMA MemAloneGo ==
    ASSUME MemInv, NEW t \in Threads, NEW c \in MemThread, thread' = [thread EXCEPT ![t] = c],
           UNCHANGED <<alone, hot>>, thread[t].at # "idle", alone,
           \A k \in Keys, v \in Nat : <<k, v>> \in c.todo => <<k, v>> \in thread[t].todo,
           c.at = "index" => newest' = c.now[1] /\ latest'[newest'] = c.now[2],
           Indexed(c) => row'[c.now[1]] = c.now[2]
    PROVE  /\ MemAlone'
           /\ \A u \in Threads \ {t} : thread[u].at = "idle" /\ thread'[u].at = "idle"
  <1>1. /\ thread'[t] = c /\ \A u \in Threads \ {t} : thread'[u] = thread[u]
    BY MemTypesGo DEF MemInv
  <1>2. \A u \in Threads \ {t} : thread[u].at = "idle" /\ thread'[u].at = "idle"
    BY <1>1 DEF MemInv, MemAlone
  <1>3. \A k \in Keys, v \in Nat : <<k, v>> \in thread[t].todo => hot[k] # None /\ hot[k].value = v
    BY DEF MemInv, MemAlone
  <1>4. \A u \in Threads \ {t} : ~Indexed(thread'[u]) /\ thread'[u].at # "index"
    BY <1>2 DEF Indexed
  <1> QED BY <1>1, <1>2, <1>3, <1>4 DEF MemAlone, Indexed

\* What a thread at work has, and how it may go on
LEMMA MemAtWork ==
    ASSUME MemInv, NEW t \in Threads
    PROVE  /\ thread[t] \in MemThread
           /\ \A k \in Keys, v \in Nat : <<k, v>> \in thread[t].todo => v \in past[k]
           /\ \A k \in Keys : Written(thread[t].text[k], k)
           /\ thread[t].at = "index" => thread[t].now \in thread[t].todo /\ newest # None
           /\ Indexed(thread[t]) => thread[t].now \in thread[t].todo /\ row[thread[t].now[1]] # None
  BY DEF MemInv, MemTypes, MemThreads

\* A record is appended to the list
LEMMA MemAppendRecord ==
    ASSUME MemInv, NEW t \in Threads, thread[t].at = "store", NEW kv \in thread[t].todo,
           Memory!AppendRecord(t, kv),
           UNCHANGED <<mode, alone, hot, disk, requests, past, removed>>
    PROVE  MemInv'
  <1>1. /\ thread[t] \in MemThread /\ latest \in Memory!Rows
        /\ mode # "server" /\ newest' = kv[1] /\ row' = row
        /\ latest' = [latest EXCEPT ![kv[1]] = kv[2]]
    BY DEF Memory!AppendRecord, MemInv, MemTypes
  <1>2. PICK k \in Keys, v \in Nat : kv = <<k, v>>
    BY <1>1 DEF MemThread
  <1>3. v \in past[k] /\ v # None /\ newest' = k
    BY <1>1, <1>2, MemAtWork, MemConstants
  <1>4. latest' \in Memory!Rows /\ latest'[k] = v /\ \A j \in Keys \ {k} : latest'[j] = latest[j]
    BY <1>1, <1>2 DEF Memory!Rows
  <1> DEFINE c == [thread[t] EXCEPT !.at = "index", !.now = kv]
  <1>5. /\ c \in MemThread /\ c.at = "index" /\ c.now = <<k, v>> /\ c.todo = thread[t].todo
        /\ c.text = thread[t].text
    BY <1>1, <1>2 DEF MemThread
  <1>6. thread' = [thread EXCEPT ![t] = c]
    BY DEF Memory!AppendRecord
  <1> HIDE DEF c
  <1>7. ~Indexed(c)
    BY <1>5 DEF Indexed
  <1>8. /\ thread' \in [Threads -> MemThread]
        /\ thread'[t] = c /\ \A u \in Threads \ {t} : thread'[u] = thread[u]
    BY <1>5, <1>6, MemTypesGo DEF MemInv
  <1>9. k # None
    BY MemConstants
  <1>10. MemTypes'
    BY <1>1, <1>3, <1>4, <1>8 DEF MemInv, MemTypes
  <1>11. MemValues'
    BY <1>1, <1>3, <1>4 DEF MemInv, MemValues, Written, Ever
  <1>12. MemThreads'
    BY <1>1, <1>2, <1>3, <1>5, <1>6, <1>7, <1>9, MemAtWork, MemThreadsGo
  <1>13. ASSUME alone
         PROVE  /\ MemAlone'
                /\ \A u \in Threads \ {t} : thread[u].at = "idle" /\ thread'[u].at = "idle"
    <2>1. newest' = c.now[1] /\ latest'[newest'] = c.now[2]
      BY <1>3, <1>4, <1>5
    <2> QED BY <1>5, <1>6, <1>7, <1>13, <2>1, MemAloneGo
  <1>14. MemDisk'
    <2> SUFFICES ASSUME mode = "file", alone PROVE MemDisk'
      BY DEF MemDisk
    <2>1. row = latest
      BY <1>13 DEF MemInv, MemDisk
    <2>2. \A u \in Threads : u = t \/ thread'[u].at = "idle"
      BY <1>13
    <2>3. \A j \in Keys : j # c.now[1] => row'[j] = latest'[j]
      BY <1>1, <1>4, <1>5, <2>1
    <2> QED BY <1>5, <1>8, <2>2, <2>3 DEF MemDisk
  <1> QED BY <1>10, <1>11, <1>12, <1>13, <1>14 DEF MemInv, MemAlone

\* An entry is put to the server
LEMMA MemStoreAtServer ==
    ASSUME MemInv, NEW t \in Threads, thread[t].at = "store", NEW kv \in thread[t].todo,
           Memory!StoreAtServer(t, kv),
           UNCHANGED <<mode, alone, hot, disk, requests, past, removed>>
    PROVE  MemInv'
  <1>1. /\ thread[t] \in MemThread /\ row \in Memory!Rows
        /\ mode = "server" /\ UNCHANGED <<latest, newest>>
    BY DEF Memory!StoreAtServer, Memory!list, MemInv, MemTypes
  <1>2. PICK k \in Keys, v \in Nat : kv = <<k, v>>
    BY <1>1 DEF MemThread
  <1>3. v \in past[k] /\ v # None
    BY <1>2, MemAtWork, MemConstants
  <1> DEFINE new == [row EXCEPT ![k] = v]
  <1>4. new \in Memory!Rows /\ new[k] = v /\ \A j \in Keys \ {k} : new[j] = row[j]
    BY <1>1 DEF Memory!Rows
  <1>5. PICK put \in Memory!Put(kv) :
            /\ row' = put.rows
            /\ thread' = [thread EXCEPT ![t] =
                            IF put.answered THEN [thread[t] EXCEPT !.at = "stored", !.now = kv]
                            ELSE Memory!IdleThread]
    BY DEF Memory!StoreAtServer
  <1>6. /\ put.rows = new \/ put.rows = row
        /\ put.answered => put.rows = new
    BY <1>2 DEF Memory!Put
  <1> HIDE DEF new
  <1>7. /\ row' \in Memory!Rows /\ \A j \in Keys : row'[j] \in Ever(j) \cup {None}
        /\ \A j \in Keys : row[j] # None => row'[j] # None
    BY <1>1, <1>3, <1>4, <1>5, <1>6 DEF MemInv, MemValues, Ever
  <1> DEFINE c == IF put.answered THEN [thread[t] EXCEPT !.at = "stored", !.now = kv]
                  ELSE Memory!IdleThread
  <1>8. /\ c \in MemThread
        /\ \/ c = Memory!IdleThread
           \/ /\ c.at = "stored" /\ c.now = <<k, v>> /\ c.todo = thread[t].todo
              /\ c.text = thread[t].text /\ row'[k] = v
    <2>1. CASE put.answered
      BY <1>1, <1>2, <1>4, <1>5, <1>6, <2>1 DEF MemThread
    <2>2. CASE ~put.answered
      BY <2>2, MemIdle
    <2> QED BY <2>1, <2>2
  <1>9. thread' = [thread EXCEPT ![t] = c]
    BY <1>5
  <1> HIDE DEF c
  <1>10. /\ thread' \in [Threads -> MemThread]
         /\ thread'[t] = c /\ \A u \in Threads \ {t} : thread'[u] = thread[u]
    BY <1>8, <1>9, MemTypesGo DEF MemInv
  <1>11. MemTypes'
    BY <1>1, <1>7, <1>10 DEF MemInv, MemTypes
  <1>12. MemValues'
    BY <1>1, <1>7 DEF MemInv, MemValues, Written, Ever
  <1>13. c.at # "index" /\ (c = Memory!IdleThread => ~Indexed(c))
    BY <1>8, MemIdle DEF Indexed
  <1>14. MemThreads'
    <2>1. /\ \A j \in Keys, w \in Nat : <<j, w>> \in c.todo => w \in past[j]
          /\ \A j \in Keys : Written(c.text[j], j)
      BY <1>8, MemIdle, MemAtWork DEF Written
    <2>2. Indexed(c) => c.now \in c.todo /\ row'[c.now[1]] # None
      BY <1>2, <1>3, <1>8, <1>13
    <2> QED BY <1>1, <1>7, <1>8, <1>9, <1>13, <2>1, <2>2, MemThreadsGo
  <1>15. MemAlone'
    <2> SUFFICES ASSUME alone PROVE MemAlone'
      BY DEF MemAlone
    <2>1. \A j \in Keys, w \in Nat : <<j, w>> \in c.todo => <<j, w>> \in thread[t].todo
      BY <1>8, MemIdle
    <2>2. Indexed(c) => row'[c.now[1]] = c.now[2]
      BY <1>8, <1>13
    <2> QED BY <1>8, <1>9, <1>13, <2>1, <2>2, MemAloneGo
  <1>16. MemDisk'
    BY <1>1 DEF MemDisk
  <1> QED BY <1>11, <1>12, <1>14, <1>15, <1>16 DEF MemInv

\* Either way, the next entry is stored
LEMMA MemStoreStep ==
    ASSUME MemInv, NEW t \in Threads, Memory!Store(t)
    PROVE  MemInv'
  <1>1. thread[t].at = "store" /\ UNCHANGED <<mode, alone, hot, disk, requests, past, removed>>
    BY DEF Memory!Store, Memory!history
  <1>2. PICK kv \in thread[t].todo : Memory!AppendRecord(t, kv) \/ Memory!StoreAtServer(t, kv)
    BY DEF Memory!Store
  <1> QED BY <1>1, <1>2, MemAppendRecord, MemStoreAtServer

\* The end of the list goes into the index
LEMMA MemIndexStep ==
    ASSUME MemInv, NEW t \in Threads, Memory!Index(t)
    PROVE  MemInv'
  <1>1. /\ thread[t].at = "index" /\ thread[t] \in MemThread
        /\ row \in Memory!Rows /\ latest \in Memory!Rows /\ newest \in Keys
        /\ thread[t].now \in thread[t].todo
        /\ row' = [row EXCEPT ![thread[t].now[1]] = latest[newest]]
        /\ UNCHANGED <<mode, alone, hot, latest, newest, disk, requests, past, removed>>
    BY MemAtWork DEF Memory!Index, Memory!history, Memory!list, MemInv, MemTypes
  <1>2. PICK k \in Keys, v \in Nat : thread[t].now = <<k, v>>
    BY <1>1 DEF MemThread
  <1>3. latest[newest] # None /\ latest[newest] \in Nat /\ latest[newest] \in past[newest]
        /\ row' \in Memory!Rows /\ row'[k] = latest[newest]
        /\ \A j \in Keys \ {k} : row'[j] = row[j]
    <2>1. newest # None
      BY <1>1, MemAtWork
    <2>2. latest[newest] # None /\ latest[newest] \in past[newest]
      BY <1>1, <2>1 DEF MemInv, MemValues, Written
    <2> QED BY <1>1, <1>2, <2>2 DEF Memory!Rows
  <1>4. alone => newest = k /\ latest[newest] = v
    BY <1>1, <1>2 DEF MemInv, MemAlone
  <1> DEFINE c == [thread[t] EXCEPT !.at = "dump"]
  <1>5. /\ c \in MemThread /\ c.at = "dump" /\ c.now = <<k, v>> /\ c.todo = thread[t].todo
        /\ c.text = thread[t].text
    BY <1>1, <1>2 DEF MemThread
  <1>6. thread' = [thread EXCEPT ![t] = c]
    BY DEF Memory!Index
  <1> HIDE DEF c
  <1>7. /\ thread' \in [Threads -> MemThread]
        /\ thread'[t] = c /\ \A u \in Threads \ {t} : thread'[u] = thread[u]
    BY <1>5, <1>6, MemTypesGo DEF MemInv
  <1>8. MemTypes'
    BY <1>1, <1>3, <1>7 DEF MemInv, MemTypes
  <1>9. latest[newest] \in Ever(k)
    BY <1>1, <1>3, <1>4 DEF Ever
  <1>10. MemValues'
    BY <1>1, <1>3, <1>9 DEF MemInv, MemValues, Written, Ever
  <1>11. MemThreads'
    <2>1. \A j \in Keys : row[j] # None => row'[j] # None
      BY <1>3
    <2>2. c.at # "index" /\ c.now \in c.todo /\ row'[c.now[1]] # None
      BY <1>1, <1>2, <1>3, <1>5
    <2>3. /\ \A j \in Keys, w \in Nat : <<j, w>> \in c.todo => w \in past[j]
          /\ \A j \in Keys : Written(c.text[j], j)
      BY <1>5, MemAtWork
    <2> QED BY <1>1, <1>5, <1>6, <2>1, <2>2, <2>3, MemThreadsGo
  <1>12. ASSUME alone
         PROVE  /\ MemAlone'
                /\ \A u \in Threads \ {t} : thread[u].at = "idle" /\ thread'[u].at = "idle"
    <2>1. row'[c.now[1]] = c.now[2]
      BY <1>3, <1>4, <1>5, <1>12
    <2>2. c.at # "index" /\ thread[t].at # "idle"
      BY <1>1, <1>5
    <2> QED BY <1>1, <1>5, <1>6, <1>12, <2>1, <2>2, MemAloneGo
  <1>13. MemDisk'
    <2> SUFFICES ASSUME mode = "file", alone PROVE MemDisk'
      BY <1>1 DEF MemDisk
    <2>1. \A u \in Threads : u = t \/ thread'[u].at = "idle"
      BY <1>12
    <2>2. \A j \in Keys : j # k => row[j] = latest[j]
      BY <1>1, <1>2 DEF MemInv, MemDisk
    <2>3. \A j \in Keys : row'[j] = latest[j]
      BY <1>3, <1>4, <2>2
    <2>4. row' = latest
      BY <1>1, <1>3, <2>3 DEF Memory!Rows
    <2> QED BY <1>1, <1>5, <1>7, <2>1, <2>4 DEF MemDisk
  <1> QED BY <1>1, <1>8, <1>10, <1>11, <1>12, <1>13 DEF MemInv, MemAlone

\* The text of the list is made, or the file is opened, which empties it
LEMMA MemDumpOpenStep ==
    ASSUME MemInv, NEW t \in Threads, Memory!Dump(t) \/ Memory!Open(t)
    PROVE  MemInv'
  <1>1. /\ thread[t] \in MemThread /\ latest \in Memory!Rows
        /\ UNCHANGED <<mode, alone, hot, latest, newest, row, requests, past, removed>>
        /\ \/ thread[t].at = "dump" /\ disk' = disk
           \/ thread[t].at = "open" /\ disk' = Torn
    BY DEF Memory!Dump, Memory!Open, Memory!history, Memory!list, MemInv, MemTypes
  <1>2. PICK c \in MemThread :
            /\ thread' = [thread EXCEPT ![t] = c]
            /\ c.at \in {"open", "write"} /\ c.now = thread[t].now /\ c.todo = thread[t].todo
            /\ c.text = (IF thread[t].at = "dump" THEN latest ELSE thread[t].text)
    <2>1. CASE Memory!Dump(t)
      <3> DEFINE c == [thread[t] EXCEPT !.at = "open", !.text = latest]
      <3>1. /\ c \in MemThread /\ c.at = "open" /\ c.now = thread[t].now /\ c.text = latest
            /\ c.todo = thread[t].todo
        BY <1>1 DEF MemThread
      <3>2. thread' = [thread EXCEPT ![t] = c] /\ thread[t].at = "dump"
        BY <2>1 DEF Memory!Dump
      <3> HIDE DEF c
      <3> QED BY <3>1, <3>2
    <2>2. CASE Memory!Open(t)
      <3> DEFINE c == [thread[t] EXCEPT !.at = "write"]
      <3>1. /\ c \in MemThread /\ c.at = "write" /\ c.now = thread[t].now /\ c.text = thread[t].text
            /\ c.todo = thread[t].todo
        BY <1>1 DEF MemThread
      <3>2. thread' = [thread EXCEPT ![t] = c] /\ thread[t].at = "open"
        BY <2>2 DEF Memory!Open
      <3> HIDE DEF c
      <3> QED BY <3>1, <3>2
    <2> QED BY <2>1, <2>2
  <1>3. /\ thread' \in [Threads -> MemThread]
        /\ thread'[t] = c /\ \A u \in Threads \ {t} : thread'[u] = thread[u]
    BY <1>2, MemTypesGo DEF MemInv
  <1>4. MemTypes'
    BY <1>1, <1>3 DEF MemInv, MemTypes
  <1>5. MemValues'
    BY <1>1 DEF MemInv, MemValues, Written, Ever
  <1>6. Indexed(c) => Indexed(thread[t])
    BY <1>1, <1>2 DEF Indexed
  <1>7. MemThreads'
    <2>1. \A j \in Keys : Written(c.text[j], j)
      BY <1>2, MemAtWork DEF MemInv, MemValues
    <2>2. /\ \A j \in Keys, w \in Nat : <<j, w>> \in c.todo => w \in past[j]
          /\ c.at # "index" /\ (Indexed(c) => c.now \in c.todo /\ row'[c.now[1]] # None)
      BY <1>1, <1>2, <1>6, MemAtWork
    <2> QED BY <1>1, <1>2, <2>1, <2>2, MemThreadsGo
  <1>8. ASSUME alone
        PROVE  /\ MemAlone'
               /\ \A u \in Threads \ {t} : thread[u].at = "idle" /\ thread'[u].at = "idle"
    <2>1. Indexed(c) => row'[c.now[1]] = c.now[2]
      BY <1>1, <1>2, <1>6, <1>8 DEF MemInv, MemAlone
    <2>2. c.at # "index" /\ thread[t].at # "idle"
          /\ \A j \in Keys, w \in Nat : <<j, w>> \in c.todo => <<j, w>> \in thread[t].todo
      BY <1>1, <1>2
    <2> QED BY <1>1, <1>2, <1>8, <2>1, <2>2, MemAloneGo
  <1>9. MemDisk'
    <2> SUFFICES ASSUME mode = "file", alone PROVE MemDisk'
      BY <1>1 DEF MemDisk
    <2>1. \A u \in Threads : u = t \/ (thread[u].at = "idle" /\ thread'[u].at = "idle")
      BY <1>8
    <2>2. row = latest
      <3>1. \A u \in Threads : thread[u].at # "index"
        BY <1>1, <2>1
      <3> QED BY <3>1 DEF MemInv, MemDisk
    <2>3. c.text = latest
      BY <1>1, <1>2 DEF MemInv, MemDisk
    <2> QED BY <1>1, <1>2, <1>3, <2>1, <2>2, <2>3 DEF MemDisk
  <1> QED BY <1>1, <1>4, <1>5, <1>7, <1>8, <1>9 DEF MemInv, MemAlone

\* The text goes into the file
LEMMA MemWriteStep ==
    ASSUME MemInv, NEW t \in Threads, Memory!Write(t)
    PROVE  MemInv'
  <1>1. /\ thread[t].at = "write"
        /\ disk' = thread[t].text
           \/ (disk' = Torn /\ \E u \in Threads \ {t} : thread[u].at = "write")
        /\ UNCHANGED <<mode, alone, hot, latest, newest, row, requests, past, removed>>
        /\ thread[t] \in MemThread /\ thread \in [Threads -> MemThread]
    BY DEF Memory!Write, Memory!history, Memory!list, MemInv, MemTypes
  <1> DEFINE c == Memory!AfterWrite(t)
  <1>2. /\ c \in MemThread
        /\ \/ c = Memory!IdleThread
           \/ /\ c.at = "stored" /\ c.now = thread[t].now /\ c.text = Memory!Nothing
              /\ c.todo = thread[t].todo /\ thread[t].now # None
    <2>1. CASE thread[t].now = None
      BY <2>1, MemIdle DEF Memory!AfterWrite
    <2>2. CASE thread[t].now # None
      BY <1>1, <2>2, MemIdle DEF Memory!AfterWrite, MemThread
    <2> QED BY <2>1, <2>2
  <1>3. thread' = [thread EXCEPT ![t] = c]
    BY <1>1 DEF Memory!Write
  <1> HIDE DEF c
  <1>4. /\ thread' \in [Threads -> MemThread]
        /\ thread'[t] = c /\ \A u \in Threads \ {t} : thread'[u] = thread[u]
    BY <1>2, <1>3, MemTypesGo DEF MemInv
  <1>5. disk' \in Memory!Rows \cup {Torn}
    BY <1>1 DEF MemThread
  <1>6. MemTypes'
    BY <1>1, <1>4, <1>5 DEF MemInv, MemTypes
  <1>7. MemValues'
    <2>1. disk' # Torn => \A k \in Keys : Written(disk'[k], k)
      BY <1>1, MemAtWork
    <2> QED BY <1>1, <2>1 DEF MemInv, MemValues, Written, Ever
  <1>8. Indexed(c) => Indexed(thread[t]) /\ c.now = thread[t].now /\ c.todo = thread[t].todo
    BY <1>1, <1>2, MemIdle DEF Indexed
  <1>9. c.at # "index" /\ c.at \in {"idle", "stored"}
    BY <1>2, MemIdle
  <1>10. MemThreads'
    <2>1. /\ \A j \in Keys, w \in Nat : <<j, w>> \in c.todo => w \in past[j]
          /\ \A j \in Keys : Written(c.text[j], j)
          /\ Indexed(c) => c.now \in c.todo /\ row'[c.now[1]] # None
      BY <1>1, <1>2, <1>8, MemIdle, MemAtWork DEF Written
    <2> QED BY <1>1, <1>2, <1>3, <1>9, <2>1, MemThreadsGo
  <1>11. ASSUME alone
         PROVE  /\ MemAlone'
                /\ \A u \in Threads \ {t} : thread[u].at = "idle" /\ thread'[u].at = "idle"
    <2>1. Indexed(c) => row'[c.now[1]] = c.now[2]
      BY <1>1, <1>8, <1>11 DEF MemInv, MemAlone
    <2>2. \A j \in Keys, w \in Nat : <<j, w>> \in c.todo => <<j, w>> \in thread[t].todo
      BY <1>2, MemIdle
    <2> QED BY <1>1, <1>2, <1>3, <1>9, <1>11, <2>1, <2>2, MemAloneGo
  <1>12. MemDisk'
    <2> SUFFICES ASSUME mode = "file", alone PROVE MemDisk'
      BY <1>1 DEF MemDisk
    <2>1. \A u \in Threads : u = t \/ (thread[u].at = "idle" /\ thread'[u].at = "idle")
      BY <1>11
    <2>2. row = latest
      <3>1. \A u \in Threads : thread[u].at # "index"
        BY <1>1, <2>1
      <3> QED BY <3>1 DEF MemInv, MemDisk
    <2>3. disk' = latest
      BY <1>1, <2>1 DEF MemInv, MemDisk
    <2>4. row = Memory!OnDisk'
      BY <2>2, <2>3, MemConstants DEF Memory!OnDisk, MemInv, MemTypes
    <2>5. \A u \in Threads : thread'[u].at \in {"idle", "stored"}
      BY <1>4, <1>9, <2>1
    <2> QED BY <1>1, <2>2, <2>4, <2>5 DEF MemDisk
  <1> QED BY <1>1, <1>6, <1>7, <1>10, <1>11, <1>12 DEF MemInv, MemAlone

\* What a thread that drops an entry leaves: the entry dropped is the one it stored
LEMMA MemDrops ==
    ASSUME MemInv, NEW t \in Threads, Memory!Drop(t)
    PROVE  /\ thread[t].at = "stored"
           /\ thread[t].now \in thread[t].todo
           /\ \E k \in Keys, v \in Nat : thread[t].now = <<k, v>>
           /\ hot' = Memory!Without({thread[t].now[1]}) \/ hot' = hot
           /\ UNCHANGED <<mode, alone, latest, newest, row, disk, requests, past, removed>>
  BY DEF Memory!Drop, Memory!history, Memory!list, MemInv, MemThreads, MemTypes, MemThread,
       Indexed

\* An entry that was stored is dropped from the hot ones
LEMMA MemDropStep ==
    ASSUME MemInv, NEW t \in Threads, Memory!Drop(t)
    PROVE  MemInv'
  <1>1. /\ thread[t].at = "stored" /\ thread[t].now \in thread[t].todo
        /\ hot' = Memory!Without({thread[t].now[1]}) \/ hot' = hot
        /\ UNCHANGED <<mode, alone, latest, newest, row, disk, requests, past, removed>>
        /\ thread[t] \in MemThread /\ thread \in [Threads -> MemThread]
    BY MemDrops DEF MemInv, MemTypes
  <1>2. PICK k \in Keys, v \in Nat : thread[t].now = <<k, v>>
    BY MemDrops
  <1>3. /\ hot \in [Keys -> Memory!Entry \cup {None}]
        /\ \A j \in Keys : hot'[j] = hot[j] \/ (j = k /\ hot'[j] = None)
        /\ hot' \in [Keys -> Memory!Entry \cup {None}]
    BY <1>1, <1>2 DEF Memory!Without, MemInv, MemTypes
  <1> DEFINE left == thread[t].todo \ {thread[t].now}
             c == IF left = {} THEN Memory!IdleThread
                  ELSE [thread[t] EXCEPT !.at = "store", !.now = None, !.todo = left]
  <1>4. /\ c \in MemThread
        /\ \/ c = Memory!IdleThread
           \/ c.at = "store" /\ c.todo = left /\ c.text = thread[t].text
        /\ ~Indexed(c) /\ c.at # "index"
    <2>1. left \in SUBSET (Keys \X Nat)
      BY <1>1 DEF MemThread
    <2> HIDE DEF left
    <2>2. CASE left = {}
      BY <2>2, MemIdle DEF Indexed
    <2>3. CASE left # {}
      BY <1>1, <2>1, <2>3 DEF MemThread, Indexed
    <2> QED BY <2>2, <2>3
  <1>5. thread' = [thread EXCEPT ![t] = c]
    BY <1>1 DEF Memory!Drop
  <1> HIDE DEF c
  <1>6. /\ thread' \in [Threads -> MemThread]
        /\ thread'[t] = c /\ \A u \in Threads \ {t} : thread'[u] = thread[u]
    BY <1>4, <1>5, MemTypesGo DEF MemInv
  <1>7. MemTypes'
    BY <1>1, <1>3, <1>6 DEF MemInv, MemTypes
  <1>8. MemValues'
    BY <1>1, <1>3 DEF MemInv, MemValues, Written, Ever
  <1>9. MemThreads'
    <2>1. /\ \A j \in Keys, w \in Nat : <<j, w>> \in c.todo => w \in past[j]
          /\ \A j \in Keys : Written(c.text[j], j)
      BY <1>4, MemIdle, MemAtWork DEF Written
    <2> QED BY <1>1, <1>4, <1>5, <2>1, MemThreadsGo
  <1>10. MemAlone'
    <2> SUFFICES ASSUME alone PROVE MemAlone'
      BY <1>1 DEF MemAlone
    <2>1. \A u \in Threads \ {t} : thread[u].at = "idle" /\ thread'[u].at = "idle"
      BY <1>1, <1>6 DEF MemInv, MemAlone
    <2>2. \A j \in Keys, w \in Nat : <<j,
          w>> \in thread[t].todo => hot[j] # None /\ hot[j].value = w
      BY <1>1 DEF MemInv, MemAlone
    <2>3. ASSUME NEW j \in Keys, NEW w \in Nat, <<j, w>> \in left
          PROVE  hot'[j] # None /\ hot'[j].value = w
      <3>1. hot[j] # None /\ hot[j].value = w /\ <<j, w>> # <<k, v>>
        BY <1>2, <2>2, <2>3
      <3>2. hot[k].value = v
        BY <1>1, <1>2, <2>2
      <3>3. j # k
        BY <3>1, <3>2
      <3> QED BY <1>3, <3>1, <3>3
    <2> HIDE DEF left
    <2>4. \A u \in Threads : ~Indexed(thread'[u]) /\ thread'[u].at # "index"
      BY <1>4, <1>6, <2>1 DEF Indexed
    <2> QED BY <1>1, <1>4, <1>6, <2>1, <2>3, <2>4, MemIdle DEF MemAlone, Indexed
  <1>11. MemDisk'
    <2> SUFFICES ASSUME mode = "file", alone PROVE MemDisk'
      BY <1>1 DEF MemDisk
    <2>1. \A u \in Threads \ {t} : thread[u].at = "idle" /\ thread'[u].at = "idle"
      BY <1>1, <1>6 DEF MemInv, MemAlone
    <2>2. row = Memory!OnDisk /\ row = latest
      <3>1. \A u \in Threads : thread[u].at \in {"idle", "stored"}
        BY <1>1, <2>1
      <3> QED BY <3>1 DEF MemInv, MemDisk
    <2>3. \A u \in Threads : thread'[u].at \in {"idle", "store"}
      BY <1>4, <1>6, <2>1, MemIdle
    <2> QED BY <1>1, <2>2, <2>3 DEF MemDisk, Memory!OnDisk
  <1> QED BY <1>7, <1>8, <1>9, <1>10, <1>11 DEF MemInv

\* The time of an entry runs out
LEMMA MemExpireStep ==
    ASSUME MemInv, NEW k \in Keys, Memory!Expire(k)
    PROVE  MemInv'
  <1>1. /\ hot[k] # None /\ requests' = requests + 1 /\ removed' = removed \cup {k}
        /\ UNCHANGED <<mode, alone, latest, newest, row, disk, thread, past>>
    BY DEF Memory!Expire, Memory!list
  <1>2. /\ hot \in [Keys -> Memory!Entry \cup {None}] /\ hot[k] \in Memory!Entry
        /\ requests \in Nat /\ removed \subseteq Keys /\ past \in [Keys -> SUBSET Nat]
    BY <1>1 DEF MemInv, MemTypes
  <1> DEFINE e == [hot[k] EXCEPT !.life = "over"]
  <1>3. e \in Memory!Entry /\ e.value = hot[k].value /\ e # None
    BY <1>2, MemConstants DEF Memory!Entry
  <1>4. hot' = [hot EXCEPT ![k] = e]
    BY DEF Memory!Expire
  <1> HIDE DEF e
  <1>5. hot' \in [Keys -> Memory!Entry \cup {None}] /\ hot'[k] = e
        /\ \A j \in Keys \ {k} : hot'[j] = hot[j]
    BY <1>2, <1>3, <1>4
  <1>6. HotMoves
    BY <1>1, <1>2, <1>3, <1>5 DEF HotMoves, MemInv, MemValues
  <1>7. \A j \in Keys : hot[j] # None => hot'[j] # None /\ hot'[j].value = hot[j].value
    BY <1>3, <1>5
  <1> QED BY <1>1, <1>6, <1>7, MemHot

\* The kernel is restarted, and reads the file
LEMMA MemRestartStep ==
    ASSUME MemInv, Memory!Restart
    PROVE  MemInv'
  <1>1. /\ hot' = Memory!Nothing /\ thread' = [t \in Threads |-> Memory!IdleThread]
        /\ requests' = requests + 1 /\ removed' = Keys /\ UNCHANGED <<mode, alone, past>>
        /\ newest' = None
        /\ \/ row' = Memory!OnDisk /\ latest' = Memory!OnDisk /\ disk' = disk
           \/ row' = Memory!Nothing /\ latest' = Memory!Nothing /\ disk' = Memory!Nothing
           \/ mode = "server" /\ UNCHANGED <<latest, row, disk>>
    BY DEF Memory!Restart
  <1>2. /\ Memory!OnDisk \in Memory!Rows /\ \A k \in Keys : Written(Memory!OnDisk[k], k)
        /\ \A k \in Keys : Written(latest[k], k) /\ Written(Memory!Nothing[k], k)
        /\ \A k \in Keys : row[k] \in Ever(k) \cup {None}
    BY MemIdle DEF MemInv, MemTypes, MemValues, Memory!OnDisk, Written
  <1>3. \A k \in Keys : Written(latest'[k], k) /\ row'[k] \in Ever(k) \cup {None}
    BY <1>1, <1>2 DEF Written, Ever
  <1>4. MemTypes'
    <2>1. hot' \in [Keys -> Memory!Entry \cup {None}]
      BY <1>1 DEF Memory!Nothing
    <2>2. thread' \in [Threads -> MemThread]
      BY <1>1, MemIdle
    <2> QED BY <1>1, <1>2, <2>1, <2>2, MemIdle DEF MemInv, MemTypes
  <1>5. MemValues'
    BY <1>1, <1>2, <1>3, MemIdle DEF MemInv, MemTypes, MemValues, Written, Ever
  <1>6. MemThreads'
    BY <1>1, MemIdle DEF MemThreads, Written, Indexed
  <1>7. MemAlone'
    BY <1>1, MemIdle DEF MemAlone, Indexed
  <1>8. MemDisk'
    <2>1. CASE row' = Memory!OnDisk /\ latest' = Memory!OnDisk /\ disk' = disk
      BY <1>1, <2>1, MemIdle DEF MemDisk, Memory!OnDisk
    <2>2. CASE row' = Memory!Nothing /\ latest' = Memory!Nothing /\ disk' = Memory!Nothing
      BY <1>1, <2>2, MemIdle DEF MemDisk, Memory!OnDisk
    <2>3. CASE mode = "server"
      BY <1>1, <2>3 DEF MemDisk
    <2> QED BY <1>1, <2>1, <2>2, <2>3
  <1> QED BY <1>4, <1>5, <1>6, <1>7, <1>8 DEF MemInv

\* The invariant speaks of nothing but the memory
LEMMA MemStutter ==
    ASSUME MemInv, UNCHANGED memoryVars
    PROVE  MemInv'
  <1> USE DEF memoryVars
  <1>1. MemTypes'
    BY DEF MemInv, MemTypes
  <1>2. MemValues'
    BY DEF MemInv, MemValues, Written, Ever
  <1>3. MemThreads'
    BY DEF MemInv, MemThreads, Written, Indexed
  <1>4. MemAlone'
    BY DEF MemInv, MemAlone, Indexed
  <1>5. MemDisk'
    BY DEF MemInv, MemDisk, Memory!OnDisk
  <1> QED BY <1>1, <1>2, <1>3, <1>4, <1>5 DEF MemInv

\* Every step of the memory keeps its invariant
LEMMA MemStep ==
    ASSUME MemInv, [Memory!Next]_memoryVars
    PROVE  MemInv'
  <1>1. CASE UNCHANGED memoryVars
    BY <1>1, MemStutter DEF memoryVars
  <1>2. ASSUME NEW t \in Threads, Memory!ThreadStep(t) PROVE MemInv'
    BY <1>2, MemSet, MemRequests, MemStoreStep, MemIndexStep, MemDumpOpenStep, MemWriteStep,
       MemDropStep
       DEF Memory!ThreadStep
  <1> QED BY <1>1, <1>2, MemExpireStep, MemRestartStep DEF Memory!Next

-----------------------------------------------------------------------------
(* The memory keeps the promise of KeyValue *)

\* The memory begins as KeyValue does
LEMMA PromiseBegins ==
    ASSUME Memory!Init
    PROVE  Memory!Promise!Init
  <1>1. [k \in Keys |-> Memory!Shown(k)] = [k \in Keys |-> None]
    BY DEF Memory!Init, Memory!Nothing, Memory!Shown, Memory!Asked
  <1> QED BY <1>1 DEF Memory!Init, Memory!Promise!Init

\* Where every key shows what it did, KeyValue stands still
LEMMA PromiseStutter ==
    ASSUME \A k \in Keys : Memory!Shown(k)' = Memory!Shown(k),
           UNCHANGED <<past, removed, requests, alone>>
    PROVE  UNCHANGED Memory!Promise!vars
  <1>1. [k \in Keys |-> Memory!Shown(k)]' = [k \in Keys |-> Memory!Shown(k)]
    OBVIOUS
  <1> QED BY <1>1 DEF Memory!Promise!vars

\* A key shows the value of a new request: KeyValue's Write
LEMMA PromiseWrite ==
    ASSUME NEW k \in Keys, requests' = requests + 1, Memory!Shown(k)' = <<requests', "value">>,
           \A j \in Keys \ {k} : Memory!Shown(j)' = Memory!Shown(j),
           past' = [past EXCEPT ![k] = past[k] \cup {requests'}], removed' = removed \ {k},
           UNCHANGED alone
    PROVE  Memory!Promise!Next
  <1> DEFINE show == <<requests', "value">>
  <1>1. [j \in Keys |-> Memory!Shown(j)]'
            = [[j \in Keys |-> Memory!Shown(j)] EXCEPT ![k] = show]
    OBVIOUS
  <1>2. Memory!Promise!Write(k)
    BY <1>1 DEF Memory!Promise!Write
  <1> QED BY <1>2 DEF Memory!Promise!Next

\* Keys are removed: KeyValue's Remove
LEMMA PromiseRemove ==
    ASSUME NEW ks \in SUBSET Keys, requests' = requests + 1, removed' = removed \cup ks,
           \A k \in ks : Memory!Shown(k)' \in Memory!Promise!TextsOf(k) \cup {None},
           \A k \in Keys \ ks : Memory!Shown(k)' = Memory!Shown(k),
           UNCHANGED <<past, alone>>
    PROVE  Memory!Promise!Next
  <1> DEFINE show == [k \in ks |-> Memory!Shown(k)']
  <1>1. /\ show \in [ks -> (UNION {Memory!Promise!TextsOf(k) : k \in ks}) \cup {None}]
        /\ \A k \in ks : show[k] \in Memory!Promise!TextsOf(k) \cup {None}
    <2>1. \A k \in ks : show[k] \in Memory!Promise!TextsOf(k) \cup {None}
      OBVIOUS
    <2>2. \A k \in ks : show[k] \in (UNION {Memory!Promise!TextsOf(j) : j \in ks}) \cup {None}
      BY <2>1
    <2> QED BY <2>1, <2>2
  <1>2. [k \in Keys |-> Memory!Shown(k)]'
            = [k \in Keys |-> IF k \in ks THEN show[k] ELSE [j \in Keys |-> Memory!Shown(j)][k]]
    OBVIOUS
  <1> HIDE DEF show
  <1>3. Memory!Promise!Remove(ks)
    BY <1>1, <1>2 DEF Memory!Promise!Remove
  <1> QED BY <1>3 DEF Memory!Promise!Next

\* One key shows the text of its value, or another text, or nothing
LEMMA PromiseChange ==
    ASSUME NEW k \in Keys, \A j \in Keys \ {k} : Memory!Shown(j)' = Memory!Shown(j),
           UNCHANGED <<past, removed, requests, alone>>,
           \/ \E v \in past[k] :
                Memory!Shown(k) = <<v, "value">> /\ Memory!Shown(k)' = <<v, "text">>
           \/ k \in removed /\ Memory!Shown(k)' \in Memory!Promise!TextsOf(k) \cup {None}
           \/ k \in Volatile /\ Memory!Shown(k)' = None
           \/ ~alone /\ Memory!Shown(k)' \in Memory!Promise!TextsOf(k)
    PROVE  Memory!Promise!Next
  <1> DEFINE show == Memory!Shown(k)'
             shows == [j \in Keys |-> Memory!Shown(j)]
  <1>1. shows' = [shows EXCEPT ![k] = show] /\ shows[k] = Memory!Shown(k)
    OBVIOUS
  <1>2. ASSUME NEW v \in past[k], Memory!Shown(k) = <<v, "value">>, show = <<v, "text">>
        PROVE  Memory!Promise!Next
    BY <1>1, <1>2 DEF Memory!Promise!Next, Memory!Promise!Serialise
  <1> HIDE DEF show
  <1>3. CASE k \in removed /\ show \in Memory!Promise!TextsOf(k) \cup {None}
    BY <1>1, <1>3 DEF Memory!Promise!Next, Memory!Promise!Return
  <1>4. CASE k \in Volatile /\ show = None
    BY <1>1, <1>4 DEF Memory!Promise!Next, Memory!Promise!Forget
  <1>5. CASE ~alone /\ show \in Memory!Promise!TextsOf(k)
    BY <1>1, <1>5 DEF Memory!Promise!Next, Memory!Promise!Revert
  <1> QED BY <1>2, <1>3, <1>4, <1>5 DEF show

\* What the store has under a key is the text of a write that may come to be there
LEMMA RowText ==
    ASSUME MemInv, NEW k \in Keys, row[k] # None
    PROVE  <<row[k], "text">> \in Memory!Promise!TextsOf(k)
  BY DEF MemInv, MemValues, Ever, Memory!Promise!TextsOf

\* What a key shows is what it is hot with, or what the store has of it
LEMMA ShownThere ==
    ASSUME MemInv, NEW k \in Keys
    PROVE  /\ hot[k] # None /\ hot[k].life # "over"
              => Memory!Shown(k) = <<hot[k].value, "value">>
           /\ hot[k] # None /\ hot[k].life = "over" => Memory!Shown(k) = None /\ k \in removed
           /\ hot[k] = None =>
                Memory!Shown(k) = IF k \in Volatile \/ row[k] = None THEN None
                                  ELSE <<row[k], "text">>
  BY DEF Memory!Shown, Memory!Asked, MemInv, MemValues

\* The same after a step
LEMMA ShownNext ==
    ASSUME NEW k \in Keys
    PROVE  /\ hot'[k] # None /\ hot'[k].life # "over"
              => Memory!Shown(k)' = <<hot'[k].value, "value">>
           /\ hot'[k] # None /\ hot'[k].life = "over" => Memory!Shown(k)' = None
           /\ hot'[k] = None =>
                Memory!Shown(k)' = IF k \in Volatile \/ row'[k] = None THEN None
                                   ELSE <<row'[k], "text">>
  BY DEF Memory!Shown, Memory!Asked

\* A key that is no longer hot shows a text, or nothing
LEMMA ShownCold ==
    ASSUME MemInv, NEW k \in Keys, hot'[k] = None, row'[k] = row[k]
    PROVE  Memory!Shown(k)' \in Memory!Promise!TextsOf(k) \cup {None}
  BY ShownNext, RowText

\* A key whose entry and record stay shows the same
LEMMA ShownSame ==
    ASSUME NEW k \in Keys, hot'[k] = hot[k], row'[k] = row[k]
    PROVE  Memory!Shown(k)' = Memory!Shown(k)
  BY DEF Memory!Shown

\* An entry installed is written, or times out at once
LEMMA PromiseInstall ==
    ASSUME MemInv, NEW k \in Keys, NEW life \in {"kept", "timed"}, requests' = requests + 1,
           Memory!Install(k, life), UNCHANGED <<alone, row>>
    PROVE  Memory!Promise!Next
  <1>1. hot \in [Keys -> Memory!Entry \cup {None}] /\ requests' \in Nat
    BY DEF MemInv, MemTypes
  <1> DEFINE e == [value |-> requests', life |-> life]
  <1>2. e \in Memory!Entry /\ e # None /\ e.value = requests' /\ e.life # "over"
    BY <1>1, MemConstants DEF Memory!Entry
  <1>3. hot' = [hot EXCEPT ![k] = e]
    BY DEF Memory!Install
  <1> HIDE DEF e
  <1>4. hot'[k] = e /\ \A j \in Keys \ {k} : hot'[j] = hot[j]
    BY <1>1, <1>3
  <1>5. Memory!Shown(k)' = <<requests', "value">>
    BY <1>2, <1>4, ShownNext
  <1>6. \A j \in Keys \ {k} : Memory!Shown(j)' = Memory!Shown(j)
    BY <1>4, ShownSame
  <1> QED BY <1>5, <1>6, PromiseWrite DEF Memory!Install

\* Entries discarded are removed
LEMMA PromiseDiscard ==
    ASSUME MemInv, NEW t \in Threads, NEW ks \in SUBSET Keys, Memory!Discard(t, ks)
    PROVE  Memory!Promise!Next
  <1>1. /\ requests' = requests + 1 /\ hot' = Memory!Without(ks) /\ removed' = removed \cup ks
        /\ UNCHANGED <<alone, row, past>>
    BY DEF Memory!Discard, Memory!Request, Memory!list
  <1>2. \A k \in Keys : hot'[k] = IF k \in ks THEN None ELSE hot[k]
    BY <1>1 DEF Memory!Without
  <1>3. \A k \in ks : Memory!Shown(k)' \in Memory!Promise!TextsOf(k) \cup {None}
    BY <1>1, <1>2, ShownCold
  <1>4. \A k \in Keys \ ks : Memory!Shown(k)' = Memory!Shown(k)
    BY <1>1, <1>2, ShownSame
  <1> QED BY <1>1, <1>3, <1>4, PromiseRemove

\* An entry dropped was stored: its record is shown instead of it
LEMMA PromiseDrop ==
    ASSUME MemInv, NEW t \in Threads, Memory!Drop(t)
    PROVE  [Memory!Promise!Next]_(Memory!Promise!vars)
  <1>1. /\ thread[t].at = "stored" /\ thread[t].now \in thread[t].todo
        /\ hot' = Memory!Without({thread[t].now[1]}) \/ hot' = hot
        /\ UNCHANGED <<mode, alone, latest, newest, row, disk, requests, past, removed>>
    BY MemDrops
  <1>2. PICK k \in Keys, v \in Nat : thread[t].now = <<k, v>>
    BY MemDrops
  <1>3. /\ \A j \in Keys \ {k} : hot'[j] = hot[j]
        /\ hot'[k] = None \/ hot'[k] = hot[k]
    BY <1>1, <1>2 DEF Memory!Without
  <1>4. \A j \in Keys \ {k} : Memory!Shown(j)' = Memory!Shown(j)
    BY <1>1, <1>3, ShownSame
  <1>5. CASE hot'[k] = hot[k]
    BY <1>1, <1>4, <1>5, ShownSame, PromiseStutter
  <1>6. CASE hot'[k] = None /\ hot[k] # None
    <2>1. row[k] # None
      BY <1>1, <1>2 DEF MemInv, MemThreads, Indexed
    <2>2. /\ Memory!Shown(k)' = IF k \in Volatile THEN None ELSE <<row[k], "text">>
          /\ <<row[k], "text">> \in Memory!Promise!TextsOf(k)
      BY <1>1, <1>6, <2>1, ShownNext, RowText
    <2>3. CASE k \in Volatile
      BY <1>1, <1>4, <2>2, <2>3, PromiseChange
    <2>4. CASE ~alone /\ k \notin Volatile
      BY <1>1, <1>4, <2>2, <2>4, PromiseChange
    <2>5. CASE alone /\ k \notin Volatile
      <3>1. row[k] = v /\ hot[k].value = v /\ v \in past[k]
        BY <1>1, <1>2, <1>6, <2>5 DEF MemInv, MemAlone, MemValues, Indexed
      <3>2. CASE hot[k].life = "over"
        BY <1>1, <1>4, <1>6, <2>2, <2>5, <3>2, ShownThere, PromiseChange
      <3>3. CASE hot[k].life # "over"
        <4>1. Memory!Shown(k) = <<v, "value">> /\ Memory!Shown(k)' = <<v, "text">>
          BY <1>6, <2>2, <2>5, <3>1, <3>3, ShownThere
        <4> QED BY <1>1, <1>4, <3>1, <4>1, PromiseChange
      <3> QED BY <3>2, <3>3
    <2> QED BY <2>3, <2>4, <2>5
  <1> QED BY <1>3, <1>5, <1>6

\* A text that goes into the store, of what is hot or from another thread
LEMMA PromisePut ==
    ASSUME MemInv, NEW k \in Keys, NEW v \in Nat,
           \A j \in Keys \ {k} : row'[j] = row[j], row'[k] = row[k] \/ row'[k] = v,
           UNCHANGED <<alone, hot, requests, past, removed>>,
           alone => hot[k] # None, <<v, "text">> \in Memory!Promise!TextsOf(k)
    PROVE  [Memory!Promise!Next]_(Memory!Promise!vars)
  <1>1. \A j \in Keys \ {k} : Memory!Shown(j)' = Memory!Shown(j)
    BY ShownSame
  <1>2. CASE row'[k] = row[k]
    BY <1>1, <1>2, ShownSame, PromiseStutter
  <1>3. CASE hot[k] # None \/ k \in Volatile
    <2>1. Memory!Shown(k)' = Memory!Shown(k)
      BY <1>3, ShownNext, ShownThere
    <2> QED BY <1>1, <2>1, PromiseStutter
  <1>4. CASE row'[k] = v /\ hot[k] = None /\ k \notin Volatile
    <2>1. Memory!Shown(k)' = <<v, "text">>
      BY <1>4, ShownNext, MemConstants
    <2> QED BY <1>1, <1>4, <2>1, PromiseChange
  <1> QED BY <1>2, <1>3, <1>4

\* The next entry goes into the list, where nobody sees it yet, or to the server
LEMMA PromiseStore ==
    ASSUME MemInv, NEW t \in Threads, Memory!Store(t)
    PROVE  [Memory!Promise!Next]_(Memory!Promise!vars)
  <1>1. /\ thread[t].at = "store" /\ thread[t] \in MemThread /\ row \in Memory!Rows
        /\ UNCHANGED <<alone, hot, requests, past, removed>>
    BY DEF Memory!Store, Memory!history, MemInv, MemTypes
  <1>2. PICK kv \in thread[t].todo : Memory!AppendRecord(t, kv) \/ Memory!StoreAtServer(t, kv)
    BY DEF Memory!Store
  <1>3. PICK k \in Keys, v \in Nat : kv = <<k, v>>
    BY <1>1 DEF MemThread
  <1>4. v \in past[k] /\ (alone => hot[k] # None)
    BY <1>1, <1>3 DEF MemInv, MemThreads, MemAlone
  <1>5. row' = row \/ row' = [row EXCEPT ![k] = v]
    BY <1>2, <1>3 DEF Memory!AppendRecord, Memory!StoreAtServer, Memory!Put
  <1>6. (\A j \in Keys \ {k} : row'[j] = row[j]) /\ (row'[k] = row[k] \/ row'[k] = v)
    BY <1>1, <1>5 DEF Memory!Rows
  <1>7. <<v, "text">> \in Memory!Promise!TextsOf(k)
    BY <1>4 DEF Memory!Promise!TextsOf
  <1> QED BY <1>1, <1>4, <1>6, <1>7, PromisePut

\* What is indexed is what is hot, or what another thread has appended
LEMMA PromiseIndex ==
    ASSUME MemInv, NEW t \in Threads, Memory!Index(t)
    PROVE  [Memory!Promise!Next]_(Memory!Promise!vars)
  <1>1. /\ thread[t].at = "index" /\ thread[t] \in MemThread /\ row \in Memory!Rows
        /\ thread[t].now \in thread[t].todo /\ newest \in Keys
        /\ row' = [row EXCEPT ![thread[t].now[1]] = latest[newest]]
        /\ UNCHANGED <<alone, hot, requests, past, removed>>
    BY MemAtWork DEF Memory!Index, Memory!history, MemInv, MemTypes
  <1>2. PICK k \in Keys, v \in Nat : thread[t].now = <<k, v>>
    BY <1>1 DEF MemThread
  <1>3. latest[newest] \in past[newest] /\ latest[newest] \in Nat
    <2>1. newest # None
      BY <1>1, MemAtWork
    <2> QED BY <1>1, <2>1 DEF MemInv, MemTypes, MemValues, Written
  <1>4. alone => hot[k] # None /\ newest = k
    BY <1>1, <1>2 DEF MemInv, MemAlone
  <1>5. (\A j \in Keys \ {k} : row'[j] = row[j]) /\ row'[k] = latest[newest]
    BY <1>1, <1>2 DEF Memory!Rows
  <1>6. <<latest[newest], "text">> \in Memory!Promise!TextsOf(k)
    BY <1>1, <1>3, <1>4 DEF Memory!Promise!TextsOf
  <1>7. PICK n \in Nat : n = latest[newest]
    BY <1>3
  <1> QED BY <1>1, <1>4, <1>5, <1>6, <1>7, PromisePut

\* An entry that times out is removed
LEMMA PromiseExpire ==
    ASSUME MemInv, NEW k \in Keys, Memory!Expire(k)
    PROVE  Memory!Promise!Next
  <1>1. /\ hot[k] # None /\ requests' = requests + 1 /\ removed' = removed \cup {k}
        /\ UNCHANGED <<alone, row, past>>
    BY DEF Memory!Expire
  <1>2. hot \in [Keys -> Memory!Entry \cup {None}] /\ hot[k] \in Memory!Entry
    BY <1>1 DEF MemInv, MemTypes
  <1> DEFINE e == [hot[k] EXCEPT !.life = "over"]
  <1>3. e # None /\ e.life = "over"
    BY <1>2, MemConstants DEF Memory!Entry
  <1>4. hot' = [hot EXCEPT ![k] = e]
    BY DEF Memory!Expire
  <1> HIDE DEF e
  <1>5. hot'[k] = e /\ \A j \in Keys \ {k} : hot'[j] = hot[j]
    BY <1>2, <1>4
  <1>6. Memory!Shown(k)' = None
    BY <1>3, <1>5, ShownNext
  <1>7. \A j \in Keys \ {k} : Memory!Shown(j)' = Memory!Shown(j)
    BY <1>1, <1>5, ShownSame
  <1>8. {k} \in SUBSET Keys
    OBVIOUS
  <1> QED BY <1>1, <1>6, <1>7, <1>8, PromiseRemove

\* After a restart the file is shown, which is what was, but for the volatile keys
LEMMA PromiseRestart ==
    ASSUME MemInv, Memory!Restart
    PROVE  Memory!Promise!Next
  <1>1. /\ hot' = Memory!Nothing /\ requests' = requests + 1 /\ removed' = Keys
        /\ UNCHANGED <<alone, past>>
        /\ row' = Memory!OnDisk \/ row' = Memory!Nothing \/ row' = row
    BY DEF Memory!Restart
  <1>2. \A k \in Keys : row'[k] \in Ever(k) \cup {None}
    BY <1>1, MemIdle DEF MemInv, MemValues, Memory!OnDisk, Written, Ever
  <1>3. \A k \in Keys : Memory!Shown(k)' \in Memory!Promise!TextsOf(k) \cup {None}
    <2>1. \A k \in Keys : hot'[k] = None
      BY <1>1, MemIdle
    <2>2. \A k \in Keys : row'[k] # None => <<row'[k], "text">> \in Memory!Promise!TextsOf(k)
      BY <1>2 DEF Ever, Memory!Promise!TextsOf
    <2> QED BY <2>1, <2>2, ShownNext
  <1>4. removed' = removed \cup Keys
    BY <1>1 DEF MemInv, MemTypes
  <1> QED BY <1>1, <1>3, <1>4, PromiseRemove

\* Every step of the memory is one of KeyValue, or leaves it as it is
LEMMA PromiseStep ==
    ASSUME MemInv, [Memory!Next]_memoryVars
    PROVE  [Memory!Promise!Next]_(Memory!Promise!vars)
  <1>1. ASSUME UNCHANGED <<hot, row, past, removed, requests, alone>>
        PROVE  UNCHANGED Memory!Promise!vars
    BY <1>1, ShownSame, PromiseStutter
  <1>2. CASE UNCHANGED memoryVars
    BY <1>1, <1>2 DEF memoryVars
  <1>3. ASSUME NEW t \in Threads, NEW k \in Keys, NEW life \in Memory!Lives,
                   Memory!Set(t, k, life)
        PROVE  Memory!Promise!Next
    BY <1>3, PromiseInstall DEF Memory!Set, Memory!Request, Memory!Lives
  <1>4. ASSUME NEW t \in Threads, NEW k \in Keys, Memory!Append(t, k)
        PROVE  Memory!Promise!Next
    BY <1>4, PromiseInstall DEF Memory!Append, Memory!Request
  <1>5. ASSUME NEW t \in Threads, NEW k \in Keys, Memory!GetExpired(t, k)
        PROVE  Memory!Promise!Next
    <2>1. /\ hot[k] # None /\ hot[k].life = "over" /\ hot' = Memory!Without({k})
          /\ UNCHANGED <<alone, row, requests, past, removed>>
      BY <1>5 DEF Memory!GetExpired, Memory!history, Memory!list
    <2>2. hot'[k] = None /\ \A j \in Keys \ {k} : hot'[j] = hot[j]
      BY <2>1 DEF Memory!Without
    <2>3. k \in removed /\ Memory!Shown(k)' \in Memory!Promise!TextsOf(k) \cup {None}
      BY <2>1, <2>2, ShownCold, ShownThere
    <2>4. \A j \in Keys \ {k} : Memory!Shown(j)' = Memory!Shown(j)
      BY <2>1, <2>2, ShownSame
    <2> QED BY <2>1, <2>3, <2>4, PromiseChange
  <1>6. ASSUME NEW t \in Threads,
               \/ \E k \in Keys : Memory!GetStored(t, k)
               \/ Memory!Maintain(t) \/ Memory!Flush(t)
               \/ Memory!Dump(t) \/ Memory!Open(t) \/ Memory!Write(t)
        PROVE  UNCHANGED Memory!Promise!vars
    <2>1. UNCHANGED <<hot, row, past, removed, requests, alone>>
      BY <1>6 DEF Memory!GetStored, Memory!Maintain, Memory!Flush, Memory!Dump, Memory!Open,
                  Memory!Write, Memory!history
    <2> QED BY <1>1, <2>1
  <1>7. ASSUME NEW t \in Threads,
               Memory!ClearThoughts(t) \/ \E ks \in Memory!Discards : Memory!Discard(t, ks)
        PROVE  Memory!Promise!Next
    <2>1. Volatile \in SUBSET Keys /\ Memory!Discards \subseteq SUBSET Keys
      BY MemConstants DEF Memory!Discards
    <2> QED BY <1>7, <2>1, PromiseDiscard DEF Memory!ClearThoughts
  <1>8. ASSUME NEW t \in Threads, Memory!ThreadStep(t)
        PROVE  [Memory!Promise!Next]_(Memory!Promise!vars)
    BY <1>3, <1>4, <1>5, <1>6, <1>7, <1>8, PromiseStore, PromiseIndex, PromiseDrop
       DEF Memory!ThreadStep
  <1> QED BY <1>2, <1>8, PromiseExpire, PromiseRestart DEF Memory!Next

\* A step of the kernel is one of the part, or leaves it as it is
LEMMA MemSteps == [Next]_vars => [Memory!Next]_memoryVars
  BY DEF Next, Still, vars, memoryVars

\* The invariant of the part holds in every behaviour of the kernel
LEMMA MemAlways == Spec => []MemInv
  <1>1. Init => MemInv
    BY MemInit DEF Init
  <1>2. MemInv /\ [Next]_vars => MemInv'
    BY MemSteps, MemStep
  <1> QED BY <1>1, <1>2, PTL DEF Spec

\* As long as one thread at a time is at the store, the file says what the index in memory
\* says whenever no thread is between the two (persistent_memory.py:269-272).
THEOREM DiskCorrect == Spec => []DiskCurrent
  <1>1. MemInv => DiskCurrent
    BY MemShows DEF DiskCurrent
  <1> QED BY <1>1, MemAlways, PTL

\* The memory implements KeyValue: what a reader is shown of a key changes only by a write, a
\* removal, the end of its time or a restart, by the value becoming its JSON text
\* (hybrid_memory.py:404), for thoughts and errors by being given up, or, where two threads are
\* at the store, by the text of another write (persistent_memory.py:269-270).
THEOREM PromiseKept == Spec => KeepsPromise
  <1>1. Init => Memory!Promise!Init
    BY PromiseBegins DEF Init
  <1>2. MemInv /\ [Next]_vars => [Memory!Promise!Next]_(Memory!Promise!vars)
    BY MemSteps, PromiseStep
  <1> QED
    BY <1>1, <1>2, MemAlways, PTL DEF Spec, KeepsPromise, Memory!KeepsPromise, Memory!Promise!Spec

-----------------------------------------------------------------------------
(* MessageBus.  The places a message has in the topics, and the times it was *)
(* taken from one, are counted against its acknowledgements and the threads *)
(* that are still to acknowledge it.                                       *)

\* Who is acknowledging, or has a message, knows which and whose
BusThreads ==
    \A t \in Threads :
        /\ actor[t].at \in {"ack", "fail", "taken"} => actor[t].msg \in Bus!All
        /\ actor[t].at \in {"consume", "taken"} => actor[t].agent \in Agents

\* Threads that published a message and are about to acknowledge it as sent
Acking(m) == {t \in Threads : actor[t].at = "ack" /\ actor[t].msg = m}

\* What is acknowledged as sent, and what is about to be, is in a topic or was taken from it
BusCounts ==
    broker = "none" => \A m \in Bus!All :
        /\ IsFiniteSet(Acking(m)) /\ IsFiniteSet(Bus!Places(m))
        /\ Bus!Count(acks[m], "sent") + Cardinality(Acking(m))
                <= Cardinality(Bus!Places(m)) + taken[m]

BusInv == Bus!TypeOK /\ BusThreads /\ BusCounts

\* The cardinality that MessageBus counts places with is the library's
LEMMA BusCardinality == ASSUME NEW S PROVE Bus!Cardinality(S) = Cardinality(S)
  BY DEF Bus!Cardinality, Cardinality

\* How often m is in a sequence is a number
LEMMA CountType ==
    ASSUME NEW T, NEW s \in Seq(T), NEW m
    PROVE  /\ IsFiniteSet({i \in DOMAIN s : s[i] = m})
           /\ Bus!Count(s, m) \in Nat
  <1>1. IsFiniteSet(DOMAIN s)
    <2>1. DOMAIN s = 1..Len(s) /\ Len(s) \in Nat
      OBVIOUS
    <2> QED BY <2>1, FS_Interval
  <1>2. IsFiniteSet({i \in DOMAIN s : s[i] = m})
    BY <1>1, FS_Subset
  <1> QED BY <1>2, FS_CardinalityType, BusCardinality DEF Bus!Count

\* A message put at the end of a sequence is counted once more
LEMMA CountAppended ==
    ASSUME NEW T, NEW s \in Seq(T), NEW x \in T, NEW m
    PROVE  Bus!Count(Append(s, x), m) = Bus!Count(s, m) + (IF x = m THEN 1 ELSE 0)
  <1> DEFINE old == {i \in DOMAIN s : s[i] = m}
             longer == Append(s, x)
             new == {i \in DOMAIN longer : longer[i] = m}
  <1>1. /\ Len(s) \in Nat /\ DOMAIN s = 1..Len(s) /\ DOMAIN longer = 1..(Len(s) + 1)
        /\ \A i \in DOMAIN s : longer[i] = s[i]
        /\ longer[Len(s) + 1] = x
    OBVIOUS
  <1>2. IsFiniteSet(old) /\ Bus!Count(s, m) = Cardinality(old) /\ Cardinality(old) \in Nat
    BY CountType, BusCardinality, FS_CardinalityType DEF Bus!Count
  <1>3. Bus!Count(longer, m) = Cardinality(new)
    BY BusCardinality DEF Bus!Count
  <1>4. CASE x = m
    <2>1. new = old \cup {Len(s) + 1} /\ Len(s) + 1 \notin old
      BY <1>1, <1>4
    <2>2. Cardinality(new) = Cardinality(old) + 1
      BY <1>2, <2>1, FS_AddElement
    <2> HIDE DEF new, old
    <2> QED BY <1>2, <1>3, <1>4, <2>2
  <1>5. CASE x # m
    <2>1. new = old
      BY <1>1, <1>5
    <2> HIDE DEF new, old
    <2> QED BY <1>2, <1>3, <1>5, <2>1
  <1> QED BY <1>4, <1>5

-----------------------------------------------------------------------------

PlacesIn(q, m) == UNION {{a} \X {i \in DOMAIN q[a] : q[a][i] = m} : a \in Agents}

\* Topics that differ in that of one agent
Elsewhere(q, r, a) ==
    /\ q \in [Agents -> Seq(Bus!All)] /\ r \in [Agents -> Seq(Bus!All)]
    /\ \A b \in Agents \ {a} : r[b] = q[b]

Taken(q, r, a, x) ==
    Elsewhere(q, r, a) /\ q[a] # <<>> /\ Head(q[a]) = x /\ r[a] = Tail(q[a])

\* A place of m is a topic and a position where m is
LEMMA PlaceOf ==
    ASSUME NEW q, NEW m, NEW p
    PROVE  p \in PlacesIn(q, m)
                <=> \E a \in Agents : \E i \in DOMAIN q[a] : p = <<a, i>> /\ q[a][i] = m
  BY DEF PlacesIn

\* A publish gives its message one place more
LEMMA PlacesAppended ==
    ASSUME NEW q, NEW r, NEW a \in Agents, NEW x \in Bus!All, NEW m, Elsewhere(q, r, a),
           r[a] = Append(q[a], x), IsFiniteSet(PlacesIn(q, m))
    PROVE  /\ IsFiniteSet(PlacesIn(r, m))
           /\ Cardinality(PlacesIn(r, m))
                = Cardinality(PlacesIn(q, m)) + (IF x = m THEN 1 ELSE 0)
  <1> USE DEF Elsewhere
  <1> DEFINE n == Len(q[a])
  <1>1. /\ n \in Nat /\ DOMAIN q[a] = 1..n /\ DOMAIN r[a] = 1..(n + 1)
        /\ \A i \in DOMAIN q[a] : r[a][i] = q[a][i]
        /\ r[a][n + 1] = x
        /\ \A b \in Agents \ {a} : r[b] = q[b]
    <2>1. q[a] \in Seq(Bus!All) /\ r[a] = Append(q[a], x)
      OBVIOUS
    <2> QED BY <2>1
  <1> HIDE DEF n
  <1>2. <<a, n + 1>> \notin PlacesIn(q, m)
    <2> SUFFICES ASSUME <<a, n + 1>> \in PlacesIn(q, m) PROVE FALSE
      OBVIOUS
    <2>1. PICK b \in Agents : \E i \in DOMAIN q[b] : <<a, n + 1>> = <<b, i>>
      BY PlaceOf
    <2> QED BY <1>1, <2>1
  <1>3. CASE x = m
    <2>1. PlacesIn(r, m) = PlacesIn(q, m) \cup {<<a, n + 1>>}
      <3>1. ASSUME NEW p \in PlacesIn(r, m) PROVE p \in PlacesIn(q, m) \cup {<<a, n + 1>>}
        <4>1. PICK b \in Agents : \E i \in DOMAIN r[b] : p = <<b, i>> /\ r[b][i] = m
          BY <3>1, PlaceOf
        <4>2. PICK i \in DOMAIN r[b] : p = <<b, i>> /\ r[b][i] = m
          BY <4>1
        <4>3. CASE b = a /\ i = n + 1
          BY <4>2, <4>3
        <4>4. CASE b # a \/ i # n + 1
          <5>1. i \in DOMAIN q[b] /\ q[b][i] = m
            <6>1. CASE b = a
              BY <1>1, <4>2, <4>4, <6>1
            <6>2. CASE b # a
              BY <1>1, <4>2, <6>2
            <6> QED BY <6>1, <6>2
          <5> QED BY <4>2, <5>1, PlaceOf
        <4> QED BY <4>3, <4>4
      <3>2. ASSUME NEW p \in PlacesIn(q, m) PROVE p \in PlacesIn(r, m)
        <4>1. PICK b \in Agents : \E i \in DOMAIN q[b] : p = <<b, i>> /\ q[b][i] = m
          BY <3>2, PlaceOf
        <4>2. PICK i \in DOMAIN q[b] : p = <<b, i>> /\ q[b][i] = m
          BY <4>1
        <4>3. i \in DOMAIN r[b] /\ r[b][i] = m
          <5>1. CASE b = a
            BY <1>1, <4>2, <5>1
          <5>2. CASE b # a
            BY <1>1, <4>2, <5>2
          <5> QED BY <5>1, <5>2
        <4> QED BY <4>2, <4>3, PlaceOf
      <3>3. <<a, n + 1>> \in PlacesIn(r, m)
        <4>1. n + 1 \in DOMAIN r[a] /\ r[a][n + 1] = m
          BY <1>1, <1>3
        <4> QED BY <4>1, PlaceOf
      <3> QED BY <3>1, <3>2, <3>3
    <2>2. /\ IsFiniteSet(PlacesIn(r, m))
          /\ Cardinality(PlacesIn(r, m)) = Cardinality(PlacesIn(q, m)) + 1
      BY <1>2, <2>1, FS_AddElement
    <2> QED BY <1>3, <2>2
  <1>4. CASE x # m
    <2>1. ASSUME NEW p PROVE p \in PlacesIn(r, m) <=> p \in PlacesIn(q, m)
      <3>1. ASSUME NEW b \in Agents
            PROVE  (\E i \in DOMAIN r[b] : p = <<b, i>> /\ r[b][i] = m)
                    <=> (\E i \in DOMAIN q[b] : p = <<b, i>> /\ q[b][i] = m)
        <4>1. CASE b = a
          BY <1>1, <1>4, <4>1
        <4>2. CASE b # a
          BY <1>1, <4>2
        <4> QED BY <4>1, <4>2
      <3> QED BY <3>1, PlaceOf
    <2>2. PlacesIn(r, m) = PlacesIn(q, m)
      BY <2>1
    <2>3. Cardinality(PlacesIn(q, m)) \in Nat
      BY FS_CardinalityType
    <2> QED BY <1>4, <2>2, <2>3
  <1> QED BY <1>3, <1>4

\* A consume takes the place of its message away, and moves the others up by one
LEMMA PlacesTaken ==
    ASSUME NEW q, NEW r, NEW a \in Agents, NEW x, NEW m, Taken(q, r, a, x),
           IsFiniteSet(PlacesIn(q, m))
    PROVE  /\ IsFiniteSet(PlacesIn(r, m))
           /\ Cardinality(PlacesIn(q, m))
                = Cardinality(PlacesIn(r, m)) + (IF x = m THEN 1 ELSE 0)
  <1> USE DEF Elsewhere, Taken
  <1> DEFINE n == Len(q[a])
             old == PlacesIn(q, m) \ {<<a, 1>>}
             new == PlacesIn(r, m)
  <1>1. /\ n \in Nat \ {0} /\ DOMAIN q[a] = 1..n /\ DOMAIN r[a] = 1..(n - 1)
        /\ \A i \in 1..(n - 1) : r[a][i] = q[a][i + 1]
        /\ Head(q[a]) = q[a][1]
        /\ \A b \in Agents \ {a} : r[b] = q[b] /\ DOMAIN q[b] = 1..Len(q[b]) /\ Len(q[b]) \in Nat
    <2>1. q[a] \in Seq(Bus!All) /\ r[a] = Tail(q[a])
      OBVIOUS
    <2>2. n \in Nat \ {0} /\ DOMAIN q[a] = 1..n
      BY <2>1
    <2>3. /\ DOMAIN r[a] = 1..(n - 1)
          /\ \A i \in 1..(n - 1) : r[a][i] = q[a][i + 1]
      BY <2>1, <2>2
    <2>4. Head(q[a]) = q[a][1]
      BY <2>1
    <2>5. ASSUME NEW b \in Agents \ {a}
          PROVE  r[b] = q[b] /\ DOMAIN q[b] = 1..Len(q[b]) /\ Len(q[b]) \in Nat
      <3>1. q[b] \in Seq(Bus!All) /\ r[b] = q[b]
        OBVIOUS
      <3> QED BY <3>1
    <2> QED BY <2>2, <2>3, <2>4, <2>5
  <1> HIDE DEF n
  <1>2. <<a, 1>> \in PlacesIn(q, m) <=> Head(q[a]) = m
    <2>1. CASE <<a, 1>> \in PlacesIn(q, m)
      <3>1. PICK b \in Agents : \E i \in DOMAIN q[b] : <<a, 1>> = <<b, i>> /\ q[b][i] = m
        BY <2>1, PlaceOf
      <3> QED BY <1>1, <2>1, <3>1
    <2>2. CASE Head(q[a]) = m
      <3>1. 1 \in DOMAIN q[a] /\ q[a][1] = m
        BY <1>1, <2>2
      <3> QED BY <2>2, <3>1, PlaceOf
    <2> QED BY <2>1, <2>2
  <1>3. ExistsBijection(old, new)
    <2> DEFINE f == [p \in old |-> IF p[1] = a THEN <<a, p[2] - 1>> ELSE p]
    <2>1. ASSUME NEW p \in old
          PROVE  \E b \in Agents : \E i \in DOMAIN q[b] :
                    p = <<b, i>> /\ q[b][i] = m /\ (b = a => i # 1)
      <3>1. p \in PlacesIn(q, m) /\ p # <<a, 1>>
        OBVIOUS
      <3>2. PICK b \in Agents : \E i \in DOMAIN q[b] : p = <<b, i>> /\ q[b][i] = m
        BY <3>1, PlaceOf
      <3> QED BY <3>1, <3>2
    <2>2. ASSUME NEW p \in old PROVE f[p] \in new
      <3>1. PICK b \in Agents : \E i \in DOMAIN q[b] :
                    p = <<b, i>> /\ q[b][i] = m /\ (b = a => i # 1)
        BY <2>1
      <3>2. PICK i \in DOMAIN q[b] : p = <<b, i>> /\ q[b][i] = m /\ (b = a => i # 1)
        BY <3>1
      <3>3. CASE b = a
        <4>1. f[p] = <<a, i - 1>>
          BY <3>2, <3>3
        <4>2. i - 1 \in DOMAIN r[a] /\ r[a][i - 1] = m
          BY <1>1, <3>2, <3>3
        <4> HIDE DEF f
        <4> QED BY <4>1, <4>2, PlaceOf
      <3>4. CASE b # a
        <4>1. f[p] = <<b, i>>
          BY <3>2, <3>4
        <4>2. i \in DOMAIN r[b] /\ r[b][i] = m
          BY <1>1, <3>2, <3>4
        <4> HIDE DEF f
        <4> QED BY <4>1, <4>2, PlaceOf
      <3> QED BY <3>3, <3>4
    <2>3. ASSUME NEW p \in old, NEW o \in old, f[p] = f[o] PROVE p = o
      <3>1. PICK b \in Agents : \E i \in DOMAIN q[b] : p = <<b, i>>
        BY <2>1
      <3>2. PICK i \in DOMAIN q[b] : p = <<b, i>>
        BY <3>1
      <3>3. PICK c \in Agents : \E j \in DOMAIN q[c] : o = <<c, j>>
        BY <2>1
      <3>4. PICK j \in DOMAIN q[c] : o = <<c, j>>
        BY <3>3
      <3> DEFINE k == IF b = a THEN i - 1 ELSE i
                 l == IF c = a THEN j - 1 ELSE j
      <3>5. f[p] = <<b, k>> /\ f[o] = <<c, l>>
        BY <3>2, <3>4
      <3>6. i \in Nat /\ j \in Nat
        BY <1>1
      <3>7. <<b, k>> = <<c, l>>
        BY <2>3, <3>5
      <3> HIDE DEF f, k, l
      <3>8. b = c /\ k = l
        BY <3>7
      <3>9. i = j
        BY <3>6, <3>8 DEF k, l
      <3> QED BY <3>2, <3>4, <3>8, <3>9
    <2>4. ASSUME NEW z \in new PROVE \E p \in old : f[p] = z
      <3>1. PICK b \in Agents : \E i \in DOMAIN r[b] : z = <<b, i>> /\ r[b][i] = m
        BY PlaceOf
      <3>2. PICK i \in DOMAIN r[b] : z = <<b, i>> /\ r[b][i] = m
        BY <3>1
      <3> DEFINE k == IF b = a THEN i + 1 ELSE i
      <3>3. k \in DOMAIN q[b] /\ q[b][k] = m /\ (b = a => k # 1) /\ (b = a => k - 1 = i)
        <4>1. CASE b = a
          BY <1>1, <3>2, <4>1
        <4>2. CASE b # a
          BY <1>1, <3>2, <4>2
        <4> QED BY <4>1, <4>2
      <3>4. <<b, k>> \in old
        <4> HIDE DEF k
        <4>1. <<b, k>> \in PlacesIn(q, m)
          BY <3>3, PlaceOf
        <4> QED BY <3>3, <4>1
      <3>5. f[<<b, k>>] = z
        <4> HIDE DEF k
        <4>1. f[<<b, k>>] = IF b = a THEN <<a, k - 1>> ELSE <<b, k>>
          BY <3>4
        <4> QED BY <3>2, <3>3, <4>1 DEF k
      <3> QED BY <3>4, <3>5
    <2>5. f \in [old -> new]
      BY <2>2
    <2> HIDE DEF f, old, new
    <2>6. f \in Injection(old, new) /\ f \in Surjection(old, new)
      BY <2>3, <2>4, <2>5 DEF Injection, Surjection, IsInjective
    <2> QED BY <2>6 DEF ExistsBijection, Bijection
  <1>4. IsFiniteSet(old) /\ Cardinality(old) \in Nat
    BY FS_RemoveElement, FS_CardinalityType
  <1>5. IsFiniteSet(new) /\ Cardinality(new) = Cardinality(old)
    BY <1>3, <1>4, FS_Bijection
  <1>6. Cardinality(old) = IF <<a, 1>> \in PlacesIn(q, m) THEN Cardinality(PlacesIn(q, m)) - 1
                           ELSE Cardinality(PlacesIn(q, m))
    BY FS_RemoveElement
  <1>7. Cardinality(PlacesIn(q, m)) \in Nat
    BY FS_CardinalityType
  <1>8. Cardinality(PlacesIn(q, m)) = Cardinality(new) + (IF x = m THEN 1 ELSE 0)
    BY <1>2, <1>4, <1>5, <1>6, <1>7
  <1> QED BY <1>5, <1>8

-----------------------------------------------------------------------------

\* MessageBus counts the places in its topics, before a step and after it
LEMMA BusPlaces ==
    /\ \A m : Bus!Places(m) = PlacesIn(queue, m)
    /\ \A m : Bus!Places(m)' = PlacesIn(queue', m)
  BY DEF Bus!Places, PlacesIn

\* A thread that goes on is among those that are about to acknowledge, or is not
LEMMA AckingMoves ==
    ASSUME Bus!TypeOK, NEW t \in Threads, NEW c, actor' = [actor EXCEPT ![t] = c], NEW m
    PROVE  Acking(m)' = IF c.at = "ack" /\ c.msg = m THEN Acking(m) \cup {t} ELSE Acking(m) \ {t}
  <1>1. actor'[t] = c /\ \A u \in Threads \ {t} : actor'[u] = actor[u]
    BY DEF Bus!TypeOK
  <1> QED BY <1>1 DEF Acking

\* A thread that goes on, without a message published, taken or acknowledged as sent
LEMMA BusRests ==
    ASSUME BusInv, NEW t \in Threads, NEW c, c.at # "ack",
           actor' = [actor EXCEPT ![t] = c], UNCHANGED <<broker, queue, taken>>,
           \A m \in Bus!All : Bus!Count(acks'[m], "sent") = Bus!Count(acks[m], "sent")
    PROVE  BusCounts'
  <1> SUFFICES ASSUME broker = "none", NEW m \in Bus!All
               PROVE  /\ IsFiniteSet(Acking(m)') /\ IsFiniteSet(Bus!Places(m)')
                      /\ Bus!Count(acks'[m], "sent") + Cardinality(Acking(m)')
                            <= Cardinality(Bus!Places(m)') + taken'[m]
    BY DEF BusCounts, Bus!All
  <1>1. /\ IsFiniteSet(Acking(m)) /\ IsFiniteSet(Bus!Places(m))
        /\ Bus!Count(acks[m], "sent") + Cardinality(Acking(m))
                <= Cardinality(Bus!Places(m)) + taken[m]
    BY DEF BusInv, BusCounts
  <1>2. acks[m] \in Seq({"sent", "failed", "received"}) /\ taken[m] \in Nat
    BY DEF BusInv, Bus!TypeOK
  <1>3. Bus!Count(acks[m], "sent") \in Nat
    BY <1>2, CountType
  <1>4. Acking(m)' = Acking(m) \ {t}
    BY AckingMoves DEF BusInv
  <1>5. /\ IsFiniteSet(Acking(m)') /\ Cardinality(Acking(m)') <= Cardinality(Acking(m))
        /\ Cardinality(Acking(m)') \in Nat /\ Cardinality(Acking(m)) \in Nat
        /\ Cardinality(Bus!Places(m)) \in Nat
    BY <1>1, <1>4, FS_RemoveElement, FS_CardinalityType, FS_Subset
  <1>6. Bus!Places(m)' = Bus!Places(m)
    BY DEF Bus!Places
  <1> QED BY <1>1, <1>2, <1>3, <1>5, <1>6

\* A publish makes one place, and one thread that is to acknowledge it
LEMMA BusPublishes ==
    ASSUME BusInv, NEW t \in Threads, actor[t].at = "idle", NEW x \in Bus!All, NEW a \in Agents,
           actor' = [actor EXCEPT ![t] = [at |-> "ack", msg |-> x, agent |-> a]],
           queue' = [queue EXCEPT ![a] = Append(queue[a], x)],
           UNCHANGED <<broker, acks, taken>>
    PROVE  BusCounts'
  <1> SUFFICES ASSUME broker = "none", NEW m \in Bus!All
               PROVE  /\ IsFiniteSet(Acking(m)') /\ IsFiniteSet(Bus!Places(m)')
                      /\ Bus!Count(acks'[m], "sent") + Cardinality(Acking(m)')
                            <= Cardinality(Bus!Places(m)') + taken'[m]
    BY DEF BusCounts, Bus!All
  <1>1. /\ IsFiniteSet(Acking(m)) /\ IsFiniteSet(Bus!Places(m))
        /\ Bus!Count(acks[m], "sent") + Cardinality(Acking(m))
                <= Cardinality(Bus!Places(m)) + taken[m]
    BY DEF BusInv, BusCounts
  <1>2. /\ acks[m] \in Seq({"sent", "failed", "received"}) /\ taken[m] \in Nat
        /\ queue \in [Agents -> Seq(Bus!All)]
    BY DEF BusInv, Bus!TypeOK
  <1>3. Bus!Count(acks[m], "sent") \in Nat
    BY <1>2, CountType
  <1>4. Acking(m)' = IF x = m THEN Acking(m) \cup {t} ELSE Acking(m) \ {t}
    <2> DEFINE c == [at |-> "ack", msg |-> x, agent |-> a]
    <2>1. c.at = "ack" /\ c.msg = x /\ actor' = [actor EXCEPT ![t] = c]
      OBVIOUS
    <2> HIDE DEF c
    <2> QED BY <2>1, AckingMoves DEF BusInv
  <1>5. Cardinality(Acking(m)) \in Nat /\ Cardinality(Bus!Places(m)) \in Nat
    BY <1>1, FS_CardinalityType
  <1>6. t \notin Acking(m)
    BY DEF Acking
  <1>7. /\ IsFiniteSet(Acking(m)')
        /\ Cardinality(Acking(m)') = Cardinality(Acking(m)) + (IF x = m THEN 1 ELSE 0)
    <2>1. CASE x = m
      BY <1>1, <1>4, <1>6, <2>1, FS_AddElement
    <2>2. CASE x # m
      <3>1. Acking(m)' = Acking(m)
        BY <1>4, <1>6, <2>2
      <3> QED BY <1>1, <1>5, <2>2, <3>1
    <2> QED BY <2>1, <2>2
  <1>8. /\ IsFiniteSet(Bus!Places(m)')
        /\ Cardinality(Bus!Places(m)') = Cardinality(Bus!Places(m)) + (IF x = m THEN 1 ELSE 0)
    <2>1. IsFiniteSet(PlacesIn(queue, m))
      BY <1>1, BusPlaces
    <2> DEFINE r == queue'
    <2>2. Elsewhere(queue, r, a) /\ r[a] = Append(queue[a], x)
      BY <1>2 DEF Elsewhere
    <2> HIDE DEF r
    <2>3. /\ IsFiniteSet(PlacesIn(r, m))
          /\ Cardinality(PlacesIn(r, m))
                = Cardinality(PlacesIn(queue, m)) + (IF x = m THEN 1 ELSE 0)
      BY <1>2, <2>1, <2>2, PlacesAppended
    <2> QED BY <2>3, BusPlaces DEF r
  <1> QED BY <1>1, <1>2, <1>3, <1>5, <1>7, <1>8

\* A thread that acknowledges a message is no longer about to
LEMMA BusAcked ==
    ASSUME BusInv, NEW t \in Threads, actor[t].at = "ack",
           acks' = [acks EXCEPT ![actor[t].msg] = Append(acks[actor[t].msg], "sent")],
           actor' = [actor EXCEPT ![t] = Bus!Idle], UNCHANGED <<broker, queue, taken>>
    PROVE  BusCounts'
  <1> DEFINE x == actor[t].msg
  <1> SUFFICES ASSUME broker = "none", NEW m \in Bus!All
               PROVE  /\ IsFiniteSet(Acking(m)') /\ IsFiniteSet(Bus!Places(m)')
                      /\ Bus!Count(acks'[m], "sent") + Cardinality(Acking(m)')
                            <= Cardinality(Bus!Places(m)') + taken'[m]
    BY DEF BusCounts, Bus!All
  <1>1. /\ IsFiniteSet(Acking(m)) /\ IsFiniteSet(Bus!Places(m))
        /\ Bus!Count(acks[m], "sent") + Cardinality(Acking(m))
                <= Cardinality(Bus!Places(m)) + taken[m]
    BY DEF BusInv, BusCounts
  <1>2. /\ acks \in [Bus!All -> Seq({"sent", "failed", "received"})] /\ taken[m] \in Nat
        /\ acks[m] \in Seq({"sent", "failed", "received"})
    BY DEF BusInv, Bus!TypeOK
  <1>3. Bus!Count(acks[m], "sent") \in Nat
    BY <1>2, CountType
  <1>4. Acking(m)' = Acking(m) \ {t}
    <2>1. Bus!Idle.at # "ack"
      BY DEF Bus!Idle
    <2> QED BY <2>1, AckingMoves DEF BusInv
  <1>5. Cardinality(Acking(m)) \in Nat /\ Cardinality(Bus!Places(m)) \in Nat
    BY <1>1, FS_CardinalityType
  <1>6. t \in Acking(m) <=> x = m
    BY DEF Acking
  <1>7. /\ IsFiniteSet(Acking(m)') /\ Cardinality(Acking(m)') \in Nat
        /\ Cardinality(Acking(m)) = Cardinality(Acking(m)') + (IF x = m THEN 1 ELSE 0)
    <2>0. IsFiniteSet(Acking(m)')
      BY <1>1, <1>4, FS_RemoveElement
    <2>1. IsFiniteSet(Acking(m)') /\ Cardinality(Acking(m)') \in Nat
      BY <2>0, FS_CardinalityType
    <2>2. Cardinality(Acking(m)') = IF t \in Acking(m) THEN Cardinality(Acking(m)) - 1
                                    ELSE Cardinality(Acking(m))
      BY <1>1, <1>4, FS_RemoveElement
    <2> QED BY <1>5, <1>6, <2>1, <2>2
  <1>8. Bus!Count(acks'[m], "sent") = Bus!Count(acks[m], "sent") + (IF x = m THEN 1 ELSE 0)
    <2>1. CASE x = m
      <3>1. acks'[m] = Append(acks[m], "sent")
        BY <1>2, <2>1
      <3>2. Bus!Count(Append(acks[m], "sent"), "sent") = Bus!Count(acks[m], "sent") + 1
        BY <1>2, CountAppended
      <3> QED BY <2>1, <3>1, <3>2
    <2>2. CASE x # m
      <3>1. acks'[m] = acks[m]
        BY <1>2, <2>2
      <3> QED BY <1>3, <2>2, <3>1
    <2> QED BY <2>1, <2>2
  <1>9. Bus!Places(m)' = Bus!Places(m)
    BY DEF Bus!Places
  <1> HIDE DEF x
  <1> QED BY <1>1, <1>2, <1>3, <1>5, <1>7, <1>8, <1>9

\* A message that a consumer takes has a place less and is taken once more
LEMMA BusTakes ==
    ASSUME BusInv, NEW t \in Threads, actor[t].at = "consume", NEW a \in Agents, queue[a] # <<>>,
           actor' = [actor EXCEPT ![t] = [at |-> "taken", msg |-> Head(queue[a]), agent |-> a]],
           queue' = [queue EXCEPT ![a] = Tail(queue[a])],
           taken' = [taken EXCEPT ![Head(queue[a])] = taken[Head(queue[a])] + 1],
           UNCHANGED <<broker, acks>>
    PROVE  BusCounts'
  <1> DEFINE x == Head(queue[a])
  <1> SUFFICES ASSUME broker = "none", NEW m \in Bus!All
               PROVE  /\ IsFiniteSet(Acking(m)') /\ IsFiniteSet(Bus!Places(m)')
                      /\ Bus!Count(acks'[m], "sent") + Cardinality(Acking(m)')
                            <= Cardinality(Bus!Places(m)') + taken'[m]
    BY DEF BusCounts, Bus!All
  <1>1. /\ IsFiniteSet(Acking(m)) /\ IsFiniteSet(Bus!Places(m))
        /\ Bus!Count(acks[m], "sent") + Cardinality(Acking(m))
                <= Cardinality(Bus!Places(m)) + taken[m]
    BY DEF BusInv, BusCounts
  <1>2. /\ acks[m] \in Seq({"sent", "failed", "received"}) /\ taken \in [Bus!All -> Nat]
        /\ taken[m] \in Nat /\ queue \in [Agents -> Seq(Bus!All)]
    BY DEF BusInv, Bus!TypeOK
  <1>3. Bus!Count(acks[m], "sent") \in Nat
    BY <1>2, CountType
  <1>4. Acking(m)' = Acking(m) \ {t}
    <2> DEFINE c == [at |-> "taken", msg |-> x, agent |-> a]
    <2>1. c.at # "ack" /\ actor' = [actor EXCEPT ![t] = c]
      OBVIOUS
    <2> HIDE DEF c
    <2> QED BY <2>1, AckingMoves DEF BusInv
  <1>5. Cardinality(Acking(m)) \in Nat /\ Cardinality(Bus!Places(m)) \in Nat
    BY <1>1, FS_CardinalityType
  <1>6. t \notin Acking(m)
    BY DEF Acking
  <1>7. Acking(m)' = Acking(m)
    BY <1>4, <1>6
  <1>8. /\ IsFiniteSet(Bus!Places(m)')
        /\ Cardinality(Bus!Places(m)) = Cardinality(Bus!Places(m)') + (IF x = m THEN 1 ELSE 0)
    <2>1. IsFiniteSet(PlacesIn(queue, m))
      BY <1>1, BusPlaces
    <2> DEFINE r == queue'
    <2>2. Taken(queue, r, a, x)
      BY <1>2 DEF Elsewhere, Taken
    <2> HIDE DEF r, x
    <2>3. /\ IsFiniteSet(PlacesIn(r, m))
          /\ Cardinality(PlacesIn(queue, m))
                = Cardinality(PlacesIn(r, m)) + (IF x = m THEN 1 ELSE 0)
      BY <1>2, <2>1, <2>2, PlacesTaken
    <2> QED BY <2>3, BusPlaces DEF r
  <1>9. Cardinality(Bus!Places(m)') \in Nat
    BY <1>8, FS_CardinalityType
  <1>10. taken'[m] = taken[m] + (IF x = m THEN 1 ELSE 0)
    BY <1>2
  <1> HIDE DEF x
  <1> QED BY <1>1, <1>2, <1>3, <1>5, <1>7, <1>8, <1>9, <1>10

-----------------------------------------------------------------------------

\* The invariant says of the bus what the run checks: no message that was acknowledged
\* as sent is missing both in its topic and among the messages taken
LEMMA BusShows == BusInv => Bus!TypeOK /\ Bus!SentIsKept
  <1> SUFFICES ASSUME BusInv, broker = "none", NEW m \in Bus!All
               PROVE  Bus!Count(acks[m], "sent") <= Cardinality(Bus!Places(m)) + taken[m]
    BY BusCardinality DEF BusInv, Bus!SentIsKept
  <1>1. /\ IsFiniteSet(Acking(m)) /\ IsFiniteSet(Bus!Places(m))
        /\ Bus!Count(acks[m], "sent") + Cardinality(Acking(m))
                <= Cardinality(Bus!Places(m)) + taken[m]
    BY DEF BusInv, BusCounts
  <1>2. acks[m] \in Seq({"sent", "failed", "received"}) /\ taken[m] \in Nat
    BY DEF BusInv, Bus!TypeOK
  <1>3. Bus!Count(acks[m], "sent") \in Nat
    BY <1>2, CountType
  <1>4. Cardinality(Acking(m)) \in Nat /\ Cardinality(Bus!Places(m)) \in Nat
    BY <1>1, FS_CardinalityType
  <1> QED BY <1>1, <1>2, <1>3, <1>4

\* The bus begins with empty topics and nothing to acknowledge
LEMMA BusInit ==
    ASSUME Bus!Init
    PROVE  BusInv
  <1>1. Bus!TypeOK
    <2>1. \A T : <<>> \in Seq(T)
      OBVIOUS
    <2> QED BY <2>1 DEF Bus!Init, Bus!TypeOK, Bus!Idle
  <1>2. BusThreads
    BY DEF Bus!Init, BusThreads, Bus!Idle
  <1>3. ASSUME NEW m \in Bus!All
        PROVE  /\ IsFiniteSet(Acking(m)) /\ IsFiniteSet(Bus!Places(m))
               /\ Bus!Count(acks[m], "sent") + Cardinality(Acking(m))
                    <= Cardinality(Bus!Places(m)) + taken[m]
    <2>1. Acking(m) = {}
      BY DEF Bus!Init, Acking, Bus!Idle
    <2>2. Bus!Places(m) = {}
      <3>1. \A a \in Agents : DOMAIN queue[a] = {}
        BY DEF Bus!Init
      <3> QED BY <3>1 DEF Bus!Places
    <2>3. Bus!Count(acks[m], "sent") = 0
      <3>1. acks[m] = <<>> /\ DOMAIN acks[m] = {}
        BY DEF Bus!Init
      <3>2. {i \in DOMAIN acks[m] : acks[m][i] = "sent"} = {}
        BY <3>1
      <3> QED BY <3>2, FS_EmptySet, BusCardinality DEF Bus!Count
    <2>4. taken[m] = 0
      BY DEF Bus!Init
    <2> QED BY <2>1, <2>2, <2>3, <2>4, FS_EmptySet
  <1> QED BY <1>1, <1>2, <1>3 DEF BusInv, BusCounts

BusActor ==
    [at : {"idle", "ack", "fail", "consume", "taken"},
     msg : Bus!All \cup {None}, agent : Agents \cup {None}]

\* A thread goes on with a message of the bus and an agent of its own
LEMMA BusGoes ==
    ASSUME Bus!TypeOK, BusThreads, NEW t \in Threads, NEW c \in BusActor,
           actor' = [actor EXCEPT ![t] = c],
           c.at \in {"ack", "fail", "taken"} => c.msg \in Bus!All,
           c.at \in {"consume", "taken"} => c.agent \in Agents
    PROVE  actor' \in [Threads -> BusActor] /\ BusThreads'
  <1>1. actor \in [Threads -> BusActor]
    BY DEF Bus!TypeOK, BusActor
  <1>2. actor'[t] = c /\ \A u \in Threads \ {t} : actor'[u] = actor[u]
    BY <1>1
  <1>3. actor' \in [Threads -> BusActor]
    BY <1>1
  <1>4. ASSUME NEW u \in Threads
        PROVE  /\ actor'[u].at \in {"ack", "fail", "taken"} => actor'[u].msg \in Bus!All
               /\ actor'[u].at \in {"consume", "taken"} => actor'[u].agent \in Agents
    BY <1>2 DEF BusThreads
  <1>5. BusThreads'
    BY <1>4 DEF BusThreads, Bus!All
  <1> QED BY <1>3, <1>5

\* A publish, which ends at the acknowledgement
LEMMA BusPublish ==
    ASSUME BusInv, NEW t \in Threads, actor[t].at = "idle", NEW m \in Bus!All, NEW a \in Agents,
           Bus!Publish(t, m, a), UNCHANGED <<broker, acks, taken>>
    PROVE  /\ queue' \in [Agents -> Seq(Bus!All)]
           /\ actor' \in [Threads -> BusActor] /\ BusThreads' /\ BusCounts'
  <1>1. queue \in [Agents -> Seq(Bus!All)] /\ queue[a] \in Seq(Bus!All)
    BY DEF BusInv, Bus!TypeOK
  <1>2. queue' \in [Agents -> Seq(Bus!All)]
    <2>1. Append(queue[a], m) \in Seq(Bus!All)
      BY <1>1
    <2> QED BY <1>1, <2>1 DEF Bus!Publish
  <1>3. actor' \in [Threads -> BusActor] /\ BusThreads'
    <2>1. CASE UNCHANGED actor
      BY <2>1 DEF BusInv, BusThreads, Bus!TypeOK, BusActor, Bus!All
    <2>2. CASE Bus!Goto(t, "ack", m, a)
      <3> DEFINE c == [at |-> "ack", msg |-> m, agent |-> a]
      <3>1. c \in BusActor /\ c.at = "ack" /\ c.msg = m
        BY DEF BusActor
      <3>2. actor' = [actor EXCEPT ![t] = c]
        BY <2>2 DEF Bus!Goto
      <3> HIDE DEF c
      <3> QED BY <3>1, <3>2, BusGoes DEF BusInv
    <2> QED BY <2>1, <2>2 DEF Bus!Publish
  <1>4. BusCounts'
    <2>1. CASE broker = "none"
      <3>1. queue' = [queue EXCEPT ![a] = Append(queue[a], m)]
        BY <2>1 DEF Bus!Publish, Bus!Stored
      <3>2. actor' = [actor EXCEPT ![t] = [at |-> "ack", msg |-> m, agent |-> a]]
        BY <2>1 DEF Bus!Publish, Bus!Thrown, Bus!Goto
      <3> QED BY <3>1, <3>2, BusPublishes
    <2>2. CASE broker # "none"
      BY <2>2 DEF BusCounts
    <2> QED BY <2>1, <2>2
  <1> QED BY <1>2, <1>3, <1>4

\* send_message, with and without a broker
LEMMA BusSendsP2P ==
    ASSUME BusInv, NEW t \in Threads, NEW m \in Messages, NEW a \in Agents, Bus!SendP2P(t, m, a)
    PROVE  BusInv'
  <1>1. /\ actor[t].at = "idle" /\ m \in Bus!All /\ Bus!Publish(t, m, a)
        /\ UNCHANGED <<broker, pods, acks, unacked, dead, hops, holder, taken>>
    BY DEF Bus!SendP2P, Bus!All
  <1>2. /\ queue' \in [Agents -> Seq(Bus!All)]
        /\ actor' \in [Threads -> BusActor] /\ BusThreads' /\ BusCounts'
    BY <1>1, BusPublish
  <1>3. inbox' \in [Agents -> Seq(Messages)]
    <2>1. inbox \in [Agents -> Seq(Messages)] /\ inbox[a] \in Seq(Messages)
      BY DEF BusInv, Bus!TypeOK
    <2>2. Append(inbox[a], m) \in Seq(Messages)
      BY <2>1
    <2> QED BY <2>1, <2>2 DEF Bus!SendP2P
  <1>4. sends' \in [Messages -> Nat]
    BY DEF BusInv, Bus!TypeOK, Bus!SendP2P
  <1> QED BY <1>1, <1>2, <1>3, <1>4 DEF BusInv, Bus!TypeOK, BusActor, Bus!All

\* publish_envelope
LEMMA BusSendsEnvelope ==
    ASSUME BusInv, NEW t \in Threads, NEW e \in Envelopes, NEW a \in Agents,
           Bus!SendEnvelope(t, e, a)
    PROVE  BusInv'
  <1>1. /\ actor[t].at = "idle" /\ e \in Bus!All
        /\ UNCHANGED <<broker, pods, inbox, acks, unacked, taken, sends>>
    BY DEF Bus!SendEnvelope, Bus!All
  <1>2. hops' \in [Envelopes -> Nat] /\ holder' \in [Envelopes -> Agents \cup {"sender", None}]
    BY DEF BusInv, Bus!TypeOK, Bus!SendEnvelope
  <1>3. dead' \subseteq Envelopes
    BY DEF BusInv, Bus!TypeOK, Bus!SendEnvelope
  <1>4. /\ queue' \in [Agents -> Seq(Bus!All)]
        /\ actor' \in [Threads -> BusActor] /\ BusThreads' /\ BusCounts'
    <2>1. CASE Bus!Publish(t, e, a)
      BY <1>1, <2>1, BusPublish
    <2>2. CASE Bus!Goto(t, "fail", e, a) /\ UNCHANGED queue
      <3> DEFINE c == [at |-> "fail", msg |-> e, agent |-> a]
      <3>1. c \in BusActor /\ c.at = "fail" /\ c.msg = e
        BY <1>1 DEF BusActor
      <3>2. actor' = [actor EXCEPT ![t] = c]
        BY <2>2 DEF Bus!Goto
      <3> HIDE DEF c
      <3>3. actor' \in [Threads -> BusActor] /\ BusThreads'
        BY <1>1, <3>1, <3>2, BusGoes DEF BusInv
      <3>4. BusCounts'
        BY <1>1, <2>2, <3>1, <3>2, BusRests
      <3> QED BY <2>2, <3>3, <3>4 DEF BusInv, Bus!TypeOK
    <2> QED BY <2>1, <2>2 DEF Bus!SendEnvelope
  <1> QED BY <1>1, <1>2, <1>3, <1>4 DEF BusInv, Bus!TypeOK, BusActor, Bus!All

\* A thread that has nothing to do
LEMMA BusIdles ==
    /\ Bus!Idle \in BusActor /\ Bus!Idle.at = "idle"
  BY DEF Bus!Idle, BusActor

\* The acknowledgement of a message, or of its failure
LEMMA BusAcks ==
    ASSUME BusInv, NEW t \in Threads, Bus!Ack(t)
    PROVE  BusInv'
  <1> DEFINE m == actor[t].msg
             status == CASE actor[t].at = "ack" -> "sent"
                         [] actor[t].at = "fail" -> "failed"
                         [] actor[t].at = "taken" -> "received"
  <1>1. /\ actor[t].at \in {"ack", "fail", "taken"} /\ m \in Bus!All
        /\ actor[t].at = "taken" => actor[t].agent \in Agents
    BY DEF BusInv, BusThreads, Bus!Ack
  <1>2. /\ status \in {"sent", "failed", "received"}
        /\ actor[t].at = "ack" => status = "sent"
        /\ actor[t].at # "ack" => status # "sent"
    BY <1>1
  <1>3. /\ acks' = [acks EXCEPT ![m] = Append(acks[m], status)]
        /\ actor' = [actor EXCEPT ![t] = Bus!Idle]
        /\ UNCHANGED <<broker, pods, inbox, queue, dead, hops, taken, sends>>
    BY DEF Bus!Ack
  <1>4. unacked' \subseteq Bus!All
    BY DEF BusInv, Bus!TypeOK, Bus!Ack
  <1>5. holder' \in [Envelopes -> Agents \cup {"sender", None}]
    <2>1. holder \in [Envelopes -> Agents \cup {"sender", None}]
      BY DEF BusInv, Bus!TypeOK
    <2>2. holder' = [e \in Envelopes |-> IF e = m /\ actor[t].at = "taken"
                                           THEN actor[t].agent ELSE holder[e]]
      BY DEF Bus!Ack
    <2> QED BY <1>1, <2>1, <2>2
  <1> HIDE DEF status
  <1>6. /\ acks \in [Bus!All -> Seq({"sent", "failed", "received"})]
        /\ acks[m] \in Seq({"sent", "failed", "received"})
    BY <1>1 DEF BusInv, Bus!TypeOK
  <1>7. acks' \in [Bus!All -> Seq({"sent", "failed", "received"})]
    <2>1. Append(acks[m], status) \in Seq({"sent", "failed", "received"})
      BY <1>2, <1>6
    <2> HIDE DEF m
    <2> QED BY <1>3, <1>6, <2>1
  <1>8. actor' \in [Threads -> BusActor] /\ BusThreads'
    BY <1>3, BusIdles, BusGoes DEF BusInv
  <1>9. BusCounts'
    <2>1. CASE actor[t].at = "ack"
      BY <1>2, <1>3, <2>1, BusAcked
    <2>2. CASE actor[t].at # "ack"
      <3>1. ASSUME NEW n \in Bus!All
            PROVE  Bus!Count(acks'[n], "sent") = Bus!Count(acks[n], "sent")
        <4>1. CASE n = m
          <5>1. acks'[n] = Append(acks[m], status)
            BY <1>3, <1>6, <4>1
          <5>2. Bus!Count(Append(acks[m], status), "sent") = Bus!Count(acks[m], "sent") + 0
            BY <1>2, <1>6, <2>2, CountAppended
          <5>3. Bus!Count(acks[m], "sent") \in Nat
            BY <1>6, CountType
          <5> QED BY <4>1, <5>1, <5>2, <5>3
        <4>2. CASE n # m
          BY <1>3, <1>6, <4>2
        <4> QED BY <4>1, <4>2
      <3> QED BY <1>3, <3>1, BusIdles, BusRests
    <2> QED BY <2>1, <2>2
  <1> QED BY <1>3, <1>4, <1>5, <1>7, <1>8, <1>9 DEF BusInv, Bus!TypeOK, BusActor, Bus!All

\* A consumer that takes a message, or finds none
LEMMA BusConsumes ==
    ASSUME BusInv, NEW t \in Threads, Bus!Consume(t)
    PROVE  BusInv'
  <1> DEFINE a == actor[t].agent
             m == Head(queue[a])
  <1>1. actor[t].at = "consume" /\ a \in Agents /\ queue[a] # <<>>
    BY DEF BusInv, BusThreads, Bus!Consume, Bus!Waiting
  <1>2. /\ queue \in [Agents -> Seq(Bus!All)] /\ queue[a] \in Seq(Bus!All)
        /\ taken \in [Bus!All -> Nat] /\ unacked \subseteq Bus!All
    BY <1>1 DEF BusInv, Bus!TypeOK
  <1>3. m \in Bus!All
    BY <1>1, <1>2
  <1>4. /\ queue' = [queue EXCEPT ![a] = Tail(queue[a])] /\ unacked' = unacked \cup {m}
        /\ taken' = [taken EXCEPT ![m] = taken[m] + 1]
        /\ actor' = [actor EXCEPT ![t] = [at |-> "taken", msg |-> m, agent |-> a]]
        /\ UNCHANGED <<broker, pods, inbox, acks, dead, hops, holder, sends>>
    BY DEF Bus!Consume, Bus!Left, Bus!Goto
  <1>5. BusCounts'
    <2> HIDE DEF a
    <2> QED BY <1>1, <1>4, BusTakes
  <1>6. Tail(queue[a]) \in Seq(Bus!All)
    BY <1>1, <1>2
  <1> HIDE DEF a, m
  <1>7. actor' \in [Threads -> BusActor] /\ BusThreads'
    <2> DEFINE c == [at |-> "taken", msg |-> m, agent |-> a]
    <2>1. c \in BusActor /\ c.msg \in Bus!All /\ c.agent \in Agents
      BY <1>1, <1>3 DEF BusActor
    <2>2. actor' = [actor EXCEPT ![t] = c]
      BY <1>4
    <2> HIDE DEF c
    <2> QED BY <2>1, <2>2, BusGoes DEF BusInv
  <1>8. /\ queue' \in [Agents -> Seq(Bus!All)] /\ unacked' \subseteq Bus!All
        /\ taken' \in [Bus!All -> Nat]
    <2>1. taken[m] + 1 \in Nat /\ taken' = [taken EXCEPT ![m] = taken[m] + 1]
      BY <1>2, <1>3, <1>4
    <2>2. taken' \in [Bus!All -> Nat]
      BY <1>2, <2>1
    <2> DEFINE rest == Tail(queue[a])
    <2>3. rest \in Seq(Bus!All) /\ queue' = [queue EXCEPT ![a] = rest]
      BY <1>4, <1>6
    <2> HIDE DEF rest
    <2>4. queue' \in [Agents -> Seq(Bus!All)]
      BY <1>2, <2>3
    <2> QED BY <1>2, <1>3, <1>4, <2>2, <2>4
  <1> QED BY <1>4, <1>5, <1>7, <1>8 DEF BusInv, Bus!TypeOK, BusActor, Bus!All

\* Every step of the bus keeps its invariant
LEMMA BusStep ==
    ASSUME BusInv, [Bus!Next]_busVars
    PROVE  BusInv'
  <1>1. ASSUME UNCHANGED <<broker, queue, acks, actor, taken>> PROVE BusThreads' /\ BusCounts'
    BY <1>1 DEF BusInv, BusThreads, BusCounts, Acking, Bus!Places, Bus!All
  <1>2. CASE UNCHANGED busVars
    BY <1>1, <1>2 DEF BusInv, busVars, Bus!TypeOK, Bus!All
  <1>3. ASSUME NEW a \in Agents, Bus!RegisterPod(a) PROVE BusInv'
    BY <1>1, <1>3 DEF BusInv, Bus!TypeOK, Bus!RegisterPod, Bus!All
  <1>4. ASSUME NEW t \in Threads, NEW a \in Agents, Bus!ReceiveDirect(t, a) PROVE BusInv'
    <2>1. inbox \in [Agents -> Seq(Messages)] /\ inbox[a] \in Seq(Messages) /\ inbox[a] # <<>>
      BY <1>4 DEF BusInv, Bus!TypeOK, Bus!ReceiveDirect
    <2>2. Tail(inbox[a]) \in Seq(Messages)
      BY <2>1
    <2>3. inbox' \in [Agents -> Seq(Messages)]
      BY <1>4, <2>1, <2>2 DEF Bus!ReceiveDirect
    <2> QED BY <1>1, <1>4, <2>3 DEF BusInv, Bus!TypeOK, Bus!ReceiveDirect, Bus!All
  <1>5. ASSUME NEW t \in Threads, NEW c \in BusActor, c.at \in {"idle", "consume"},
               c.at = "consume" => c.agent \in Agents, actor' = [actor EXCEPT ![t] = c],
               UNCHANGED <<broker, pods, inbox, queue, acks, unacked, dead, hops, holder, taken,
                   sends>>
        PROVE  BusInv'
    <2>1. actor' \in [Threads -> BusActor] /\ BusThreads'
      BY <1>5, BusGoes DEF BusInv
    <2>2. BusCounts'
      BY <1>5, BusRests
    <2> QED BY <1>5, <2>1, <2>2 DEF BusInv, Bus!TypeOK, BusActor, Bus!All
  <1>6. ASSUME NEW t \in Threads, NEW a \in Agents, Bus!LookedInto(t, a) PROVE BusInv'
    <2> DEFINE c == [at |-> "consume", msg |-> None, agent |-> a]
    <2>1. c \in BusActor /\ c.at = "consume" /\ c.agent \in Agents
      BY DEF BusActor
    <2>2. actor' = [actor EXCEPT ![t] = c]
      BY <1>6 DEF Bus!LookedInto, Bus!Goto
    <2> HIDE DEF c
    <2> QED BY <1>5, <1>6, <2>1, <2>2 DEF Bus!LookedInto
  <1>7. ASSUME NEW t \in Threads, Bus!NoAck(t) PROVE BusInv'
    BY <1>5, <1>7, BusIdles DEF Bus!NoAck
  <1> QED BY <1>2, <1>3, <1>4, <1>6, <1>7, BusSendsP2P, BusSendsEnvelope, BusAcks, BusConsumes
          DEF Bus!Next, Bus!ThreadStep

\* A step of the kernel is one of the part, or leaves it as it is
LEMMA BusSteps == [Next]_vars => [Bus!Next]_busVars
  BY DEF Next, Still, vars, busVars

\* The invariant of the part holds in every behaviour of the kernel
LEMMA BusAlways == Spec => []BusInv
  <1>1. Init => BusInv
    BY BusInit DEF Init
  <1>2. BusInv /\ [Next]_vars => BusInv'
    BY BusSteps, BusStep
  <1> QED BY <1>1, <1>2, PTL DEF Spec

\* Without a broker, a message that was acknowledged as sent is in a topic or was taken from one,
\* once for every time it was sent.
THEOREM SentCorrect == Spec => []SentIsKept
  <1>1. BusInv => SentIsKept
    BY BusShows DEF SentIsKept
  <1> QED BY <1>1, BusAlways, PTL

-----------------------------------------------------------------------------
(* KernelModules.  A module that was told of the start of a task, or is still *)
(* to be told, is loaded or was unloaded since; after the task, what was   *)
(* begun is still to be ended.  The thread that counts a request of a model *)
(* that has no count yet is the only one at it.                            *)

HookRun ==
    [at : {"new", "before", "after", "count", "done", "raised"},
     model : HookModels \cup {None}, todo : SUBSET Modules, missed : BOOLEAN]

HooksTypes ==
    /\ loaded \subseteq Modules
    /\ current \in [Trackers -> HookTasks \cup {None}]
    /\ records \in [Trackers -> SUBSET HookTasks]
    /\ counts \in [HookModels -> Nat \cup {None}]
    /\ run \in [HookTasks -> HookRun]
    /\ began \in [HookTasks -> SUBSET Modules] /\ ended \in [HookTasks -> SUBSET Modules]
    /\ gone \in [HookTasks -> SUBSET Modules]
    /\ met \subseteq HookModels
    /\ switches \in 0..MaxSwitches

\* A module whose hook was called, or is still to be called, before the run is loaded or
\* was unloaded since; after it, what was begun is still to be ended
Followed(t) ==
    /\ run[t].at = "new" => began[t] = {}
    /\ run[t].at = "before" => began[t] \cup run[t].todo \subseteq loaded \cup gone[t]
    /\ run[t].at \in {"after", "count", "done"} =>
            began[t] \subseteq run[t].todo \cup ended[t] \cup gone[t]
    /\ run[t].at = "done" => run[t].todo = {}

\* A tracker that shows the task was told of its start, and will be told of its end
Shown(t, m) ==
    current[m] = t =>
        /\ run[t].at # "new"
        /\ run[t].at = "before" => m \in began[t]
        /\ run[t].at \in {"after", "count", "done"} => m \in run[t].todo \cup gone[t]

\* Of two threads that count a request of one model, neither may rest on what it found;
\* one alone may
CountsApart ==
    /\ \A t \in HookTasks : t \in records[Usage] =>
            run[t].at \in {"after", "done"} /\ Usage \notin run[t].todo
    /\ \A t \in HookTasks : run[t].at = "count" =>
            /\ Usage \in run[t].todo /\ run[t].model \in HookModels
            /\ ~run[t].missed => counts[run[t].model] # None
            /\ run[t].missed /\ run[t].model \notin met => counts[run[t].model] = None
    /\ \A t, o \in HookTasks :
            /\ t # o /\ run[t].at = "count" /\ run[o].at = "count" /\ run[t].model = run[o].model
            => run[t].model \in met
    /\ \A t \in HookTasks :
           run[t].at \in {"before", "after", "count"} => run[t].model \in HookModels

HooksInv ==
    /\ HooksTypes
    /\ \A t \in HookTasks : Followed(t)
    /\ \A t \in HookTasks, m \in Trackers : Shown(t, m)
    /\ CountsApart
    /\ Hooks!RequestsAgree

\* The invariant says of the hooks what the run checks
LEMMA HooksShow == HooksInv => Hooks!TypeOK /\ Hooks!HooksPaired /\ Hooks!RequestsAgree
  <1> SUFFICES ASSUME HooksInv PROVE Hooks!TypeOK /\ Hooks!HooksPaired
    BY DEF HooksInv
  <1>1. Hooks!TypeOK
    BY DEF HooksInv, HooksTypes, HookRun, Hooks!TypeOK
  <1>2. Hooks!HooksPaired
    BY DEF HooksInv, Followed, Shown, Hooks!HooksPaired
  <1> QED BY <1>1, <1>2

\* The cardinality that KernelModules counts tasks with is the library's
LEMMA SameCardinality ==
    ASSUME NEW S
    PROVE  Hooks!Cardinality(S) = Cardinality(S)
  BY DEF Hooks!Cardinality, Cardinality

\* ... and so is its finiteness
LEMMA IsFinite ==
    ASSUME NEW S
    PROVE  Hooks!IsFiniteSet(S) = IsFiniteSet(S)
  BY DEF Hooks!IsFiniteSet, IsFiniteSet

\* No module is told anything at the beginning
LEMMA HooksInit ==
    ASSUME Hooks!Init
    PROVE  HooksInv
  <1>1. Hooks!New \in HookRun
    BY DEF Hooks!New, HookRun
  <1>2. HooksTypes
    BY <1>1, KernelAssumption DEF Hooks!Init, HooksTypes, Hooks!HooksAssumption
  <1>3. \A t \in HookTasks : run[t].at = "new" /\ began[t] = {} /\ Followed(t)
    BY DEF Hooks!Init, Hooks!New, Followed
  <1>4. ASSUME NEW t \in HookTasks, NEW m \in Trackers PROVE Shown(t, m)
    BY <1>3, KernelAssumption DEF Hooks!Init, Shown, Hooks!HooksAssumption
  <1>5. records[Usage] = {} /\ \A model \in HookModels : counts[model] = None
    BY KernelAssumption DEF Hooks!Init, Hooks!HooksAssumption
  <1>6. CountsApart
    BY <1>3, <1>5 DEF CountsApart
  <1>7. Hooks!RequestsAgree
    <2>1. \A model \in HookModels : {t \in records[Usage] : run[t].model = model} = {}
      BY <1>5
    <2> QED BY <1>5, <2>1, FS_EmptySet, SameCardinality DEF Hooks!RequestsAgree
  <1> QED BY <1>2, <1>3, <1>4, <1>6, <1>7 DEF HooksInv

\* As long as no request is counted and no task recorded by the module that counts them
LEMMA RequestsStay ==
    ASSUME Hooks!RequestsAgree, records'[Usage] = records[Usage], UNCHANGED counts,
           met \subseteq met',
           \A u \in records[Usage] : run'[u].model = run[u].model
    PROVE  Hooks!RequestsAgree'
  <1> SUFFICES ASSUME NEW model \in HookModels
               PROVE  LET counted == IF counts'[model] = None THEN 0 ELSE counts'[model]
                          recorded == Hooks!Cardinality({t \in records'[Usage] : run'[t].model
                              = model})
                      IN  /\ counted <= recorded
                          /\ model \notin met' => counted = recorded
    BY DEF Hooks!RequestsAgree
  <1>1. {t \in records'[Usage] : run'[t].model = model}
        = {t \in records[Usage] : run[t].model = model}
    OBVIOUS
  <1> QED BY <1>1 DEF Hooks!RequestsAgree

\* A module is loaded or unloaded by hand
LEMMA HooksManage ==
    ASSUME HooksInv, NEW m \in Modules, Hooks!ManageModule(m)
    PROVE  HooksInv'
  <1> USE DEF Hooks!hooks
  <1>1. /\ HooksTypes /\ CountsApart /\ Hooks!RequestsAgree
        /\ UNCHANGED <<records, counts, run, began, ended, met>>
        /\ loaded' \subseteq Modules /\ loaded \subseteq loaded' \cup {m}
        /\ \A t \in HookTasks : gone[t] \subseteq gone'[t]
        /\ \A t \in HookTasks : t \in Hooks!Active => m \in gone'[t] \/ loaded \subseteq loaded'
        /\ gone' \in [HookTasks -> SUBSET Modules]
        /\ \A n \in Trackers : current'[n] \in {current[n], None}
        /\ current' \in [Trackers -> HookTasks \cup {None}]
        /\ switches' \in 0..MaxSwitches
    <2>1. CASE Hooks!Load(m)
      BY <2>1, KernelAssumption DEF HooksInv, HooksTypes, Hooks!ManageModule, Hooks!Load,
         Hooks!HooksAssumption
    <2>2. CASE Hooks!Unload(m)
      <3>1. switches' \in 0..MaxSwitches
        BY KernelAssumption DEF HooksInv, HooksTypes, Hooks!ManageModule, Hooks!HooksAssumption
      <3>2. current' \in [Trackers -> HookTasks \cup {None}]
            /\ \A n \in Trackers : current'[n] \in {current[n], None}
        BY <2>2 DEF HooksInv, HooksTypes, Hooks!Unload, Hooks!Cleared
      <3>3. gone' \in [HookTasks -> SUBSET Modules]
        BY <2>2 DEF HooksInv, HooksTypes, Hooks!Unload
      <3> QED BY <2>2, <3>1, <3>2, <3>3 DEF HooksInv, HooksTypes, Hooks!ManageModule, Hooks!Unload
    <2> QED BY <2>1, <2>2 DEF Hooks!ManageModule
  <1>2. HooksTypes'
    BY <1>1 DEF HooksTypes
  <1>3. ASSUME NEW t \in HookTasks PROVE Followed(t)'
    <2>1. run[t].at = "before" => t \in Hooks!Active
      BY DEF Hooks!Active
    <2> QED BY <1>1, <2>1 DEF HooksInv, Followed
  <1>4. ASSUME NEW t \in HookTasks, NEW n \in Trackers PROVE Shown(t, n)'
    <2>1. current'[n] = t => current[n] = t
      BY <1>1, KernelAssumption DEF Hooks!HooksAssumption
    <2> QED BY <1>1, <2>1 DEF HooksInv, Shown
  <1>5. CountsApart'
    BY <1>1 DEF CountsApart
  <1>6. Hooks!RequestsAgree'
    BY <1>1, RequestsStay
  <1> QED BY <1>2, <1>3, <1>4, <1>5, <1>6 DEF HooksInv

\* A step of the thread of t that counts nothing, with what it may change
LEMMA HooksMove ==
    ASSUME HooksInv, NEW t \in HookTasks, NEW c \in HookRun, run' = [run EXCEPT ![t] = c],
           UNCHANGED <<loaded, counts, gone, switches>>, met \subseteq met',
               met' \subseteq HookModels,
           current' \in [Trackers -> HookTasks \cup {None}],
           records' \in [Trackers -> SUBSET HookTasks], records'[Usage] = records[Usage],
           began' \in [HookTasks -> SUBSET Modules], ended' \in [HookTasks -> SUBSET Modules],
           \A u \in HookTasks : u # t => began'[u] = began[u] /\ ended'[u] = ended[u],
           \A m \in Trackers : current'[m] \in {current[m], None, t},
           Followed(t)', \A m \in Trackers : Shown(t, m)',
           t \in records[Usage] => /\ c.model = run[t].model
                                   /\ c.at \in {"after", "done"} /\ Usage \notin c.todo,
           c.at \in {"before", "after", "count"} => c.model \in HookModels,
           c.at = "count" =>
                /\ Usage \in c.todo
                /\ ~c.missed => counts[c.model] # None
                /\ c.missed /\ c.model \notin met' => counts[c.model] = None
                /\ \A o \in HookTasks : o # t /\ run[o].at = "count" /\ run[o].model = c.model
                                        => c.model \in met'
    PROVE  HooksInv'
  <1>1. /\ run' \in [HookTasks -> HookRun] /\ run'[t] = c
        /\ \A u \in HookTasks : u # t => run'[u] = run[u]
    BY DEF HooksInv, HooksTypes
  <1>2. HooksTypes'
    BY <1>1 DEF HooksInv, HooksTypes
  <1>3. ASSUME NEW u \in HookTasks PROVE Followed(u)'
    BY <1>1 DEF HooksInv, Followed
  <1>4. ASSUME NEW u \in HookTasks, NEW m \in Trackers PROVE Shown(u, m)'
    <2>1. u # t /\ current'[m] = u => current[m] = u
      BY KernelAssumption DEF Hooks!HooksAssumption
    <2> QED BY <1>1, <2>1 DEF HooksInv, Shown
  <1>5. CountsApart'
    <2>1. \A u \in HookTasks : u \in records'[Usage] =>
            run'[u].at \in {"after", "done"} /\ Usage \notin run'[u].todo
      BY <1>1 DEF HooksInv, CountsApart
    <2>2. ASSUME NEW u \in HookTasks, run'[u].at = "count"
          PROVE  /\ Usage \in run'[u].todo /\ run'[u].model \in HookModels
                 /\ ~run'[u].missed => counts'[run'[u].model] # None
                 /\ run'[u].missed /\ run'[u].model \notin met' => counts'[run'[u].model] = None
      <3>1. CASE u = t
        BY <1>1, <2>2, <3>1
      <3>2. CASE u # t
        BY <1>1, <2>2, <3>2 DEF HooksInv, CountsApart
      <3> QED BY <3>1, <3>2
    <2>3. ASSUME NEW u \in HookTasks, NEW o \in HookTasks, u # o, run'[u].at = "count",
                 run'[o].at = "count", run'[u].model = run'[o].model
          PROVE  run'[u].model \in met'
      <3>1. CASE u = t
        BY <1>1, <2>3, <3>1
      <3>2. CASE o = t
        BY <1>1, <2>3, <3>2
      <3>3. CASE u # t /\ o # t
        BY <1>1, <2>3, <3>3 DEF HooksInv, CountsApart
      <3> QED BY <3>1, <3>2, <3>3
    <2>4. \A u \in HookTasks :
              run'[u].at \in {"before", "after", "count"} => run'[u].model \in HookModels
      BY <1>1 DEF HooksInv, CountsApart
    <2> QED BY <2>1, <2>2, <2>3, <2>4 DEF CountsApart
  <1>6. Hooks!RequestsAgree'
    <2>1. \A u \in records[Usage] : run'[u].model = run[u].model
      <3>1. records[Usage] \subseteq HookTasks
        BY KernelAssumption DEF HooksInv, HooksTypes, Hooks!HooksAssumption
      <3> QED BY <1>1, <3>1
    <2> QED BY <2>1, RequestsStay DEF HooksInv
  <1> QED BY <1>2, <1>3, <1>4, <1>5, <1>6 DEF HooksInv

\* The hooks before and after the run of a task, but for the count of its request
LEMMA HooksThread ==
    ASSUME HooksInv, NEW t \in HookTasks,
           \/ \E model \in HookModels : Hooks!Begin(t, model)
           \/ Hooks!BeforeTask(t) \/ Hooks!EndRun(t) \/ Hooks!AfterTask(t)
           \/ Hooks!FindStats(t) \/ Hooks!Answer(t)
    PROVE  HooksInv'
  <1> USE DEF Hooks!hooks
  <1>1. /\ HooksTypes /\ run[t] \in HookRun /\ Followed(t) /\ \A m \in Trackers : Shown(t, m)
        /\ Usage \in Trackers /\ None \notin HookTasks /\ run \in [HookTasks -> HookRun]
    BY KernelAssumption DEF HooksInv, HooksTypes, Hooks!HooksAssumption
  <1>2. /\ t \in records[Usage] => run[t].at \in {"after", "done"} /\ Usage \notin run[t].todo
        /\ run[t].at \in {"before", "after", "count"} => run[t].model \in HookModels
    BY DEF HooksInv, CountsApart
  <1>3. ASSUME NEW model \in HookModels, Hooks!Begin(t, model) PROVE HooksInv'
    <2> DEFINE c == [Hooks!New EXCEPT !.at = "before", !.model = model, !.todo = loaded]
    <2>1. c \in HookRun /\ c.at = "before" /\ c.model = model /\ c.todo = loaded
      BY <1>1 DEF HooksTypes, HookRun, Hooks!New
    <2>2. run' = [run EXCEPT ![t] = c] /\ run[t].at = "new"
          /\ UNCHANGED <<loaded, current, records, counts, began, ended, gone, met, switches>>
      BY <1>3 DEF Hooks!Begin
    <2> HIDE DEF c
    <2>3. run'[t] = c
      BY <1>1, <2>2
    <2>4. Followed(t)'
      BY <1>1, <2>1, <2>2, <2>3 DEF Followed
    <2>5. \A m \in Trackers : Shown(t, m)'
      BY <1>1, <2>1, <2>2, <2>3 DEF Shown
    <2> QED BY <1>1, <1>2, <2>1, <2>2, <2>4, <2>5, HooksMove DEF HooksTypes
  <1>4. ASSUME Hooks!BeforeTask(t) PROVE HooksInv'
    <2>1. PICK m \in run[t].todo :
            /\ run' = [run EXCEPT ![t].todo = @ \ {m}]
            /\ current' = IF m \in Trackers THEN [current EXCEPT ![m] = t] ELSE current
            /\ began' = [began EXCEPT ![t] = @ \cup {m}]
      BY <1>4 DEF Hooks!BeforeTask
    <2>2. /\ run[t].at = "before" /\ m \in Modules
          /\ UNCHANGED <<loaded, records, counts, ended, gone, met, switches>>
      BY <1>1, <1>4 DEF Hooks!BeforeTask, HookRun
    <2> DEFINE c == [run[t] EXCEPT !.todo = run[t].todo \ {m}]
    <2>3. c \in HookRun /\ c.at = "before" /\ c.model = run[t].model /\ c.todo = run[t].todo \ {m}
      BY <1>1, <2>2 DEF HookRun
    <2>4. run' = [run EXCEPT ![t] = c]
      BY <2>1, <1>1
    <2> HIDE DEF c
    <2>5. run'[t] = c
      BY <1>1, <2>4
    <2>6. /\ began' \in [HookTasks -> SUBSET Modules] /\ began'[t] = began[t] \cup {m}
          /\ \A u \in HookTasks : u # t => began'[u] = began[u]
      BY <1>1, <2>1, <2>2 DEF HooksTypes
    <2>7. /\ current' \in [Trackers -> HookTasks \cup {None}]
          /\ \A n \in Trackers : current'[n] \in {current[n], t}
             /\ (current'[n] # current[n] => n = m)
      BY <1>1, <2>1 DEF HooksTypes
    <2>8. Followed(t)'
      BY <1>1, <2>2, <2>3, <2>5, <2>6 DEF Followed
    <2>9. \A n \in Trackers : Shown(t, n)'
      BY <1>1, <2>2, <2>3, <2>5, <2>6, <2>7 DEF Shown
    <2> QED BY <1>1, <1>2, <2>2, <2>3, <2>4, <2>6, <2>7, <2>8, <2>9, HooksMove DEF HooksTypes
  <1>5. ASSUME Hooks!EndRun(t) PROVE HooksInv'
    <2>1. /\ run[t].at = "before" /\ run[t].todo = {}
          /\ UNCHANGED <<loaded, current, records, counts, began, ended, gone, met, switches>>
      BY <1>5 DEF Hooks!EndRun
    <2>2. PICK c \in HookRun :
            /\ run' = [run EXCEPT ![t] = c] /\ c.model = run[t].model
            /\ c.at = "raised" \/ (c.at = "after" /\ c.todo = loaded)
      <3>1. CASE run' = [run EXCEPT ![t].at = "after", ![t].todo = loaded]
        <4> DEFINE c == [run[t] EXCEPT !.at = "after", !.todo = loaded]
        <4>1. c \in HookRun /\ c.model = run[t].model /\ c.at = "after" /\ c.todo = loaded
          BY <1>1 DEF HooksTypes, HookRun
        <4>2. run' = [run EXCEPT ![t] = c]
          BY <1>1, <3>1
        <4> HIDE DEF c
        <4> QED BY <4>1, <4>2
      <3>2. CASE run' = [run EXCEPT ![t].at = "raised"]
        <4> DEFINE c == [run[t] EXCEPT !.at = "raised"]
        <4>1. c \in HookRun /\ c.model = run[t].model /\ c.at = "raised"
          BY <1>1 DEF HookRun
        <4>2. run' = [run EXCEPT ![t] = c]
          BY <1>1, <3>2
        <4> HIDE DEF c
        <4> QED BY <4>1, <4>2
      <3> QED BY <1>5, <3>1, <3>2 DEF Hooks!EndRun
    <2>3. run'[t] = c
      BY <1>1, <2>2
    <2>4. Followed(t)'
      BY <1>1, <2>1, <2>2, <2>3 DEF Followed
    <2>5. \A n \in Trackers : Shown(t, n)'
      BY <1>1, <2>1, <2>2, <2>3 DEF Shown, Followed
    <2> QED BY <1>1, <1>2, <2>1, <2>2, <2>4, <2>5, HooksMove DEF HooksTypes
  <1>6. ASSUME Hooks!AfterTask(t) PROVE HooksInv'
    <2>1. PICK m \in run[t].todo : m # Usage /\ Hooks!Recorded(t, m)
      BY <1>6 DEF Hooks!AfterTask
    <2>2. /\ run[t].at = "after" /\ m \in Modules
          /\ UNCHANGED <<loaded, counts, began, gone, met, switches>>
      BY <1>1, <1>6 DEF Hooks!AfterTask, HookRun
    <2> DEFINE c == [run[t] EXCEPT !.at = "after", !.todo = run[t].todo \ {m}, !.missed = FALSE]
    <2>3. c \in HookRun /\ c.at = "after" /\ c.model = run[t].model /\ c.todo = run[t].todo \ {m}
      BY <1>1, <2>2 DEF HookRun
    <2>4. run' = [run EXCEPT ![t] = c]
      BY <2>1, <1>1 DEF Hooks!Recorded
    <2> HIDE DEF c
    <2>5. run'[t] = c
      BY <1>1, <2>4
    <2>6. /\ ended' \in [HookTasks -> SUBSET Modules] /\ ended'[t] = ended[t] \cup {m}
          /\ \A u \in HookTasks : u # t => ended'[u] = ended[u]
      BY <1>1, <2>1, <2>2 DEF HooksTypes, Hooks!Recorded
    <2>7. /\ current' \in [Trackers -> HookTasks \cup {None}]
          /\ \A n \in Trackers : current'[n] \in {current[n], None}
             /\ (n = m => current'[n] = None)
      BY <1>1, <2>1 DEF HooksTypes, Hooks!Recorded, Hooks!Forgotten
    <2>8. records' \in [Trackers -> SUBSET HookTasks] /\ records'[Usage] = records[Usage]
      BY <1>1, <2>1 DEF HooksTypes, Hooks!Recorded
    <2>9. Followed(t)'
      BY <1>1, <2>2, <2>3, <2>5, <2>6 DEF Followed
    <2>10. \A n \in Trackers : Shown(t, n)'
      BY <1>1, <2>2, <2>3, <2>5, <2>7 DEF Shown
    <2> QED BY <1>1, <1>2, <2>2, <2>3, <2>4, <2>6, <2>7, <2>8, <2>9, <2>10,
               HooksMove DEF HooksTypes
  <1>7. ASSUME Hooks!FindStats(t) PROVE HooksInv'
    <2>1. /\ run[t].at = "after" /\ Usage \in run[t].todo
          /\ UNCHANGED <<loaded, current, records, counts, began, ended, gone, switches>>
      BY <1>7 DEF Hooks!FindStats, Hooks!IsNext
    <2> DEFINE missed == counts[run[t].model] = None
               c == [run[t] EXCEPT !.at = "count", !.missed = missed]
    <2>2. missed \in BOOLEAN
      OBVIOUS
    <2>3. c \in HookRun /\ c.at = "count" /\ c.model = run[t].model /\ c.todo = run[t].todo
          /\ c.missed = missed
      <3> HIDE DEF missed
      <3> QED BY <1>1, <2>1, <2>2 DEF HookRun
    <2>4. run' = [run EXCEPT ![t] = c]
      BY <1>1, <1>7 DEF Hooks!FindStats, Hooks!Missed
    <2>5. ~c.missed => counts[c.model] # None
      BY <2>3
    <2>6. c.missed => counts[c.model] = None
      BY <2>3
    <2> HIDE DEF c
    <2>7. run'[t] = c
      BY <1>1, <2>4
    <2>8. /\ met \subseteq met' /\ met' \subseteq HookModels
          /\ \A o \in HookTasks : o # t /\ run[o].at = "count" /\ run[o].model = c.model
             => c.model \in met'
      BY <1>1, <1>2, <1>7, <2>1, <2>3 DEF Hooks!FindStats, HooksTypes
    <2>9. Followed(t)'
      BY <1>1, <2>1, <2>3, <2>7 DEF Followed
    <2>10. \A n \in Trackers : Shown(t, n)'
      BY <1>1, <2>1, <2>3, <2>7 DEF Shown
    <2> QED BY <1>1, <1>2, <2>1, <2>3, <2>4, <2>5, <2>6, <2>8, <2>9, <2>10,
               HooksMove DEF HooksTypes
  <1>8. ASSUME Hooks!Answer(t) PROVE HooksInv'
    <2>1. /\ run[t].at = "after" /\ run[t].todo = {}
          /\ UNCHANGED <<loaded, current, records, counts, began, ended, gone, met, switches>>
      BY <1>8 DEF Hooks!Answer
    <2> DEFINE c == [run[t] EXCEPT !.at = "done"]
    <2>2. c \in HookRun /\ c.at = "done" /\ c.model = run[t].model /\ c.todo = {}
      BY <1>1, <2>1 DEF HookRun
    <2>3. run' = [run EXCEPT ![t] = c]
      BY <1>1, <1>8 DEF Hooks!Answer
    <2> HIDE DEF c
    <2>4. run'[t] = c
      BY <1>1, <2>3
    <2>5. Followed(t)'
      BY <1>1, <2>1, <2>2, <2>4 DEF Followed
    <2>6. \A n \in Trackers : Shown(t, n)'
      BY <1>1, <2>1, <2>2, <2>4 DEF Shown
    <2> QED BY <1>1, <1>2, <2>1, <2>2, <2>3, <2>5, <2>6, HooksMove DEF HooksTypes
  <1> QED BY <1>3, <1>4, <1>5, <1>6, <1>7, <1>8

\* The request of a task is counted for its model
LEMMA HooksCount ==
    ASSUME HooksInv, NEW t \in HookTasks, Hooks!CountRequest(t)
    PROVE  HooksInv'
  <1> USE DEF Hooks!hooks
  <1>1. /\ HooksTypes /\ run[t] \in HookRun /\ Followed(t) /\ \A m \in Trackers : Shown(t, m)
        /\ Usage \in Trackers /\ None \notin HookTasks /\ None \notin Nat
        /\ run \in [HookTasks -> HookRun]
    BY KernelAssumption DEF HooksInv, HooksTypes, Hooks!HooksAssumption
  <1> DEFINE model == run[t].model
             c == [run[t] EXCEPT !.at = "after", !.todo = run[t].todo \ {Usage}, !.missed = FALSE]
             next == IF run[t].missed THEN 1 ELSE counts[model] + 1
  <1>2. /\ run[t].at = "count" /\ model \in HookModels /\ Usage \in run[t].todo
        /\ Usage \in Modules /\ t \notin records[Usage]
        /\ ~run[t].missed => counts[model] # None
        /\ run[t].missed /\ model \notin met => counts[model] = None
        /\ counts[model] \in Nat \cup {None}
    BY <1>1 DEF Hooks!CountRequest, HooksInv, CountsApart, HookRun, HooksTypes
  <1>3. /\ run' = [run EXCEPT ![t] = c]
        /\ counts' = [counts EXCEPT ![model] = next]
        /\ ended' = [ended EXCEPT ![t] = @ \cup {Usage}]
        /\ current' = [current EXCEPT ![Usage] = None]
        /\ records' = [records EXCEPT ![Usage] = @ \cup {t}]
        /\ UNCHANGED <<loaded, began, gone, met, switches>>
    BY <1>1 DEF Hooks!CountRequest, Hooks!Recorded, Hooks!Forgotten
  <1>4. c \in HookRun /\ c.at = "after" /\ c.model = model /\ c.todo = run[t].todo \ {Usage}
    BY <1>1, <1>2 DEF HookRun
  <1>5. next \in Nat /\ next # None
    BY <1>1, <1>2
  <1> HIDE DEF c
  <1>6. /\ run' \in [HookTasks -> HookRun] /\ run'[t] = c
        /\ \A u \in HookTasks : u # t => run'[u] = run[u]
    BY <1>1, <1>3, <1>4
  <1>7. /\ counts' \in [HookModels -> Nat \cup {None}] /\ counts'[model] = next
        /\ \A n \in HookModels : n # model => counts'[n] = counts[n]
    <2> HIDE DEF next, model
    <2> QED BY <1>1, <1>2, <1>3, <1>5 DEF HooksTypes
  <1>8. /\ ended' \in [HookTasks -> SUBSET Modules] /\ ended'[t] = ended[t] \cup {Usage}
        /\ \A u \in HookTasks : u # t => ended'[u] = ended[u]
    BY <1>1, <1>2, <1>3 DEF HooksTypes
  <1>9. /\ current' \in [Trackers -> HookTasks \cup {None}] /\ current'[Usage] = None
        /\ \A m \in Trackers : current'[m] \in {current[m], None}
    BY <1>1, <1>3 DEF HooksTypes
  <1>10. /\ records' \in [Trackers -> SUBSET HookTasks] /\ records'[Usage] = records[Usage] \cup {t}
    BY <1>1, <1>3 DEF HooksTypes
  <1>11. HooksTypes'
    BY <1>1, <1>3, <1>6, <1>7, <1>8, <1>9, <1>10 DEF HooksTypes
  <1>12. ASSUME NEW u \in HookTasks PROVE Followed(u)'
    <2>1. CASE u = t
      BY <1>1, <1>2, <1>3, <1>4, <1>6, <1>8, <2>1 DEF Followed
    <2>2. CASE u # t
      BY <1>3, <1>6, <1>8, <2>2 DEF HooksInv, Followed
    <2> QED BY <2>1, <2>2
  <1>13. ASSUME NEW u \in HookTasks, NEW m \in Trackers PROVE Shown(u, m)'
    <2>1. current'[m] = u => current[m] = u /\ m # Usage
      BY <1>1, <1>9
    <2>2. CASE u = t
      BY <1>1, <1>2, <1>3, <1>4, <1>6, <2>1, <2>2 DEF Shown
    <2>3. CASE u # t
      BY <1>3, <1>6, <2>1, <2>3 DEF HooksInv, Shown
    <2> QED BY <2>2, <2>3
  <1>14. CountsApart'
    <2>1. ASSUME NEW u \in HookTasks, u \in records'[Usage]
          PROVE  run'[u].at \in {"after", "done"} /\ Usage \notin run'[u].todo
      BY <1>4, <1>6, <1>10, <2>1 DEF HooksInv, CountsApart
    <2>2. ASSUME NEW u \in HookTasks, run'[u].at = "count"
          PROVE  /\ u # t /\ run[u].at = "count" /\ run'[u] = run[u]
                 /\ run[u].model = model => model \in met
      BY <1>2, <1>4, <1>6, <2>2 DEF HooksInv, CountsApart
    <2>3. ASSUME NEW u \in HookTasks, run'[u].at = "count"
          PROVE  /\ Usage \in run'[u].todo /\ run'[u].model \in HookModels
                 /\ ~run'[u].missed => counts'[run'[u].model] # None
                 /\ run'[u].missed /\ run'[u].model \notin met' => counts'[run'[u].model] = None
      <3> HIDE DEF next
      <3>1. CASE run[u].model = model
        BY <1>3, <1>5, <1>7, <2>2, <2>3, <3>1 DEF HooksInv, CountsApart
      <3>2. CASE run[u].model # model
        <4>1. counts'[run[u].model] = counts[run[u].model]
          BY <1>7, <2>2, <2>3, <3>2 DEF HooksInv, CountsApart
        <4> QED BY <1>3, <2>2, <2>3, <4>1 DEF HooksInv, CountsApart
      <3> QED BY <3>1, <3>2
    <2>4. ASSUME NEW u \in HookTasks, NEW o \in HookTasks, u # o, run'[u].at = "count",
                 run'[o].at = "count", run'[u].model = run'[o].model
          PROVE  run'[u].model \in met'
      BY <1>3, <2>2, <2>4 DEF HooksInv, CountsApart
    <2>5. \A u \in HookTasks :
              run'[u].at \in {"before", "after", "count"} => run'[u].model \in HookModels
      BY <1>2, <1>4, <1>6 DEF HooksInv, CountsApart
    <2> QED BY <2>1, <2>3, <2>4, <2>5 DEF CountsApart
  <1>15. Hooks!RequestsAgree'
    <2> SUFFICES ASSUME NEW n \in HookModels
                 PROVE  LET counted == IF counts'[n] = None THEN 0 ELSE counts'[n]
                            recorded == Hooks!Cardinality({u \in records'[Usage] : run'[u].model
                                = n})
                        IN  /\ counted <= recorded
                            /\ n \notin met' => counted = recorded
      BY DEF Hooks!RequestsAgree
    <2> DEFINE old == {u \in records[Usage] : run[u].model = n}
    <2>1. records[Usage] \subseteq HookTasks
      BY <1>1 DEF HooksTypes
    <2>2. IsFiniteSet(old) /\ t \notin old
      <3>1. IsFiniteSet(HookTasks)
        BY KernelAssumption, IsFinite DEF Hooks!HooksAssumption
      <3> QED BY <1>2, <2>1, <3>1, FS_Subset
    <2>3. Cardinality(old) \in Nat /\ Cardinality(old \cup {t}) = Cardinality(old) + 1
      BY <2>2, FS_CardinalityType, FS_AddElement
    <2>4. /\ (IF counts[n] = None THEN 0 ELSE counts[n]) <= Cardinality(old)
          /\ n \notin met => (IF counts[n] = None THEN 0 ELSE counts[n]) = Cardinality(old)
      BY SameCardinality DEF HooksInv, Hooks!RequestsAgree
    <2>5. {u \in records'[Usage] : run'[u].model = n} = IF n = model THEN old \cup {t} ELSE old
      BY <1>4, <1>6, <1>10, <2>1
    <2> HIDE DEF old, next
    <2>6. CASE n = model
      <3>1. counts'[n] # None /\ counts'[n] = next /\ UNCHANGED met
        BY <1>3, <1>5, <1>7, <2>6
      <3>2. next <= Cardinality(old) + 1 /\ (n \notin met => next = Cardinality(old) + 1)
        BY <1>1, <1>2, <2>3, <2>4, <2>6 DEF next
      <3> QED BY <2>3, <2>5, <2>6, <3>1, <3>2, SameCardinality
    <2>7. CASE n # model
      BY <1>3, <1>7, <2>4, <2>5, <2>7, SameCardinality
    <2> QED BY <2>6, <2>7
  <1> QED BY <1>11, <1>12, <1>13, <1>14, <1>15 DEF HooksInv

\* Every step of the modules keeps their invariant
LEMMA HooksStep ==
    ASSUME HooksInv, [Hooks!Next]_hooksVars
    PROVE  HooksInv'
  <1>1. CASE UNCHANGED hooksVars
    <2>1. HooksTypes' /\ CountsApart' /\ Hooks!RequestsAgree'
      BY <1>1 DEF hooksVars, HooksInv, HooksTypes, CountsApart, Hooks!RequestsAgree
    <2>2. (\A t \in HookTasks : Followed(t)') /\ \A t \in HookTasks, m \in Trackers : Shown(t, m)'
      BY <1>1 DEF hooksVars, HooksInv, Followed, Shown
    <2> QED BY <2>1, <2>2 DEF HooksInv
  <1> QED BY <1>1, HooksManage, HooksThread, HooksCount DEF Hooks!Next

\* A step of the kernel is one of the part, or leaves it as it is
LEMMA HooksSteps == [Next]_vars => [Hooks!Next]_hooksVars
  BY DEF Next, Still, vars, hooksVars

\* The invariant of the part holds in every behaviour of the kernel
LEMMA HooksAlways == Spec => []HooksInv
  <1>1. Init => HooksInv
    BY HooksInit DEF Init
  <1>2. HooksInv /\ [Next]_vars => HooksInv'
    BY HooksSteps, HooksStep
  <1> QED BY <1>1, <1>2, PTL DEF Spec

\* A module that was told of the start of a task is told of its end, unless it was unloaded
\* between.
THEOREM PairedCorrect == Spec => []HooksPaired
  <1>1. HooksInv => HooksPaired
    BY HooksShow DEF HooksPaired
  <1> QED BY <1>1, HooksAlways, PTL

\* The requests counted for a model are the tasks recorded with it.
THEOREM RequestsCorrect == Spec => []RequestsAgree
  <1>1. HooksInv => RequestsAgree
    BY HooksShow DEF RequestsAgree
  <1> QED BY <1>1, HooksAlways, PTL

-----------------------------------------------------------------------------
(* TaskIntake.  What a thread of the intake is at, and what the listener of *)
(* the queue file has left to file, while its thread is at a task.         *)

IntakeKeys == Texts \X {"chat", "queue"}

IntakeStores ==
    /\ fielded \in BOOLEAN
    /\ cache \in [Texts \X {"chat", "queue"} -> Intake!Ended \cup {None}]
    /\ trace \in 0..(MaxTrace + 1)

IntakeThreads ==
    /\ submitter \in [Intake!Actors -> Intake!Submission]
    /\ entry \in [Intake!Actors -> Intake!Ended \cup {"none", "submitted", "running"}]
    /\ \A x \in Intake!Actors : submitter[x].at # "idle" => submitter[x].text \in Texts

IntakeClients ==
    /\ client \in [Clients -> [text : Texts \cup {None}, sent : 0..2]]
    /\ \A c \in Clients : client[c].text = None <=> client[c].sent = 0

\* The listener keeps the rest of its file until its thread has answered
IntakeQueue ==
    /\ file \in {None} \cup Intake!QueueFile
    /\ listener \in [at : {"sleep", "tasks"}, rest : Seq(Texts), filed : Nat]
    /\ submitter[Listener].at # "idle" => listener.at = "tasks" /\ listener.rest # <<>>

\* What is filed and what is left are the tasks of the file, unless that file was written
\* while the listener was at work
IntakeFiling ==
    file # None /\ listener.at = "tasks" =>
        \/ file.during
        \/ file.read /\ listener.filed + Len(listener.rest) = Len(file.tasks)

IntakeInv == IntakeStores /\ IntakeThreads /\ IntakeClients /\ IntakeQueue

\* Those who work on a text whose answer is stored worked on it before
RunsOnce ==
    \A key \in DOMAIN cache :
        cache[key] # None /\ cache'[key] # None => Intake!Works(key)' \subseteq Intake!Works(key)

\* A file that is there and then is not was read, and all its tasks filed
Removed ==
    file # None /\ file' = None =>
        \/ file.read /\ listener.filed = Len(file.tasks)
        \/ file.during

\* The invariant has the types that the run checks
LEMMA IntakeShows == IntakeInv => Intake!TypeOK
  BY DEF IntakeInv, IntakeStores, IntakeThreads, IntakeClients, IntakeQueue, Intake!TypeOK

\* The listener with one task less to file, and one filed
LEMMA IntakeFiled ==
    ASSUME NEW l \in [at : {"sleep", "tasks"}, rest : Seq(Texts), filed : Nat],
           NEW left \in Seq(Texts)
    PROVE  [l EXCEPT !.rest = left, !.filed = l.filed + 1]
                \in [at : {"sleep", "tasks"}, rest : Seq(Texts), filed : Nat]
  <1> DEFINE n == l.filed + 1
             c == [l EXCEPT !.rest = left, !.filed = n]
  <1>1. n \in Nat
    OBVIOUS
  <1>2. /\ c
           = [f \in {"at", "rest", "filed"} |-> IF f = "filed" THEN n ELSE IF f
               = "rest" THEN left ELSE l[f]]
        /\ l.at \in {"sleep", "tasks"}
    OBVIOUS
  <1> HIDE DEF n, c
  <1>3. /\ c = [at |-> c.at, rest |-> c.rest, filed |-> c.filed]
        /\ c.at \in {"sleep", "tasks"} /\ c.rest \in Seq(Texts) /\ c.filed \in Nat
    BY <1>1, <1>2
  <1>4. c \in [at : {"sleep", "tasks"}, rest : Seq(Texts), filed : Nat]
    BY <1>3
  <1> QED BY <1>4 DEF c, n

\* A thread, the listener and a client that have nothing to do
LEMMA IntakeBegins ==
    /\ Intake!Idle \in Intake!Submission /\ Intake!Idle.at = "idle"
    /\ Intake!Asleep \in [at : {"sleep", "tasks"}, rest : Seq(Texts), filed : Nat]
    /\ Intake!Away \in [text : Texts \cup {None}, sent : 0..2]
    /\ Intake!Away.text = None /\ Intake!Away.sent = 0
  <1>1. <<>> \in Seq(Texts)
    OBVIOUS
  <1>2. Intake!Asleep \in [at : {"sleep", "tasks"}, rest : Seq(Texts), filed : Nat]
    BY <1>1 DEF Intake!Asleep
  <1>3. Intake!Idle \in Intake!Submission /\ Intake!Idle.at = "idle"
    BY DEF Intake!Idle, Intake!Submission
  <1> QED BY <1>2, <1>3 DEF Intake!Away

\* Nothing is stored, sent or filed at the beginning
LEMMA IntakeInit ==
    ASSUME Intake!Init
    PROVE  IntakeInv
  <1>1. IntakeStores
    BY KernelAssumption DEF Intake!Init, IntakeStores, Intake!IntakeAssumption
  <1>2. IntakeThreads
    BY IntakeBegins DEF Intake!Init, IntakeThreads
  <1>3. IntakeClients
    BY IntakeBegins DEF Intake!Init, IntakeClients
  <1>4. IntakeQueue
    BY IntakeBegins DEF Intake!Init, IntakeQueue, Intake!Actors
  <1> QED BY <1>1, <1>2, <1>3, <1>4 DEF IntakeInv

-----------------------------------------------------------------------------

\* A thread x goes on to s
LEMMA IntakeMove ==
    ASSUME IntakeThreads, NEW x \in Intake!Actors, NEW s \in Intake!Submission,
           submitter' = [submitter EXCEPT ![x] = s], s.at # "idle" => s.text \in Texts,
           UNCHANGED entry \/ \E e \in Intake!Ended \cup {"none", "submitted", "running"} :
                                    entry' = [entry EXCEPT ![x] = e]
    PROVE  IntakeThreads' /\ submitter'[x] = s
           /\ \A y \in Intake!Actors \ {x} : submitter'[y] = submitter[y]
  <1>1. submitter' \in [Intake!Actors -> Intake!Submission] /\ submitter'[x] = s
        /\ \A y \in Intake!Actors \ {x} : submitter'[y] = submitter[y]
    BY DEF IntakeThreads
  <1>2. entry' \in [Intake!Actors -> Intake!Ended \cup {"none", "submitted", "running"}]
    BY DEF IntakeThreads
  <1> QED BY <1>1, <1>2 DEF IntakeThreads

\* ... to no other work than it was at
LEMMA IntakeNoWork ==
    ASSUME IntakeThreads, NEW x \in Intake!Actors, NEW s \in Intake!Submission,
           submitter' = [submitter EXCEPT ![x] = s],
           \/ s.at \notin {"submitted", "running"}
           \/ s.at \in {"submitted", "running"} /\ s.text = submitter[x].text
                /\ submitter[x].at \in {"submitted", "running"}
    PROVE  RunsOnce
  <1>1. submitter'[x] = s /\ \A y \in Intake!Actors \ {x} : submitter'[y] = submitter[y]
    BY DEF IntakeThreads
  <1>2. ASSUME NEW key, NEW y \in Intake!Works(key)' PROVE y \in Intake!Works(key)
    BY <1>1, <1>2 DEF Intake!Works, Intake!Key
  <1> QED BY <1>2 DEF RunsOnce

\* Without a thread that goes on no text is run
LEMMA IntakeSameThreads ==
    ASSUME IntakeThreads, UNCHANGED <<submitter, entry>>
    PROVE  IntakeThreads' /\ RunsOnce
  BY DEF IntakeThreads, RunsOnce, Intake!Works

\* A thread submits a text, and runs it unless its answer is stored or it is refused
LEMMA IntakeSubmit ==
    ASSUME IntakeInv, NEW x \in Intake!Actors, NEW text \in Texts, NEW c \in Clients \cup {None},
           Intake!Submit(x, text, c), UNCHANGED cache
    PROVE  IntakeThreads' /\ RunsOnce
           /\ \A y \in Intake!Actors \ {x} : submitter'[y] = submitter[y]
  <1> DEFINE key == Intake!Key(x, text)
  <1>1. IntakeThreads /\ cache \in [IntakeKeys -> Intake!Ended \cup {None}] /\ key \in IntakeKeys
    BY DEF IntakeInv, IntakeStores, IntakeKeys, Intake!Key
  <1>2. PICK at_ \in {"answered", "raised", "submitted"},
             status \in Intake!Ended \cup {"rejected", None} :
          /\ submitter' = [submitter EXCEPT ![x] =
                             [at |-> at_, text |-> text, client |-> c, status |-> status]]
          /\ UNCHANGED entry \/ \E e \in {"submitted", "none"} : entry' = [entry EXCEPT ![x] = e]
          /\ at_ = "submitted" => ~Intake!Hit(key)
    <2>1. Intake!Hit(key) => cache[key] \in Intake!Ended
      BY DEF Intake!Hit
    <2> QED BY <2>1 DEF Intake!Submit
  <1> DEFINE s == [at |-> at_, text |-> text, client |-> c, status |-> status]
  <1>3. s \in Intake!Submission /\ s.at = at_ /\ s.text = text
    BY DEF Intake!Submission
  <1>4. submitter' = [submitter EXCEPT ![x] = s]
    BY <1>2
  <1> HIDE DEF s, key
  <1>5. IntakeThreads' /\ submitter'[x] = s
        /\ \A y \in Intake!Actors \ {x} : submitter'[y] = submitter[y]
    BY <1>1, <1>2, <1>3, <1>4, IntakeMove
  <1>6. CASE at_ # "submitted"
    BY <1>1, <1>3, <1>4, <1>5, <1>6, IntakeNoWork
  <1>7. CASE at_ = "submitted"
    <2>1. cache[key] = None
      BY <1>1, <1>2, <1>7 DEF Intake!Hit
    <2>2. ASSUME NEW k \in DOMAIN cache, cache[k] # None, NEW y \in Intake!Works(k)'
          PROVE  y \in Intake!Works(k)
      <3>1. y \in Intake!Actors /\ Intake!Key(y, submitter'[y].text) = k
            /\ submitter'[y].at \in {"submitted", "running"}
        BY <2>2 DEF Intake!Works
      <3>2. y # x
        BY <3>1, <1>3, <1>5, <2>1, <2>2 DEF key
      <3> QED BY <3>1, <3>2, <1>5 DEF Intake!Works
    <2> QED BY <1>5, <2>2 DEF RunsOnce
  <1> QED BY <1>5, <1>6, <1>7

\* The listener's thread is none of the pool's and not the loop
LEMMA ListenerApart ==
    ASSUME NEW x \in Threads \cup {Loop}
    PROVE  x \in Intake!Actors /\ x # Listener /\ Listener \in Intake!Actors
  BY KernelAssumption DEF Intake!IntakeAssumption, Intake!Actors

\* The queue, while the listener's thread stays where it is
LEMMA QueueStays ==
    ASSUME IntakeQueue, UNCHANGED <<file, listener>>,
           submitter'[Listener].at = "idle" \/ submitter[Listener].at # "idle"
    PROVE  IntakeQueue'
  BY DEF IntakeQueue

\* A thread runs its text, is done with it and stores the answer
LEMMA IntakeRun ==
    ASSUME IntakeInv, NEW x \in Intake!Actors, Intake!Run(x)
    PROVE  IntakeInv' /\ RunsOnce
  <1>1. /\ IntakeThreads /\ IntakeStores /\ IntakeClients /\ IntakeQueue
        /\ submitter[x] \in Intake!Submission /\ Listener \in Intake!Actors
        /\ submitter[x].at # "idle" => submitter[x].text \in Texts
    BY DEF IntakeInv, IntakeThreads, Intake!Actors
  <1>2. ASSUME NEW s \in Intake!Submission, submitter' = [submitter EXCEPT ![x] = s],
               s.text = submitter[x].text, s.at \in {"running", "answered", "raised"},
               submitter[x].at \in {"submitted", "running"},
               UNCHANGED <<client, file, listener>>, IntakeStores',
               UNCHANGED entry \/ \E e \in Intake!Ended \cup {"none", "submitted", "running"} :
                                    entry' = [entry EXCEPT ![x] = e]
        PROVE  IntakeInv' /\ RunsOnce
    <2>1. IntakeThreads' /\ submitter'[x] = s
          /\ \A y \in Intake!Actors \ {x} : submitter'[y] = submitter[y]
      BY <1>1, <1>2, IntakeMove
    <2>2. RunsOnce
      BY <1>1, <1>2, IntakeNoWork
    <2>3. IntakeQueue'
      BY <1>1, <1>2, <2>1, QueueStays
    <2>4. IntakeClients'
      BY <1>1, <1>2 DEF IntakeClients
    <2> QED BY <1>2, <2>1, <2>2, <2>3, <2>4 DEF IntakeInv
  <1>3. CASE Intake!BeforeTask(x)
    <2> DEFINE s == [submitter[x] EXCEPT !.at = "running"]
    <2>1. s \in Intake!Submission /\ s.text = submitter[x].text /\ s.at = "running"
      BY <1>1 DEF Intake!Submission
    <2>2. submitter' = [submitter EXCEPT ![x] = s] /\ submitter[x].at = "submitted"
          /\ entry' = [entry EXCEPT ![x] = "running"]
          /\ UNCHANGED <<fielded, cache, trace, client, file, listener>>
      BY <1>3 DEF Intake!BeforeTask
    <2> HIDE DEF s
    <2>3. IntakeStores'
      BY <1>1, <2>2 DEF IntakeStores
    <2> QED BY <1>2, <2>1, <2>2, <2>3
  <1>4. CASE Intake!Raise(x)
    <2> DEFINE s == [submitter[x] EXCEPT !.at = "raised"]
    <2>1. s \in Intake!Submission /\ s.text = submitter[x].text /\ s.at = "raised"
      BY <1>1 DEF Intake!Submission
    <2>2. submitter' = [submitter EXCEPT ![x] = s] /\ submitter[x].at \in {"submitted", "running"}
          /\ UNCHANGED <<fielded, cache, entry, trace, client, file, listener>>
      BY <1>4 DEF Intake!Raise
    <2> HIDE DEF s
    <2>3. IntakeStores'
      BY <1>1, <2>2 DEF IntakeStores
    <2> QED BY <1>2, <2>1, <2>2, <2>3
  <1>5. ASSUME NEW status \in Intake!Ended, Intake!AfterTask(x, status)
        PROVE  IntakeInv' /\ RunsOnce
    <2>1. /\ submitter[x].at = "running" /\ entry' = [entry EXCEPT ![x] = status]
          /\ UNCHANGED <<fielded, client, file, listener>>
      BY <1>5 DEF Intake!AfterTask, Intake!EndOf
    <2>2. trace' \in 0..(MaxTrace + 1)
      BY <1>1, <1>5, KernelAssumption DEF Intake!AfterTask, IntakeStores, Intake!IntakeAssumption
    <2>3. CASE trace' > MaxTrace
      <3> DEFINE s == [submitter[x] EXCEPT !.at = "raised"]
      <3>1. s \in Intake!Submission /\ s.text = submitter[x].text /\ s.at = "raised"
        BY <1>1 DEF Intake!Submission
      <3>2. submitter' = [submitter EXCEPT ![x] = s] /\ UNCHANGED cache
        BY <1>5, <2>3 DEF Intake!AfterTask, Intake!Store
      <3> HIDE DEF s
      <3>3. IntakeStores'
        BY <1>1, <2>1, <2>2, <3>2 DEF IntakeStores
      <3> QED BY <1>2, <2>1, <3>1, <3>2, <3>3
    <2>4. CASE ~(trace' > MaxTrace)
      <3> DEFINE s == [submitter[x] EXCEPT !.at = "answered", !.status = status]
      <3>1. s \in Intake!Submission /\ s.text = submitter[x].text /\ s.at = "answered"
        BY <1>1 DEF Intake!Submission
      <3>2. submitter' = [submitter EXCEPT ![x] = s]
            /\ cache' = [cache EXCEPT ![Intake!Key(x, submitter[x].text)] = status]
        BY <1>5, <2>4 DEF Intake!AfterTask, Intake!Store
      <3> HIDE DEF s
      <3>3. IntakeStores'
        BY <1>1, <2>1, <2>2, <3>2 DEF IntakeStores
      <3> QED BY <1>2, <2>1, <3>1, <3>2, <3>3
    <2> QED BY <2>3, <2>4
  <1> QED BY <1>3, <1>4, <1>5 DEF Intake!Run

\* Clients that send or wait
LEMMA IntakeArrive ==
    ASSUME IntakeInv, NEW c \in Clients, NEW text \in Texts, Intake!Arrive(c, text)
    PROVE  /\ IntakeThreads' /\ IntakeStores' /\ IntakeQueue' /\ RunsOnce
  <1>1. IntakeThreads /\ IntakeStores /\ IntakeQueue
    BY DEF IntakeInv
  <1>2. UNCHANGED <<fielded, cache, trace, file, listener>>
    BY DEF Intake!Arrive
  <1>3. IntakeStores'
    BY <1>1, <1>2 DEF IntakeStores
  <1>4. CASE UNCHANGED <<submitter, entry>>
    <2>1. IntakeQueue'
      BY <1>1, <1>2, <1>4 DEF IntakeQueue
    <2> QED BY <1>1, <1>3, <1>4, <2>1, IntakeSameThreads
  <1>5. ASSUME NEW x \in Threads \cup {Loop}, Intake!Submit(x, text, c)
        PROVE  /\ IntakeThreads' /\ IntakeStores' /\ IntakeQueue' /\ RunsOnce
    <2>1. /\ IntakeThreads' /\ RunsOnce
          /\ \A y \in Intake!Actors \ {x} : submitter'[y] = submitter[y]
      BY <1>2, <1>5, IntakeSubmit, ListenerApart
    <2>2. submitter'[Listener] = submitter[Listener]
      BY <2>1, ListenerApart
    <2> QED BY <1>1, <1>2, <1>3, <2>1, <2>2, QueueStays
  <1>6. CASE /\ submitter' = [submitter EXCEPT ![Loop] =
                    [at |-> "raised", text |-> text, client |-> c, status |-> None]]
             /\ UNCHANGED entry
    <2> DEFINE s == [at |-> "raised", text |-> text, client |-> c, status |-> None]
    <2>1. s \in Intake!Submission /\ s.at = "raised" /\ s.text = text
          /\ submitter' = [submitter EXCEPT ![Loop] = s]
      BY <1>6 DEF Intake!Submission
    <2> HIDE DEF s
    <2>2. /\ IntakeThreads' /\ submitter'[Loop] = s
          /\ \A y \in Intake!Actors \ {Loop} : submitter'[y] = submitter[y]
      BY <1>1, <1>6, <2>1, IntakeMove, ListenerApart
    <2>3. RunsOnce
      BY <1>1, <2>1, IntakeNoWork, ListenerApart
    <2>4. submitter'[Listener] = submitter[Listener]
      BY <2>2, ListenerApart
    <2> QED BY <1>1, <1>2, <1>3, <2>2, <2>3, <2>4, QueueStays
  <1> QED BY <1>4, <1>5, <1>6 DEF Intake!Arrive, Intake!Chat, Intake!Traced

\* A client sends its text, or again after a timeout
LEMMA IntakeClient ==
    ASSUME IntakeInv, NEW c \in Clients,
           Intake!TimeOut(c) \/ \E text \in Texts : Intake!Send(c, text)
    PROVE  IntakeInv' /\ RunsOnce
  <1>1. IntakeThreads /\ IntakeStores /\ IntakeClients /\ IntakeQueue /\ None \notin Texts
    BY KernelAssumption DEF IntakeInv, Intake!IntakeAssumption
  <1>2. ASSUME NEW text \in Texts, Intake!Send(c, text) PROVE IntakeInv' /\ RunsOnce
    <2>1. /\ IntakeThreads' /\ IntakeStores' /\ IntakeQueue' /\ RunsOnce
      BY <1>2, IntakeArrive DEF Intake!Send
    <2>2. client' = [client EXCEPT ![c] =
                IF Intake!ChatAccepts(text) THEN [text |-> text, sent |-> 1] ELSE client[c]]
      BY <1>2 DEF Intake!Send
    <2>3. IntakeClients'
      BY <1>1, <2>2 DEF IntakeClients
    <2> QED BY <2>1, <2>3 DEF IntakeInv
  <1>3. CASE Intake!TimeOut(c)
    <2>1. client[c].text \in Texts /\ client[c] \in [text : Texts \cup {None}, sent : 0..2]
      BY <1>1, <1>3 DEF Intake!TimeOut, IntakeClients
    <2>2. CASE client[c].sent = 1
      <3>1. /\ IntakeThreads' /\ IntakeStores' /\ IntakeQueue' /\ RunsOnce
        BY <1>3, <2>1, <2>2, IntakeArrive DEF Intake!TimeOut
      <3>2. client' = [client EXCEPT ![c].sent = 2]
        BY <1>3, <2>2 DEF Intake!TimeOut
      <3>3. IntakeClients'
        BY <1>1, <2>1, <3>2 DEF IntakeClients
      <3> QED BY <3>1, <3>3 DEF IntakeInv
    <2>3. CASE client[c].sent # 1
      <3>1. client' = [client EXCEPT ![c] = Intake!Away]
            /\ UNCHANGED <<fielded, cache, submitter, entry, trace, file, listener>>
        BY <1>3, <2>3 DEF Intake!TimeOut
      <3>2. IntakeClients'
        BY <1>1, <3>1, IntakeBegins DEF IntakeClients
      <3>3. IntakeThreads' /\ RunsOnce
        BY <1>1, <3>1, IntakeSameThreads
      <3> QED BY <1>1, <3>1, <3>2, <3>3 DEF IntakeInv, IntakeStores, IntakeQueue
    <2> QED BY <2>2, <2>3
  <1> QED BY <1>2, <1>3

\* A thread that is done goes away
LEMMA IntakeLeave ==
    ASSUME IntakeInv, NEW x \in Intake!Actors, Intake!Leave(x)
    PROVE  IntakeThreads' /\ RunsOnce /\ submitter'[x].at = "idle"
           /\ \A y \in Intake!Actors \ {x} : submitter'[y] = submitter[y]
  <1>1. IntakeThreads /\ submitter' = [submitter EXCEPT ![x] = Intake!Idle]
        /\ entry' = [entry EXCEPT ![x] = "none"]
    BY DEF IntakeInv, Intake!Leave
  <1>2. Intake!Idle \in Intake!Submission /\ Intake!Idle.at = "idle"
    BY IntakeBegins
  <1>3. /\ IntakeThreads' /\ submitter'[x] = Intake!Idle
        /\ \A y \in Intake!Actors \ {x} : submitter'[y] = submitter[y]
    BY <1>1, <1>2, IntakeMove
  <1>4. RunsOnce
    BY <1>1, <1>2, IntakeNoWork
  <1> QED BY <1>2, <1>3, <1>4

\* A thread answers its client
LEMMA IntakeAnswer ==
    ASSUME IntakeInv, NEW x \in Threads \cup {Loop}, Intake!Answer(x)
    PROVE  IntakeInv' /\ RunsOnce
  <1>1. IntakeThreads /\ IntakeStores /\ IntakeClients /\ IntakeQueue
    BY DEF IntakeInv
  <1>2. /\ UNCHANGED <<fielded, cache, trace, file, listener>>
        /\ Intake!Leave(x)
    BY DEF Intake!Answer
  <1>3. /\ IntakeThreads' /\ RunsOnce
        /\ submitter'[Listener] = submitter[Listener]
    BY <1>2, IntakeLeave, ListenerApart
  <1>4. IntakeQueue'
    BY <1>1, <1>2, <1>3, QueueStays
  <1>5. IntakeStores'
    BY <1>1, <1>2 DEF IntakeStores
  <1>6. PICK c, a : client' = [client EXCEPT ![c] = a] /\ a \in {Intake!Away, client[c]}
    BY DEF Intake!Answer
  <1>7. IntakeClients'
    <2>1. CASE c \in Clients
      BY <2>1, <1>1, <1>6, IntakeBegins DEF IntakeClients
    <2>2. CASE c \notin Clients
      <3>1. client' = client
        BY <2>2, <1>1, <1>6 DEF IntakeClients
      <3> QED BY <3>1, <1>1 DEF IntakeClients
    <2> QED BY <2>1, <2>2
  <1> QED BY <1>3, <1>4, <1>5, <1>7 DEF IntakeInv

\* The queue file and the listener
LEMMA IntakeFile ==
    ASSUME IntakeInv,
           \/ Intake!ListenerStep \/ Intake!CloseFile \/ \E b \in Batches : Intake!OpenFile(b)
    PROVE  IntakeInv' /\ RunsOnce
  <1>1. /\ IntakeThreads /\ IntakeStores /\ IntakeClients /\ IntakeQueue
           /\ Listener \in Intake!Actors
        /\ Batches \subseteq Seq(Texts)
    BY KernelAssumption DEF IntakeInv, Intake!Actors, Intake!IntakeAssumption
  <1>2. ASSUME UNCHANGED <<fielded, cache, submitter, entry, trace, client>>, IntakeQueue'
        PROVE  IntakeInv' /\ RunsOnce
    BY <1>1, <1>2, IntakeSameThreads DEF IntakeInv, IntakeStores, IntakeClients
  <1>3. ASSUME NEW b \in Batches, Intake!OpenFile(b) PROVE IntakeInv' /\ RunsOnce
    <2>1. (listener.at # "sleep") \in BOOLEAN
      OBVIOUS
    <2>2. [tasks |-> b, whole |-> FALSE, read |-> FALSE,
          during |-> listener.at # "sleep"] \in Intake!QueueFile
      BY <2>1, Zenon DEF Intake!QueueFile
    <2>3. IntakeQueue'
      BY <1>1, <1>3, <2>2 DEF Intake!OpenFile, IntakeQueue
    <2> QED BY <1>2, <1>3, <2>3 DEF Intake!OpenFile
  <1>4. CASE Intake!CloseFile
    <2>1. file' \in Intake!QueueFile
      BY <1>1, <1>4 DEF Intake!CloseFile, IntakeQueue, Intake!QueueFile
    <2>2. IntakeQueue'
      BY <1>1, <1>4, <2>1 DEF Intake!CloseFile, IntakeQueue
    <2> QED BY <1>2, <1>4, <2>2 DEF Intake!CloseFile
  <1>5. CASE Intake!ReadFile
    <2>1. file' \in Intake!QueueFile /\ file.tasks \in Seq(Texts) /\ listener.at = "sleep"
      BY <1>1, <1>5 DEF Intake!ReadFile, IntakeQueue, Intake!QueueFile
    <2>2. IntakeQueue'
      BY <1>1, <1>5, <2>1 DEF Intake!ReadFile, IntakeQueue
    <2> QED BY <1>2, <1>5, <2>2 DEF Intake!ReadFile
  <1>6. CASE Intake!TakeTask
    <2>1. /\ listener.at = "tasks" /\ listener.rest # <<>>
          /\ UNCHANGED <<fielded, cache, trace, client, file>>
          /\ submitter[Listener].at = "idle" /\ listener.rest \in Seq(Texts)
      BY <1>1, <1>6 DEF Intake!TakeTask, IntakeQueue
    <2>2. Head(listener.rest) \in Texts
      BY <2>1
    <2>3. CASE Intake!Submit(Listener, Head(listener.rest), None) /\ UNCHANGED listener
      <3>1. IntakeThreads' /\ RunsOnce
        BY <1>1, <2>1, <2>2, <2>3, IntakeSubmit
      <3>2. IntakeQueue'
        BY <1>1, <2>1, <2>3 DEF IntakeQueue
      <3> QED BY <1>1, <2>1, <3>1, <3>2 DEF IntakeInv, IntakeStores, IntakeClients
    <2>4. CASE listener' = Intake!Asleep /\ UNCHANGED <<submitter, entry>>
      <3>1. IntakeQueue'
        BY <1>1, <2>1, <2>4, IntakeBegins DEF IntakeQueue
      <3> QED BY <1>2, <2>1, <2>4, <3>1
    <2> QED BY <1>6, <2>3, <2>4 DEF Intake!TakeTask, Intake!Abandoned
  <1>7. CASE Intake!WriteResult
    <2>1. /\ Intake!Leave(Listener) /\ UNCHANGED <<fielded, cache, trace, client, file>>
          /\ listener.rest # <<>> /\ listener.rest \in Seq(Texts)
      BY <1>1, <1>7 DEF Intake!WriteResult, IntakeQueue
    <2>2. IntakeThreads' /\ RunsOnce /\ submitter'[Listener].at = "idle"
      BY <1>1, <2>1, IntakeLeave
    <2>3. Tail(listener.rest) \in Seq(Texts)
      BY <2>1
    <2>4. \/ listener' = Intake!Asleep
          \/ listener'
             = [listener EXCEPT !.rest = Tail(listener.rest), !.filed = listener.filed + 1]
      BY <1>7 DEF Intake!WriteResult, Intake!Abandoned
    <2>5. listener' \in [at : {"sleep", "tasks"}, rest : Seq(Texts), filed : Nat]
      <3>1. CASE listener' = Intake!Asleep
        BY <3>1, IntakeBegins
      <3>2. CASE listener'
            = [listener EXCEPT !.rest = Tail(listener.rest), !.filed = listener.filed + 1]
        <4>1. listener \in [at : {"sleep", "tasks"}, rest : Seq(Texts), filed : Nat]
          BY <1>1 DEF IntakeQueue
        <4> QED BY <2>3, <3>2, <4>1, IntakeFiled
      <3> QED BY <2>4, <3>1, <3>2
    <2>6. IntakeQueue'
      BY <1>1, <2>1, <2>2, <2>5 DEF IntakeQueue
    <2> QED BY <1>1, <2>1, <2>2, <2>6 DEF IntakeInv, IntakeStores, IntakeClients
  <1>8. CASE Intake!RemoveFile
    <2>1. IntakeQueue'
      BY <1>1, <1>8, IntakeBegins DEF Intake!RemoveFile, IntakeQueue
    <2> QED BY <1>2, <1>8, <2>1 DEF Intake!RemoveFile
  <1> QED BY <1>3, <1>4, <1>5, <1>6, <1>7, <1>8 DEF Intake!ListenerStep

\* An answer expires, or the kernel is restarted
LEMMA IntakeTime ==
    ASSUME IntakeInv, Intake!Restart \/ \E key \in DOMAIN cache : Intake!Expire(key)
    PROVE  IntakeInv' /\ RunsOnce
  <1>1. /\ IntakeThreads /\ IntakeStores /\ IntakeClients /\ IntakeQueue
           /\ Listener \in Intake!Actors
    BY DEF IntakeInv, Intake!Actors
  <1>2. ASSUME NEW key \in DOMAIN cache, Intake!Expire(key) PROVE IntakeInv' /\ RunsOnce
    <2>1. /\ UNCHANGED <<fielded, submitter, entry, trace, client, file, listener>>
          /\ cache' = [cache EXCEPT ![key] = None]
      BY <1>2 DEF Intake!Expire
    <2>2. IntakeStores'
      BY <1>1, <2>1 DEF IntakeStores
    <2> QED BY <1>1, <2>1, <2>2, IntakeSameThreads DEF IntakeInv, IntakeClients, IntakeQueue
  <1>3. CASE Intake!Restart
    <2>1. IntakeStores' /\ \A key \in DOMAIN cache : cache'[key] = None
      BY <1>1, <1>3, KernelAssumption DEF Intake!Restart, IntakeStores, Intake!IntakeAssumption
    <2>2. IntakeThreads' /\ submitter'[Listener].at = "idle"
      BY <1>1, <1>3, IntakeBegins DEF Intake!Restart, IntakeThreads
    <2>3. IntakeClients'
      BY <1>3, IntakeBegins DEF Intake!Restart, IntakeClients
    <2>4. file' \in {None} \cup Intake!QueueFile
      BY <1>1, <1>3 DEF Intake!Restart, IntakeQueue, Intake!QueueFile
    <2>5. IntakeQueue'
      BY <1>3, <2>2, <2>4, IntakeBegins DEF Intake!Restart, IntakeQueue
    <2> QED BY <2>1, <2>2, <2>3, <2>5 DEF IntakeInv, RunsOnce
  <1> QED BY <1>2, <1>3

\* Every step of the intake keeps its invariant, and runs no text whose answer is stored
LEMMA IntakeStep ==
    ASSUME IntakeInv, [Intake!Next]_intakeVars
    PROVE  IntakeInv' /\ RunsOnce
  <1>1. CASE UNCHANGED intakeVars
    <2>1. IntakeThreads' /\ RunsOnce
      BY <1>1, IntakeSameThreads DEF intakeVars, IntakeInv
    <2> QED BY <1>1, <2>1 DEF intakeVars, IntakeInv, IntakeStores, IntakeClients, IntakeQueue
  <1>2. CASE Intake!ReplyTraced \/ \E x \in Threads : Intake!Reply(x)
    BY <1>2, IntakeAnswer DEF Intake!ReplyTraced, Intake!Reply
  <1> QED BY <1>1, <1>2, IntakeRun, IntakeClient, IntakeFile, IntakeTime DEF Intake!Next

\* What the listener has filed agrees with its file after each step, and a file that is removed
\* had all its tasks filed
LEMMA IntakeFiles ==
    ASSUME IntakeInv, IntakeFiling, [Intake!Next]_intakeVars
    PROVE  IntakeFiling' /\ Removed
  <1>1. /\ IntakeQueue /\ IntakeFiling /\ None \notin Intake!QueueFile
        /\ listener.rest \in Seq(Texts) /\ listener.filed \in Nat
        /\ Batches \subseteq Seq(Texts)
    BY KernelAssumption DEF IntakeInv, IntakeQueue, Intake!IntakeAssumption
  <1>2. CASE UNCHANGED <<file, listener>>
    BY <1>1, <1>2 DEF IntakeFiling, Removed
  <1>3. CASE \E b \in Batches : Intake!OpenFile(b)
    <2>1. PICK b \in Batches : Intake!OpenFile(b)
      BY <1>3
    <2>2. (listener.at # "sleep") \in BOOLEAN
      OBVIOUS
    <2>3. file' \in Intake!QueueFile
      BY <2>1, <2>2, Zenon DEF Intake!QueueFile, Intake!OpenFile
    <2>4. file'.during = (listener.at # "sleep") /\ UNCHANGED listener
      BY <2>1, Zenon DEF Intake!OpenFile
    <2> QED BY <1>1, <2>3, <2>4 DEF IntakeFiling, Removed
  <1>4. CASE Intake!CloseFile
    <2>1. /\ file \in Intake!QueueFile /\ UNCHANGED listener
          /\ file' = [file EXCEPT !.whole = TRUE]
      BY <1>1, <1>4 DEF Intake!CloseFile, IntakeQueue
    <2>2. /\ file'.during = file.during /\ file'.read = file.read /\ file'.tasks = file.tasks
          /\ file' \in Intake!QueueFile
      BY <2>1 DEF Intake!QueueFile
    <2> QED BY <1>1, <2>1, <2>2 DEF IntakeFiling, Removed
  <1>5. CASE Intake!ReadFile
    <2>1. /\ file \in Intake!QueueFile /\ file' = [file EXCEPT !.read = TRUE]
          /\ listener' = [at |-> "tasks", rest |-> file.tasks, filed |-> 0]
      BY <1>1, <1>5 DEF Intake!ReadFile, IntakeQueue
    <2>2. /\ file'.read /\ file'.tasks = file.tasks /\ file.tasks \in Seq(Texts)
          /\ file' \in Intake!QueueFile
      BY <1>1, <2>1 DEF Intake!QueueFile
    <2>3. listener'.filed = 0 /\ listener'.rest = file.tasks
      BY <2>1
    <2>4. listener'.filed + Len(listener'.rest) = Len(file'.tasks)
      BY <2>2, <2>3
    <2> QED BY <1>1, <2>2, <2>4 DEF IntakeFiling, Removed
  <1>6. CASE UNCHANGED file /\ listener' = Intake!Asleep
    BY <1>6 DEF Intake!Asleep, IntakeFiling, Removed
  <1>7. CASE Intake!TakeTask
    BY <1>2, <1>6, <1>7 DEF Intake!TakeTask, Intake!Abandoned
  <1>8. CASE Intake!WriteResult
    <2>1. /\ UNCHANGED file /\ listener.rest # <<>>
          /\ \/ listener' = Intake!Asleep
             \/ listener'
                = [listener EXCEPT !.rest = Tail(listener.rest), !.filed = listener.filed + 1]
      BY <1>1, <1>8 DEF Intake!WriteResult, Intake!Abandoned, IntakeQueue
    <2>2. CASE listener'
               = [listener EXCEPT !.rest = Tail(listener.rest), !.filed = listener.filed + 1]
      <3>1. /\ listener'.rest = Tail(listener.rest) /\ listener'.filed = listener.filed + 1
            /\ listener'.at = listener.at
        BY <1>1, <2>2 DEF IntakeQueue
      <3>2. Len(Tail(listener.rest)) = Len(listener.rest) - 1 /\ Len(listener.rest) \in Nat
        BY <1>1, <2>1
      <3>3. listener'.filed + Len(listener'.rest) = listener.filed + Len(listener.rest)
        BY <1>1, <3>1, <3>2
      <3> QED BY <1>1, <2>1, <3>1, <3>3 DEF IntakeFiling, Removed
    <2> QED BY <1>6, <2>1, <2>2
  <1>9. CASE Intake!RemoveFile
    <2>1. /\ listener.at = "tasks" /\ listener.rest = <<>> /\ file' = None
      BY <1>9 DEF Intake!RemoveFile
    <2>2. Len(listener.rest) = 0
      BY <2>1
    <2>3. Removed
      BY <1>1, <2>1, <2>2 DEF IntakeFiling, Removed
    <2> QED BY <2>1, <2>3 DEF IntakeFiling
  <1>10. CASE Intake!Restart
    <2>1. listener'.at = "sleep"
      BY <1>10 DEF Intake!Restart, Intake!Asleep
    <2>2. file # None => file' # None
      <3>1. ASSUME file # None PROVE file' \in Intake!QueueFile
        BY <1>1, <1>10, <3>1 DEF Intake!Restart, IntakeQueue, Intake!QueueFile
      <3> QED BY <1>1, <3>1
    <2> QED BY <2>1, <2>2 DEF IntakeFiling, Removed
  <1>11. CASE \E x \in Intake!Actors : Intake!Run(x)
    BY <1>2, <1>11
    DEF Intake!Run, Intake!BeforeTask, Intake!Raise, Intake!AfterTask
  <1>12. CASE Intake!ReplyTraced \/ \E x \in Threads : Intake!Reply(x)
    BY <1>2, <1>12 DEF Intake!ReplyTraced, Intake!Reply, Intake!Answer
  <1>13. CASE \E c \in Clients : Intake!TimeOut(c) \/ \E text \in Texts : Intake!Send(c, text)
    BY <1>2, <1>13 DEF Intake!TimeOut, Intake!Send, Intake!Arrive
  <1>14. CASE \E key \in DOMAIN cache : Intake!Expire(key)
    BY <1>2, <1>14 DEF Intake!Expire
  <1>15. CASE UNCHANGED intakeVars
    BY <1>2, <1>15 DEF intakeVars
  <1> QED
    BY <1>3, <1>4, <1>5, <1>7, <1>8, <1>9, <1>10, <1>11, <1>12, <1>13, <1>14, <1>15
    DEF Intake!Next, Intake!ListenerStep

\* A step of the kernel is one of the part, or leaves it as it is
LEMMA IntakeSteps == [Next]_vars => [Intake!Next]_intakeVars
  BY DEF Next, Still, vars, intakeVars

\* The invariant of the part holds in every behaviour of the kernel
LEMMA IntakeAlways == Spec => []IntakeInv
  <1>1. Init => IntakeInv
    BY IntakeInit DEF Init
  <1>2. IntakeInv /\ [Next]_vars => IntakeInv'
    BY IntakeSteps, IntakeStep
  <1> QED BY <1>1, <1>2, PTL DEF Spec

\* A text whose answer is stored, and stays so, is taken up by no thread that was not at it: what
\* is sent again after a timeout gets the answer of the first run.
THEOREM AnsweredOnce == Spec => AnsweredRunsOnce
  <1>1. IntakeInv /\ [Next]_vars =>
          [\A key \in DOMAIN cache :
              cache[key] # None /\ cache'[key] # None
                    => Intake!Works(key)' \subseteq Intake!Works(key)]_(Intake!vars)
    BY IntakeSteps, IntakeStep DEF RunsOnce
  <1> QED BY <1>1, IntakeAlways, PTL DEF Spec, AnsweredRunsOnce, Intake!AnsweredRunsOnce

\* The listener removes a queue file only when it has read that file and answered every task in
\* it, however many there are, unless the file was written while it worked on an earlier one.
THEOREM RemovedCorrect == Spec => RemovedWhenAnswered
  <1>1. Init => IntakeFiling
    BY DEF Init, Intake!Init, IntakeFiling
  <1>2. IntakeInv /\ IntakeFiling /\ [Next]_vars => IntakeFiling'
    BY IntakeSteps, IntakeFiles
  <1>3. IntakeInv /\ IntakeFiling /\ [Next]_vars =>
          [file # None /\ file' = None =>
             \/ file.read /\ listener.filed = Len(file.tasks)
             \/ file.during]_(Intake!vars)
    BY IntakeSteps, IntakeFiles DEF Removed
  <1> QED
    BY <1>1, <1>2, <1>3, IntakeAlways, PTL
    DEF Spec, RemovedWhenAnswered, Intake!RemovedWhenAnswered

-----------------------------------------------------------------------------
(* DevToolkit.  Whoever is about a session has its id and an object made by a *)
(* call, whether or not it is the one in the table by now.                 *)

\* Whoever is about a session has its id, and an object of a call
Chats(c) ==
    c.at # "none" => c.id \in Toolkit!Ids /\ c.call \in Toolkit!Calls /\ c.own \in Toolkit!Calls

ToolkitTables ==
    /\ table \in [Toolkit!Ids -> Toolkit!Calls \cup {None}]
    /\ object \in [Toolkit!Calls -> [mode : Modes, count : Nat]]
    /\ messages \in [Toolkit!Ids -> Seq(Toolkit!Message)]
    /\ clipboard \in [Toolkit!Ids -> Nat]
    /\ audit \in Seq({"planned", "blocked"})

ToolkitChats ==
    /\ chat \in [Toolkit!Runners -> Toolkit!Chatting]
    /\ \A r \in Toolkit!Runners : Chats(chat[r])

ToolkitInv ==
    /\ api \in BOOLEAN /\ calls \in 0..MaxChats
    /\ ToolkitTables /\ ToolkitChats

\* The invariant has the types that the run checks
LEMMA ToolkitShows == ToolkitInv => Toolkit!TypeOK
  BY DEF ToolkitInv, ToolkitTables, ToolkitChats, Toolkit!TypeOK

\* A thread that serves no chat
LEMMA NoChatTyped ==
    Toolkit!NoChat \in Toolkit!Chatting /\ Toolkit!NoChat.at = "none" /\ Chats(Toolkit!NoChat)
  BY KernelAssumption DEF Toolkit!NoChat, Toolkit!Chatting, Toolkit!ToolkitAssumption, Chats

\* No session is kept at the beginning
LEMMA ToolkitInit ==
    ASSUME Toolkit!Init
    PROVE  ToolkitInv
  <1>1. MaxChats \in Nat /\ "plan" \in Modes
    BY KernelAssumption DEF Toolkit!ToolkitAssumption
  <1>2. ToolkitTables
    BY <1>1 DEF Toolkit!Init, ToolkitTables
  <1>3. ToolkitChats
    BY NoChatTyped DEF Toolkit!Init, ToolkitChats
  <1>4. api \in BOOLEAN /\ calls \in 0..MaxChats
    BY <1>1 DEF Toolkit!Init
  <1> QED BY <1>2, <1>3, <1>4 DEF ToolkitInv

\* One thread's chat goes on
LEMMA ToolkitMove ==
    ASSUME ToolkitChats, NEW r \in Toolkit!Runners, NEW c \in Toolkit!Chatting, Chats(c),
           chat' = [chat EXCEPT ![r] = c]
    PROVE  ToolkitChats'
  BY DEF ToolkitChats

\* A session named by the caller or by the number of the call has an id
LEMMA ToolkitId ==
    ASSUME calls < MaxChats, calls \in 0..MaxChats, NEW s \in Sessions \cup {Blank}
    PROVE  /\ Toolkit!IdOf(s, calls + 1) \in Toolkit!Ids /\ calls + 1 \in Toolkit!Calls
           /\ calls + 1 \in 0..MaxChats
  <1>1. calls + 1 \in 1..MaxChats
    BY KernelAssumption DEF Toolkit!ToolkitAssumption
  <1> QED BY <1>1 DEF Toolkit!IdOf, Toolkit!Ids, Toolkit!Calls

\* The object of a session with another count, or another mode
LEMMA Counted ==
    ASSUME object \in [Toolkit!Calls -> [mode : Modes, count : Nat]],
           NEW o \in Toolkit!Calls, NEW n \in Nat, NEW m \in Modes
    PROVE  /\ [object EXCEPT ![o]
              = [mode |-> m, count |-> n]] \in [Toolkit!Calls -> [mode : Modes, count : Nat]]
           /\ [object EXCEPT ![o].count = n] \in [Toolkit!Calls -> [mode : Modes, count : Nat]]
  OBVIOUS

\* A session is looked up, and made if there is none
LEMMA ToolkitLook ==
    ASSUME ToolkitInv, NEW r \in Toolkit!Runners, NEW id \in Toolkit!Ids, NEW m \in Modes,
           calls + 1 \in Toolkit!Calls, calls + 1 \in 0..MaxChats, Toolkit!Look(r, id, m)
    PROVE  ToolkitChats' /\ object' \in [Toolkit!Calls -> [mode : Modes, count : Nat]]
  <1>1. /\ ToolkitChats /\ table[id] \in Toolkit!Calls \cup {None}
           /\ messages[id] \in Seq(Toolkit!Message)
        /\ object \in [Toolkit!Calls -> [mode : Modes, count : Nat]]
    BY DEF ToolkitInv, ToolkitTables
  <1>2. \A o \in Toolkit!Calls : o \in 0..MaxChats
    BY KernelAssumption DEF Toolkit!Calls, Toolkit!ToolkitAssumption
  <1>3. ASSUME NEW at_ \in {"found", "making"}, NEW o \in Toolkit!Calls
        PROVE  LET c == [at |-> at_, id |-> id, mode |-> m, call |-> calls + 1, own |-> o]
               IN  c \in Toolkit!Chatting /\ Chats(c)
    BY <1>2 DEF Toolkit!Chatting, Chats
  <1>4. CASE table[id] # None
    <2> DEFINE c == [at |-> "found", id |-> id, mode |-> m, call |-> calls + 1, own |-> table[id]]
    <2>1. c \in Toolkit!Chatting /\ Chats(c)
      BY <1>1, <1>3, <1>4
    <2>2. chat' = [chat EXCEPT ![r] = c]
      BY <1>4 DEF Toolkit!Look
    <2> HIDE DEF c
    <2>3. object' \in [Toolkit!Calls -> [mode : Modes, count : Nat]]
      <3>1. Len(messages[id]) \in Nat
        BY <1>1
      <3>2. object' = [object EXCEPT ![table[id]] = [mode |-> m, count |-> Len(messages[id])]]
        BY <1>4 DEF Toolkit!Look
      <3> QED BY <1>1, <1>4, <3>1, <3>2, Counted
    <2> QED BY <1>1, <2>1, <2>2, <2>3, ToolkitMove
  <1>5. CASE table[id] = None
    <2> DEFINE c == [at |-> "making", id |-> id, mode |-> m, call |-> calls + 1,
        own |-> calls + 1]
    <2>1. c \in Toolkit!Chatting /\ Chats(c)
      BY <1>1, <1>3, <1>5
    <2>2. chat' = [chat EXCEPT ![r] = c]
      BY <1>5 DEF Toolkit!Look
    <2> HIDE DEF c
    <2>3. object' \in [Toolkit!Calls -> [mode : Modes, count : Nat]]
      BY <1>1, <1>5 DEF Toolkit!Look
    <2> QED BY <1>1, <2>1, <2>2, <2>3, ToolkitMove
  <1> QED BY <1>4, <1>5

\* What is said is put behind what was said
LEMMA ToolkitSay ==
    ASSUME ToolkitInv, NEW r \in Toolkit!Runners, chat[r].at # "none",
           NEW role \in {"user", "assistant"}, Toolkit!Say(r, role)
    PROVE  /\ messages' \in [Toolkit!Ids -> Seq(Toolkit!Message)]
           /\ object' \in [Toolkit!Calls -> [mode : Modes, count : Nat]]
           /\ \A id \in Toolkit!Ids : Toolkit!IsPrefix(messages[id], messages'[id])
  <1> DEFINE id == chat[r].id
             m == <<chat[r].call, role>>
  <1>1. /\ id \in Toolkit!Ids /\ m \in Toolkit!Message
        /\ messages \in [Toolkit!Ids -> Seq(Toolkit!Message)]
        /\ object \in [Toolkit!Calls -> [mode : Modes, count : Nat]]
        /\ table[id] \in Toolkit!Calls \cup {None}
    BY DEF ToolkitInv, ToolkitTables, ToolkitChats, Chats, Toolkit!Message
  <1>2. messages' = [messages EXCEPT ![id] = Append(messages[id], m)]
    BY DEF Toolkit!Say
  <1>3. object' = IF table[id] = None THEN object
                     ELSE [object EXCEPT ![table[id]].count = Len(messages[id]) + 1]
    BY DEF Toolkit!Say
  <1> HIDE DEF id, m
  <1>4. object' \in [Toolkit!Calls -> [mode : Modes, count : Nat]]
    <2>1. Len(messages[id]) + 1 \in Nat
      BY <1>1
    <2>2. CASE table[id] = None
      BY <1>1, <1>3, <2>2
    <2>3. CASE table[id] # None
      <3>1. object' = [object EXCEPT ![table[id]].count = Len(messages[id]) + 1]
        BY <1>3, <2>3
      <3>2. "plan" \in Modes
        BY KernelAssumption DEF Toolkit!ToolkitAssumption
      <3> QED BY <1>1, <2>1, <2>3, <3>1, <3>2, Counted
    <2> QED BY <2>2, <2>3
  <1>5. Append(messages[id], m) \in Seq(Toolkit!Message)
        /\ Toolkit!IsPrefix(messages[id], Append(messages[id], m))
    BY <1>1 DEF Toolkit!IsPrefix
  <1>6. \A i \in Toolkit!Ids : Toolkit!IsPrefix(messages[i], messages[i])
    BY <1>1 DEF Toolkit!IsPrefix
  <1> QED BY <1>1, <1>2, <1>4, <1>5, <1>6

\* Where nothing is said nothing is lost
LEMMA SameIsPrefix ==
    ASSUME ToolkitInv, messages' = messages
    PROVE  \A id \in Toolkit!Ids : Toolkit!IsPrefix(messages[id], messages'[id])
  BY DEF ToolkitInv, ToolkitTables, Toolkit!IsPrefix

\* The steps of a chat
LEMMA ToolkitThread ==
    ASSUME ToolkitInv, NEW t \in Threads,
           \/ Toolkit!BeginChat(t) \/ Toolkit!Ask(t) \/ Toolkit!NoPlan(t)
           \/ Toolkit!Answer(t) \/ Toolkit!Touch(t)
    PROVE  ToolkitInv' /\ \A id \in Toolkit!Ids : Toolkit!IsPrefix(messages[id], messages'[id])
  <1>1. /\ t \in Toolkit!Runners /\ ToolkitTables /\ ToolkitChats /\ chat[t] \in Toolkit!Chatting
           /\ Chats(chat[t])
        /\ calls \in 0..MaxChats /\ api \in BOOLEAN
    BY DEF ToolkitInv, ToolkitChats, Toolkit!Runners
  <1>2. ASSUME NEW next \in {"planning", "answered"}, chat[t].at # "none",
               chat' = [chat EXCEPT ![t].at = next]
        PROVE  ToolkitChats'
    <2>1. [chat[t] EXCEPT !.at = next] \in Toolkit!Chatting /\ Chats([chat[t] EXCEPT !.at = next])
      BY <1>1, <1>2 DEF Toolkit!Chatting, Chats
    <2> QED BY <1>1, <1>2, <2>1, ToolkitMove
  <1>3. ASSUME chat' = [chat EXCEPT ![t] = Toolkit!NoChat] PROVE ToolkitChats'
    BY <1>1, <1>3, NoChatTyped, ToolkitMove
  <1>4. CASE Toolkit!BeginChat(t)
    <2>1. /\ calls < MaxChats /\ calls' = calls + 1 /\ UNCHANGED <<api, table, messages,
             clipboard, audit>>
      BY <1>4 DEF Toolkit!BeginChat
    <2>2. ToolkitChats' /\ object' \in [Toolkit!Calls -> [mode : Modes, count : Nat]]
          /\ calls' \in 0..MaxChats
      <3>1. CASE api
        <4>1. PICK s \in Sessions \cup {Blank},
                   m \in Modes : Toolkit!Look(t, Toolkit!IdOf(s, calls + 1), m)
          BY <1>4, <3>1 DEF Toolkit!BeginChat
        <4> QED BY <1>1, <2>1, <4>1, ToolkitId, ToolkitLook
      <3>2. CASE ~api
        <4>1. UNCHANGED <<object, chat>>
          BY <1>4, <3>2 DEF Toolkit!BeginChat
        <4>2. calls' \in 0..MaxChats
          BY <1>1, <2>1, KernelAssumption DEF Toolkit!ToolkitAssumption
        <4> QED BY <1>1, <4>1, <4>2 DEF ToolkitChats, ToolkitTables
      <3> QED BY <3>1, <3>2
    <2> QED BY <1>1, <2>1, <2>2, SameIsPrefix DEF ToolkitInv, ToolkitTables
  <1>5. CASE Toolkit!Ask(t)
    <2>1. /\ chat[t].at = "found" /\ Toolkit!Say(t, "user")
             /\ chat' = [chat EXCEPT ![t].at = "planning"]
          /\ UNCHANGED <<api, table, clipboard, audit, calls>>
      BY <1>5 DEF Toolkit!Ask
    <2> QED BY <1>1, <1>2, <2>1, ToolkitSay DEF ToolkitInv, ToolkitTables
  <1>6. CASE Toolkit!NoPlan(t)
    BY <1>1, <1>3, <1>6, SameIsPrefix DEF Toolkit!NoPlan, Toolkit!End, ToolkitInv, ToolkitTables
  <1>7. CASE Toolkit!Answer(t)
    <2>1. /\ chat[t].at = "planning" /\ Toolkit!Say(t, "assistant")
             /\ chat' = [chat EXCEPT ![t].at = "answered"]
          /\ UNCHANGED <<api, table, clipboard, audit, calls>>
      BY <1>7 DEF Toolkit!Answer
    <2> QED BY <1>1, <1>2, <2>1, ToolkitSay DEF ToolkitInv, ToolkitTables
  <1>8. CASE Toolkit!Touch(t)
    <2> DEFINE id == chat[t].id
               own == chat[t].own
    <2>1. /\ chat[t].at = "answered" /\ table' = [table EXCEPT ![id] = own]
          /\ object' = [object EXCEPT ![own].count = Len(messages[id])]
          /\ audit' = Append(audit, "planned") /\ chat' = [chat EXCEPT ![t] = Toolkit!NoChat]
          /\ UNCHANGED <<api, messages, clipboard, calls>>
      BY <1>8 DEF Toolkit!Touch, Toolkit!Log, Toolkit!End
    <2>2. id \in Toolkit!Ids /\ own \in Toolkit!Calls
      BY <1>1, <2>1 DEF Chats
    <2> HIDE DEF id, own
    <2>3. Len(messages[id]) \in Nat
      BY <1>1, <2>2 DEF ToolkitTables
    <2>4. object' \in [Toolkit!Calls -> [mode : Modes, count : Nat]]
      BY <1>1, <2>1, <2>2, <2>3 DEF ToolkitTables
    <2>5. table' \in [Toolkit!Ids -> Toolkit!Calls \cup {None}]
          /\ audit' \in Seq({"planned", "blocked"})
      BY <1>1, <2>1, <2>2 DEF ToolkitTables
    <2>6. ToolkitTables'
      BY <1>1, <2>1, <2>4, <2>5 DEF ToolkitTables
    <2> QED BY <1>1, <1>3, <2>1, <2>6, SameIsPrefix DEF ToolkitInv
  <1> QED BY <1>4, <1>5, <1>6, <1>7, <1>8

\* The steps of the calls that the loop makes itself
LEMMA ToolkitLoop ==
    ASSUME ToolkitInv,
           \/ \E at_ \in {"session", "execute"} : Toolkit!BeginLoop(at_)
           \/ \E r \in Toolkit!Runners : Toolkit!Make(r)
           \/ Toolkit!EndLoop \/ Toolkit!List \/ Toolkit!Clip \/ Toolkit!Switch
    PROVE  ToolkitInv' /\ \A id \in Toolkit!Ids : Toolkit!IsPrefix(messages[id], messages'[id])
  <1>1. /\ Loop \in Toolkit!Runners /\ ToolkitTables /\ ToolkitChats
        /\ calls \in 0..MaxChats /\ api \in BOOLEAN
    BY DEF ToolkitInv, Toolkit!Runners
  <1>2. ASSUME calls < MaxChats PROVE calls + 1 \in 0..MaxChats
    BY <1>1, <1>2, KernelAssumption DEF Toolkit!ToolkitAssumption
  <1>3. ASSUME NEW at_ \in {"session", "execute"}, Toolkit!BeginLoop(at_)
        PROVE  ToolkitInv' /\ messages' = messages
    <2>1. /\ calls < MaxChats /\ calls' = calls + 1 /\ UNCHANGED <<api, table, messages,
             clipboard>>
          /\ audit' = IF at_ = "execute" THEN Append(audit, "blocked") ELSE audit
      BY <1>3 DEF Toolkit!BeginLoop, Toolkit!LoopIsFree
    <2>2. PICK s \in Sessions \cup {Blank},
               m \in Modes : Toolkit!Look(Loop, Toolkit!IdOf(s, calls + 1), m)
      BY <1>3 DEF Toolkit!BeginLoop
    <2>3. ToolkitChats' /\ object' \in [Toolkit!Calls -> [mode : Modes, count : Nat]]
      BY <1>1, <2>1, <2>2, ToolkitId, ToolkitLook
    <2>4. audit' \in Seq({"planned", "blocked"})
      BY <1>1, <2>1 DEF ToolkitTables
    <2> QED BY <1>1, <1>2, <2>1, <2>3, <2>4 DEF ToolkitInv, ToolkitTables
  <1>4. ASSUME NEW r \in Toolkit!Runners, Toolkit!Make(r)
        PROVE  ToolkitInv' /\ messages' = messages
    <2>1. /\ chat[r].at = "making" /\ table' = [table EXCEPT ![chat[r].id] = chat[r].own]
          /\ messages' = [messages EXCEPT ![chat[r].id] = messages[chat[r].id]]
          /\ chat' = [chat EXCEPT ![r].at = "found"] /\ UNCHANGED <<api, object, clipboard,
             audit, calls>>
      BY <1>4 DEF Toolkit!Make, Toolkit!Kept
    <2>2. chat[r] \in Toolkit!Chatting /\ chat[r].id \in Toolkit!Ids
          /\ chat[r].own \in Toolkit!Calls
      BY <1>1, <2>1 DEF ToolkitChats, Chats
    <2>3. [chat[r] EXCEPT !.at = "found"] \in Toolkit!Chatting
          /\ Chats([chat[r] EXCEPT !.at = "found"])
      BY <1>1, <2>1, <2>2 DEF Toolkit!Chatting, Chats, ToolkitChats
    <2>4. ToolkitChats'
      BY <1>1, <2>1, <2>3, ToolkitMove
    <2>5. messages' = messages
      BY <1>1, <2>1 DEF ToolkitTables
    <2>6. table' \in [Toolkit!Ids -> Toolkit!Calls \cup {None}]
      BY <1>1, <2>1, <2>2 DEF ToolkitTables
    <2> QED BY <1>1, <2>1, <2>4, <2>5, <2>6 DEF ToolkitInv, ToolkitTables
  <1>5. ASSUME Toolkit!EndLoop PROVE ToolkitInv' /\ messages' = messages
    <2>1. ToolkitChats'
      BY <1>1, <1>5, NoChatTyped, ToolkitMove DEF Toolkit!EndLoop, Toolkit!End
    <2> QED BY <1>1, <1>5, <2>1 DEF Toolkit!EndLoop, ToolkitInv, ToolkitTables
  <1>6. ASSUME Toolkit!List PROVE ToolkitInv' /\ messages' = messages
    <2>1. object \in [Toolkit!Calls -> [mode : Modes, count : Nat]]
          /\ \A id \in Toolkit!Ids : Len(messages[id]) \in Nat
      BY <1>1 DEF ToolkitTables
    <2>2. UNCHANGED <<api, table, messages, clipboard, audit, chat, calls>>
      BY <1>6 DEF Toolkit!List
    <2>3. object' = [o \in Toolkit!Calls |->
                    IF \E id \in Toolkit!Ids : table[id] = o
                    THEN [object[o] EXCEPT !.count =
                            Len(messages[CHOOSE id \in Toolkit!Ids : table[id] = o])]
                    ELSE object[o]]
      BY <1>6, <2>1 DEF Toolkit!List
    <2>4. ASSUME NEW o \in Toolkit!Calls
          PROVE  object'[o] \in [mode : Modes, count : Nat]
      <3>1. CASE \E id \in Toolkit!Ids : table[id] = o
        <4> DEFINE i == CHOOSE id \in Toolkit!Ids : table[id] = o
        <4>1. i \in Toolkit!Ids
          BY <3>1
        <4>2. object'[o] = [object[o] EXCEPT !.count = Len(messages[i])]
          BY <2>3, <3>1
        <4> HIDE DEF i
        <4> QED BY <2>1, <4>1, <4>2
      <3>2. CASE ~\E id \in Toolkit!Ids : table[id] = o
        BY <2>1, <2>3, <3>2
      <3> QED BY <3>1, <3>2
    <2>5. object' \in [Toolkit!Calls -> [mode : Modes, count : Nat]]
      BY <2>3, <2>4
    <2> QED BY <1>1, <2>2, <2>5 DEF ToolkitInv, ToolkitTables, ToolkitChats
  <1>7. ASSUME Toolkit!Clip PROVE ToolkitInv' /\ messages' = messages
    <2>1. /\ calls < MaxChats /\ calls' = calls + 1 /\ UNCHANGED <<api, table, object, messages,
             audit, chat>>
      BY <1>7 DEF Toolkit!Clip, Toolkit!LoopIsFree
    <2>2. clipboard' \in [Toolkit!Ids -> Nat]
      <3>1. PICK s \in Sessions \cup {Blank} : clipboard' = [clipboard EXCEPT
                ![Toolkit!IdOf(s, calls + 1)] = clipboard[Toolkit!IdOf(s, calls + 1)] + 1]
        BY <1>7 DEF Toolkit!Clip
      <3>2. Toolkit!IdOf(s, calls + 1) \in Toolkit!Ids
        BY <1>1, <2>1, ToolkitId
      <3> QED BY <1>1, <3>1, <3>2 DEF ToolkitTables
    <2> QED BY <1>1, <1>2, <2>1, <2>2 DEF ToolkitInv, ToolkitTables, ToolkitChats
  <1>8. ASSUME Toolkit!Switch PROVE ToolkitInv' /\ messages' = messages
    <2>1. /\ calls < MaxChats /\ calls' = calls + 1 /\ UNCHANGED <<table, object, messages,
             clipboard, audit, chat>>
          /\ api' \in BOOLEAN
      BY <1>8, Zenon DEF Toolkit!Switch, Toolkit!LoopIsFree
    <2> QED BY <1>1, <1>2, <2>1 DEF ToolkitInv, ToolkitTables, ToolkitChats
  <1> QED BY <1>3, <1>4, <1>5, <1>6, <1>7, <1>8, SameIsPrefix

\* Every step of the toolkit keeps its invariant, and what was said in each session
LEMMA ToolkitStep ==
    ASSUME ToolkitInv, [Toolkit!Next]_toolkitVars
    PROVE  ToolkitInv' /\ \A id \in Toolkit!Ids : Toolkit!IsPrefix(messages[id], messages'[id])
  <1>1. CASE UNCHANGED toolkitVars
    BY <1>1, SameIsPrefix DEF toolkitVars, ToolkitInv, ToolkitTables, ToolkitChats
  <1> QED BY <1>1, ToolkitThread, ToolkitLoop DEF Toolkit!Next

\* A step of the kernel is one of the part, or leaves it as it is
LEMMA ToolkitSteps == [Next]_vars => [Toolkit!Next]_toolkitVars
  BY DEF Next, Still, vars, toolkitVars

\* The invariant of the part holds in every behaviour of the kernel
LEMMA ToolkitAlways == Spec => []ToolkitInv
  <1>1. Init => ToolkitInv
    BY ToolkitInit DEF Init
  <1>2. ToolkitInv /\ [Next]_vars => ToolkitInv'
    BY ToolkitSteps, ToolkitStep
  <1> QED BY <1>1, <1>2, PTL DEF Spec

\* What was said in a session stays said, in its order, whichever object a thread has of it.
THEOREM SaidIsKept == Spec => NothingSaidIsLost
  <1>1. ToolkitInv /\ [Next]_vars =>
          [\A id \in Toolkit!Ids : Toolkit!IsPrefix(messages[id], messages[id]')]_(Toolkit!vars)
    BY ToolkitSteps, ToolkitStep
  <1> QED
    BY <1>1, ToolkitAlways, PTL DEF Spec, NothingSaidIsLost, Toolkit!NothingSaidIsLost

-----------------------------------------------------------------------------
(* TaskPlan.  A task that may run needs only what is completed, and needs  *)
(* what its layer asks for.                                                *)

\* A task is completed only when those it needs are, and needs those its layer asks for
PlanInv ==
    /\ way \in {None, "single", "default", "smart", "layers"}
    /\ step = "new" => way = None
    /\ needs \in Seq(SUBSET Plan!Tasks)
    /\ step \in {"new", "round", "tasks", "done", "failed", "raised"}
    /\ ready \subseteq Plan!Tasks /\ completed \subseteq Plan!Tasks
    /\ step = "new" => ready = {} /\ completed = {}
    /\ results \in Seq({"done", "failed"})
    /\ \A k \in ready : Plan!CanRun(k)
    /\ way \in {"smart", "layers"} =>
        \A k \in Plan!Tasks : \A j \in DOMAIN draft : Plan!Asks(k, j) => j \in needs[k]

\* The invariant has the types that the run checks
LEMMA PlanShows == PlanInv => Plan!TypeOK
  <1> SUFFICES ASSUME PlanInv PROVE Plan!TypeOK
    OBVIOUS
  <1>1. DOMAIN needs = 1..Len(needs) /\ \A k \in Plan!Tasks : needs[k] \subseteq Plan!Tasks
    BY DEF PlanInv, Plan!Tasks
  <1> QED BY <1>1 DEF PlanInv, Plan!TypeOK

\* Nothing is planned at the beginning
LEMMA PlanInit ==
    ASSUME Plan!Init
    PROVE  PlanInv
  BY DEF Plan!Init, PlanInv, Plan!Tasks

\* What each of the n tasks needs is a sequence of sets of them
LEMMA PlanNeeds ==
    ASSUME NEW n \in Nat, NEW f \in [1..n -> SUBSET (1..n)]
    PROVE  f \in Seq(SUBSET DOMAIN f)
  <1>1. f \in Seq(SUBSET (1..n))
    BY SeqDef
  <1> QED BY <1>1

\* A draft becomes a plan that needs what the draft asks for
LEMMA PlanPlanned ==
    ASSUME PlanInv, NEW w \in {"single", "default", "smart", "layers"}, NEW d, NEW n \in Nat,
           NEW f \in [1..n -> SUBSET (1..n)], Plan!Planned(w, d, f),
           w \in {"smart", "layers"} =>
                \A k \in 1..n : \A j \in DOMAIN d :
                    (Plan!Asks(k, j))' => j \in f[k]
    PROVE  PlanInv'
  <1>1. /\ step = "new" /\ way' = w /\ draft' = d /\ needs' = f /\ step' = "round"
        /\ UNCHANGED <<ready, completed, results>> /\ ready = {} /\ completed = {}
    BY DEF Plan!Planned, PlanInv
  <1>2. needs' \in Seq(SUBSET Plan!Tasks')
    BY <1>1, PlanNeeds DEF Plan!Tasks
  <1>3. Plan!Tasks' = 1..n
    BY <1>1 DEF Plan!Tasks
  <1> QED BY <1>1, <1>2, <1>3 DEF PlanInv, Plan!CanRun

\* The tasks of a draft are numbered, and so are those they are made to need
LEMMA PlanDraft ==
    ASSUME NEW d \in Plan!Drafts
    PROVE  \E n \in Nat : /\ DOMAIN d = 1..n
                          /\ [k \in DOMAIN d |-> Plan!Resolved(d, k)] \in [1..n -> SUBSET (1..n)]
                          /\ [k \in DOMAIN d |-> Plan!Chained(d, k)] \in [1..n -> SUBSET (1..n)]
  <1>1. PICK n \in Nat : DOMAIN d = 1..n
    BY DEF Plan!Drafts
  <1>2. \A k \in 1..n : Plan!Resolved(d, k) \in SUBSET (1..n)
    BY <1>1 DEF Plan!Resolved, Plan!Named
  <1>3. \A k \in 1..n : {k - 1} \ {0} \in SUBSET (1..n)
    OBVIOUS
  <1>4. \A k \in 1..n : Plan!Chained(d, k) \in SUBSET (1..n)
    BY <1>2, <1>3 DEF Plan!Chained
  <1> QED BY <1>1, <1>2, <1>4

\* A task that is asked for by its name, and is the only one of it, is needed
LEMMA AskedResolved ==
    ASSUME NEW d \in Plan!Drafts, NEW k \in DOMAIN d, NEW j \in DOMAIN d, k # j,
           d[j].name \in d[k].after, \A i \in DOMAIN d : d[i].name = d[j].name => i = j
    PROVE  j \in Plan!Resolved(d, k) /\ j \in Plan!Chained(d, k)
  <1>1. PICK n \in Nat : DOMAIN d = 1..n
    BY DEF Plan!Drafts
  <1>2. j \in Plan!Named(d, d[j].name)
    BY <1>1 DEF Plan!Named
  <1>3. j \in Plan!Resolved(d, k)
    BY <1>2 DEF Plan!Resolved
  <1> QED BY <1>3 DEF Plan!Chained

\* Every step of the planning keeps its invariant
LEMMA PlanStep ==
    ASSUME PlanInv, [Plan!Next]_planVars
    PROVE  PlanInv'
  <1>1. CASE UNCHANGED planVars
    BY <1>1 DEF planVars, PlanInv, Plan!Tasks, Plan!CanRun, Plan!Asks
  <1>2. CASE Plan!Single
    <2>1. [k \in {1} |-> {}] \in [1..1 -> SUBSET (1..1)] /\ 1 \in Nat
      OBVIOUS
    <2> QED BY <1>2, <2>1, PlanPlanned DEF Plan!Single
  <1>3. ASSUME NEW d \in Plan!Drafts, Plan!Smart(d) PROVE PlanInv'
    <2>1. PICK n \in Nat : DOMAIN d = 1..n
                           /\ [k \in DOMAIN d |-> Plan!Resolved(d, k)] \in [1..n -> SUBSET (1..n)]
      BY PlanDraft
    <2>2. draft' = d
      BY <1>3 DEF Plan!Smart, Plan!Planned
    <2>3. \A k \in 1..n : \A j \in DOMAIN d :
             (Plan!Asks(k, j))' => j \in Plan!Resolved(d, k)
      BY <2>1, <2>2, AskedResolved DEF Plan!Asks
    <2> QED BY <1>3, <2>1, <2>3, PlanPlanned DEF Plan!Smart
  <1>4. ASSUME NEW d \in Plan!Drafts, Plan!Fallback(d) PROVE PlanInv'
    <2>1. CASE d = <<>>
      <3>1. Plan!DefaultPlan \in [1..4 -> SUBSET (1..4)] /\ 4 \in Nat
        BY DEF Plan!DefaultPlan
      <3>2. Plan!Planned("default", d, Plan!DefaultPlan)
        BY <1>4, <2>1 DEF Plan!Fallback
      <3> QED BY <3>1, <3>2, PlanPlanned
    <2>2. CASE d # <<>>
      <3>1. PICK n \in Nat : DOMAIN d = 1..n
                             /\ [k \in DOMAIN d |-> Plan!Chained(d,
                                k)] \in [1..n -> SUBSET (1..n)]
        BY PlanDraft
      <3>2. Plan!Planned("layers", d, [k \in DOMAIN d |-> Plan!Chained(d, k)])
        BY <1>4, <2>2 DEF Plan!Fallback
      <3>3. draft' = d
        BY <3>2 DEF Plan!Planned
      <3>4. \A k \in 1..n : \A j \in DOMAIN d :
               (Plan!Asks(k, j))' => j \in Plan!Chained(d, k)
        BY <3>1, <3>3, AskedResolved DEF Plan!Asks
      <3> QED BY <3>1, <3>2, <3>4, PlanPlanned
    <2> QED BY <2>1, <2>2
  <1>5. CASE Plan!Round
    <2>1. /\ UNCHANGED <<way, draft, needs, completed, results>> /\ step = "round"
          /\ step' \in {"done", "raised", "tasks"}
          /\ ready' = {k \in Plan!Pending : Plan!CanRun(k)} /\ ready' \subseteq Plan!Tasks
      BY <1>5 DEF Plan!Round, Plan!Pending
    <2>2. Plan!Tasks' = Plan!Tasks
      BY <2>1 DEF Plan!Tasks
    <2> QED BY <2>1, <2>2 DEF PlanInv, Plan!CanRun, Plan!Asks
  <1>6. ASSUME NEW k \in Plan!Tasks, NEW status \in {"done", "failed"}, Plan!RunTask(k, status)
        PROVE  PlanInv'
    <2>1. /\ UNCHANGED <<way, draft,
             needs>> /\ step = "tasks" /\ step' \in {"round", "tasks", "failed"}
          /\ completed \subseteq completed' /\ completed' \subseteq completed \cup {k}
          /\ ready' \subseteq ready
      BY <1>6 DEF Plan!RunTask
    <2>2. Plan!Tasks' = Plan!Tasks
      BY <2>1 DEF Plan!Tasks
    <2>3. results' \in Seq({"done", "failed"})
      BY <1>6 DEF Plan!RunTask, PlanInv
    <2> QED BY <2>1, <2>2, <2>3 DEF PlanInv, Plan!CanRun, Plan!Asks
  <1> QED BY <1>1, <1>2, <1>3, <1>4, <1>5, <1>6 DEF Plan!Next

\* A task is completed after those that its layer asks for
LEMMA PlanOrder ==
    ASSUME PlanInv, [Plan!Next]_planVars
    PROVE  \A k \in completed' \ completed : way \in {"smart", "layers"} =>
             \A j \in DOMAIN draft : Plan!Asks(k, j) => j \in completed
  <1>1. ASSUME NEW k \in Plan!Tasks, NEW status \in {"done", "failed"}, Plan!RunTask(k, status),
               way \in {"smart", "layers"}, NEW j \in DOMAIN draft, Plan!Asks(k, j)
        PROVE  j \in completed
    <2>1. k \in ready
      BY <1>1 DEF Plan!RunTask
    <2>2. j \in needs[k]
      BY <1>1 DEF PlanInv
    <2> QED BY <2>1, <2>2 DEF PlanInv, Plan!CanRun
  <1>2. ASSUME NEW k \in Plan!Tasks, NEW status \in {"done", "failed"}, Plan!RunTask(k, status)
        PROVE  completed' \subseteq completed \cup {k}
    BY <1>2 DEF Plan!RunTask
  <1>3. CASE UNCHANGED completed
    BY <1>3
  <1>4. \/ UNCHANGED completed
        \/ \E k \in Plan!Tasks, status \in {"done", "failed"} : Plan!RunTask(k, status)
    BY DEF planVars, Plan!Next, Plan!Single, Plan!Smart, Plan!Fallback, Plan!Planned, Plan!Round
  <1> QED BY <1>1, <1>2, <1>3, <1>4

\* A step of the kernel is one of the part, or leaves it as it is
LEMMA PlanSteps == [Next]_vars => [Plan!Next]_planVars
  BY DEF Next, Still, vars, planVars

\* The invariant of the part holds in every behaviour of the kernel
LEMMA PlanAlways == Spec => []PlanInv
  <1>1. Init => PlanInv
    BY PlanInit DEF Init
  <1>2. PlanInv /\ [Next]_vars => PlanInv'
    BY PlanSteps, PlanStep
  <1> QED BY <1>1, <1>2, PTL DEF Spec

\* A task of a plan made by a model, or layer by layer, is completed only after those that it
\* names as its dependencies.
THEOREM AskedOrder == Spec => AskedOrderKept
  <1>1. Init => PlanInv
    BY PlanInit DEF Init
  <1>2. PlanInv /\ [Next]_vars => PlanInv'
    BY PlanSteps, PlanStep
  <1>3. PlanInv /\ [Next]_vars =>
          [\A k \in completed' \ completed : way \in {"smart", "layers"} =>
             \A j \in DOMAIN draft : Plan!Asks(k, j) => j \in completed]_(Plan!vars)
    BY PlanSteps, PlanOrder
  <1> QED BY <1>1, <1>2, <1>3, PTL DEF Spec, AskedOrderKept, Plan!AskedOrderKept

-----------------------------------------------------------------------------
(* VoiceListener.  While somebody speaks, the count of silence is that of  *)
(* the silent frames since the last speech, and the frames up to there and *)
(* the silent ones are all that were accumulated.                          *)

\* What a listener holds, and a speaker
Listening == {"start", "open", "read"}
VoiceHeard == [speaking : BOOLEAN, silence : Nat, frames : Nat, span : Nat, quiet : Nat]
VoiceListener == [at : Listening \cup {"none"}, heard : VoiceHeard]
VoiceSpeaker ==
    [at : {"none", "heard", "remote", "local", "refine"}, span : Nat, quiet : Nat]

\* What is accumulated of an utterance that has not ended
Heard(h) ==
    /\ h.silence \in 0..Silence /\ h.frames \in 0..Voice!Cap /\ h.span \in 0..Voice!Cap
    /\ h.quiet = h.silence /\ h.frames <= h.span + h.silence

\* An utterance that was accumulated to its end
Said(u) == u.quiet \in Nat /\ u.quiet > Silence /\ u.span \in Nat /\ u.span >= MinSpeech

VoiceListens ==
    /\ recorder \subseteq Listeners
    /\ hears \in [Listeners -> VoiceListener]
    /\ \A l \in Listeners : Heard(hears[l].heard)

VoiceSpeaks ==
    /\ speaker \in [Speakers -> VoiceSpeaker]
    /\ \A s \in Speakers : speaker[s].at # "none" => Said(speaker[s])

VoiceInv == VoiceListens /\ VoiceSpeaks

\* The invariant says of the listeners and speakers what the run checks
LEMMA VoiceShows == VoiceInv => Voice!TypeOK /\ Voice!WholeUtterance
  BY DEF VoiceInv, VoiceListens, VoiceSpeaks, VoiceListener, VoiceSpeaker, Listening, Heard, Said,
         Voice!TypeOK, Voice!WholeUtterance

\* The two bounds are numbers, and so is the largest count of frames
LEMMA VoiceConstants == MinSpeech \in Nat /\ Silence \in Nat /\ Voice!Cap \in Nat
  BY KernelAssumption DEF Voice!VoiceAssumption, Voice!Cap

\* A listener that has heard nothing, and a speaker without an utterance
LEMMA VoiceBegins ==
    /\ Voice!Fresh \in VoiceHeard /\ Heard(Voice!Fresh)
    /\ Voice!Off \in VoiceListener /\ Heard(Voice!Off.heard)
    /\ Voice!NoSpeech \in VoiceSpeaker /\ Voice!NoSpeech.at = "none"
  BY VoiceConstants DEF Voice!Fresh, Voice!Off, Voice!NoSpeech, VoiceHeard, VoiceListener,
                        VoiceSpeaker, Heard

\* Nobody listens at the beginning
LEMMA VoiceInit ==
    ASSUME Voice!Init
    PROVE  VoiceInv
  <1>1. VoiceListens
    BY VoiceBegins DEF Voice!Init, VoiceListens, VoiceListener, VoiceHeard
  <1>2. VoiceSpeaks
    BY VoiceBegins DEF Voice!Init, VoiceSpeaks, VoiceSpeaker
  <1> QED BY <1>1, <1>2 DEF VoiceInv

\* One more frame: what is accumulated agrees with what was heard, and if the silence is now too
\* long, and what came before it long enough, that is an utterance
LEMMA VoiceFrame ==
    ASSUME NEW h \in VoiceHeard, Heard(h), NEW speech \in BOOLEAN
    PROVE  LET g == Voice!After(h, speech)
           IN  /\ g \in VoiceHeard
               /\ ~Voice!Ended(g) => Heard(g)
               /\ Voice!Ended(g) /\ Voice!LongEnough(g) => Said(g)
  <1> DEFINE g == Voice!After(h, speech)
             n == Voice!Frames(h.frames + 1)
  <1>1. /\ h.silence \in 0..Silence /\ h.frames \in 0..Voice!Cap /\ h.span \in 0..Voice!Cap
        /\ h.quiet = h.silence /\ h.frames <= h.span + h.silence
        /\ h.speaking \in BOOLEAN
        /\ h = [speaking |-> h.speaking, silence |-> h.silence, frames |-> h.frames,
                span |-> h.span, quiet |-> h.quiet]
    BY DEF Heard, VoiceHeard
  <1>2. n \in 0..Voice!Cap /\ n <= h.frames + 1
    BY <1>1, VoiceConstants DEF Voice!Frames
  <1> HIDE DEF n
  <1>3. CASE speech
    <2>1. g = [speaking |-> TRUE, silence |-> 0, frames |-> n, span |-> n, quiet |-> 0]
      BY <1>3 DEF Voice!After, Voice!SilenceAfterSpeech, n
    <2> HIDE DEF g
    <2>2. /\ g.speaking = TRUE /\ g.silence = 0 /\ g.frames = n /\ g.span = n /\ g.quiet = 0
          /\ g \in VoiceHeard
      BY <1>2, <2>1, VoiceConstants DEF VoiceHeard
    <2>3. Heard(g) /\ ~Voice!Ended(g)
      BY <1>2, <2>2, VoiceConstants DEF Heard, Voice!Ended
    <2> QED BY <2>2, <2>3 DEF g
  <1>4. CASE ~speech /\ h.speaking
    <2>1. g = [h EXCEPT !.silence = h.silence + 1, !.frames = n, !.quiet = h.quiet + 1]
      BY <1>4 DEF Voice!After, n
    <2> HIDE DEF g
    <2>2. /\ g.silence = h.silence + 1 /\ g.frames = n /\ g.span = h.span
          /\ g.quiet = h.quiet + 1 /\ g.speaking = h.speaking
      BY <2>1 DEF VoiceHeard
    <2>3. g \in VoiceHeard
      <3>1. /\ h.silence + 1 \in Nat /\ h.quiet + 1 \in Nat /\ h.span \in Nat /\ n \in Nat
        BY <1>1, <1>2, VoiceConstants
      <3>2. g = [f \in {"speaking", "silence", "frames", "span", "quiet"} |->
                    IF f = "silence" THEN h.silence + 1 ELSE IF f = "frames" THEN n
                    ELSE IF f = "quiet" THEN h.quiet + 1 ELSE h[f]]
        BY <2>1 DEF VoiceHeard
      <3>3. g = [speaking |-> g.speaking, silence |-> g.silence, frames |-> g.frames,
                 span |-> g.span, quiet |-> g.quiet]
        BY <3>2
      <3> QED BY <1>1, <2>2, <3>1, <3>3 DEF VoiceHeard
    <2>4. ~Voice!Ended(g) => Heard(g)
      BY <1>1, <1>2, <2>2, VoiceConstants DEF Heard, Voice!Ended
    <2>5. Voice!Ended(g) /\ Voice!LongEnough(g) => Said(g)
      BY <1>1, <1>2, <2>2, VoiceConstants DEF Said, Voice!Ended, Voice!LongEnough
    <2> QED BY <2>3, <2>4, <2>5 DEF g
  <1>5. CASE ~speech /\ ~h.speaking
    <2>1. g = h
      BY <1>5 DEF Voice!After
    <2>2. ~Voice!Ended(h)
      BY <1>1, VoiceConstants DEF Voice!Ended
    <2> QED BY <2>1, <2>2
  <1> QED BY <1>1, <1>3, <1>4, <1>5

\* A listener l goes on to x
LEMMA VoiceMove ==
    ASSUME VoiceListens, NEW l \in Listeners, NEW x \in VoiceListener, Heard(x.heard),
           hears' = [hears EXCEPT ![l] = x],
           recorder' \subseteq recorder \cup {l}
    PROVE  VoiceListens'
  <1>1. hears' \in [Listeners -> VoiceListener]
    BY DEF VoiceListens, VoiceListener, VoiceHeard
  <1>2. ASSUME NEW k \in Listeners PROVE Heard(hears[k].heard)'
    BY DEF VoiceListens, Heard
  <1> QED BY <1>1, <1>2 DEF VoiceListens, VoiceListener, VoiceHeard

\* A listener l keeps what it heard
LEMMA VoiceGo ==
    ASSUME VoiceListens, NEW l \in Listeners, NEW a \in Listening \cup {"none"},
           hears' = [hears EXCEPT ![l].at = a], UNCHANGED recorder
    PROVE  VoiceListens'
  <1> DEFINE x == [at |-> a, heard |-> hears[l].heard]
  <1>1. /\ hears[l] \in VoiceListener /\ Heard(hears[l].heard)
        /\ DOMAIN hears = Listeners
    BY DEF VoiceListens, VoiceListener, VoiceHeard
  <1>2. hears[l] = [at |-> hears[l].at, heard |-> hears[l].heard]
    BY <1>1 DEF VoiceListener
  <1>3. [hears[l] EXCEPT !.at = a] = x
    BY <1>2
  <1>4. hears' = [hears EXCEPT ![l] = x]
    BY <1>1, <1>3
  <1>5. x \in VoiceListener /\ Heard(x.heard)
    BY <1>1 DEF VoiceListener
  <1> HIDE DEF x
  <1> QED BY <1>4, <1>5, VoiceMove

\* The life of a listener
LEMMA VoiceLife ==
    ASSUME VoiceInv, NEW l \in Listeners,
           \/ Voice!Load(l) \/ Voice!BuildTranscriber(l) \/ Voice!OpenStream(l)
           \/ Voice!Stop(l) \/ Voice!Interrupted(l)
    PROVE  VoiceInv'
  <1>1. VoiceListens /\ VoiceSpeaks
    BY DEF VoiceInv
  <1>2. VoiceSpeaks'
    <2>1. UNCHANGED speaker
      BY DEF Voice!Load, Voice!BuildTranscriber, Voice!OpenStream, Voice!Stop,
             Voice!Interrupted, Voice!Close
    <2> QED BY <1>1, <2>1 DEF VoiceSpeaks, Said
  <1>3. CASE Voice!Load(l)
    <2>1. VoiceListens'
      BY <1>1, <1>3, VoiceGo DEF Voice!Load, Listening
    <2> QED BY <1>2, <2>1 DEF VoiceInv
  <1>4. CASE Voice!BuildTranscriber(l)
    <2>1. VoiceListens'
      BY <1>1, <1>4, VoiceGo DEF Voice!BuildTranscriber, Listening
    <2> QED BY <1>2, <2>1 DEF VoiceInv
  <1>5. CASE Voice!OpenStream(l)
    <2> DEFINE x == [at |-> "read", heard |-> Voice!Fresh]
    <2>1. x \in VoiceListener /\ Heard(x.heard)
      BY VoiceBegins DEF VoiceListener, Listening
    <2>2. recorder' \subseteq recorder \cup {l}
      BY <1>5 DEF Voice!OpenStream
    <2>3. hears' = [hears EXCEPT ![l] = x] \/ hears' = [hears EXCEPT ![l] = Voice!Off]
      BY <1>5, Zenon DEF Voice!OpenStream
    <2> HIDE DEF x
    <2>4. VoiceListens'
      BY <1>1, <2>1, <2>2, <2>3, VoiceBegins, VoiceMove
    <2> QED BY <1>2, <2>4 DEF VoiceInv
  <1>6. CASE Voice!Close(l)
    <2>1. VoiceListens'
      BY <1>1, <1>6, VoiceBegins, VoiceMove DEF Voice!Close
    <2> QED BY <1>2, <2>1 DEF VoiceInv
  <1> QED BY <1>3, <1>4, <1>5, <1>6 DEF Voice!Stop, Voice!Interrupted

\* A listener reads a frame, which may end an utterance
LEMMA VoiceReads ==
    ASSUME VoiceInv, NEW l \in Listeners, NEW speech \in BOOLEAN, Voice!ReadFrame(l, speech)
    PROVE  VoiceInv'
  <1>1. /\ VoiceListens /\ VoiceSpeaks
        /\ hears[l].heard \in VoiceHeard /\ Heard(hears[l].heard)
        /\ hears[l].at \in Listening \cup {"none"}
        /\ hears[l] = [at |-> hears[l].at, heard |-> hears[l].heard] /\ DOMAIN hears = Listeners
    BY DEF VoiceInv, VoiceListens, VoiceListener, VoiceHeard
  <1>2. PICK g : g = Voice!After(hears[l].heard, speech)
    OBVIOUS
  <1>3. /\ g \in VoiceHeard
        /\ ~Voice!Ended(g) => Heard(g)
        /\ Voice!Ended(g) /\ Voice!LongEnough(g) => Said(g)
    BY <1>1, <1>2, VoiceFrame
  <1>4. PICK k : k = IF Voice!Ended(g) THEN Voice!Fresh ELSE g
    OBVIOUS
  <1>5. k \in VoiceHeard /\ Heard(k)
    BY <1>3, <1>4, VoiceBegins
  <1>6. UNCHANGED recorder /\ hears' = [hears EXCEPT ![l].heard = k]
    BY <1>2, <1>4, Zenon DEF Voice!ReadFrame
  <1> DEFINE x == [at |-> hears[l].at, heard |-> k]
  <1>7. [hears[l] EXCEPT !.heard = k] = x
    BY <1>1
  <1>8. hears' = [hears EXCEPT ![l] = x]
    BY <1>1, <1>6, <1>7
  <1>9. x \in VoiceListener /\ Heard(x.heard)
    BY <1>1, <1>5 DEF VoiceListener
  <1> HIDE DEF x
  <1>10. VoiceListens'
    BY <1>1, <1>6, <1>8, <1>9, VoiceMove
  <1>11. CASE UNCHANGED speaker
    BY <1>1, <1>10, <1>11 DEF VoiceInv, VoiceSpeaks, Said
  <1>12. CASE ~UNCHANGED speaker
    <2>1. /\ Voice!Ended(g) /\ Voice!LongEnough(g)
          /\ \E s \in Speakers : speaker' =
                [speaker EXCEPT ![s] = [at |-> "heard", span |-> g.span, quiet |-> g.quiet]]
      BY <1>2, <1>12 DEF Voice!ReadFrame
    <2>2. PICK s \in Speakers : speaker' =
                [speaker EXCEPT ![s] = [at |-> "heard", span |-> g.span, quiet |-> g.quiet]]
      BY <2>1
    <2>3. g.span \in Nat /\ g.quiet \in Nat /\ Said(g)
      BY <1>3, <2>1 DEF VoiceHeard
    <2>4. VoiceSpeaks'
      BY <1>1, <2>2, <2>3 DEF VoiceSpeaks, VoiceSpeaker, Said
    <2> QED BY <1>10, <2>4 DEF VoiceInv
  <1> QED BY <1>11, <1>12

\* A speaker's thread goes on with its utterance
LEMMA VoiceHandles ==
    ASSUME VoiceInv, NEW s \in Speakers, Voice!Handle(s)
    PROVE  VoiceInv'
  <1>1. PICK a \in {"none", "remote", "local", "refine"} :
            Voice!Move(s, a) /\ speaker[s].at # "none" /\ UNCHANGED <<hears, recorder>>
    BY DEF Voice!Handle, Voice!Transcribe, Voice!RemoteFails, Voice!Transcribed,
           Voice!Dispatch, Voice!Others
  <1>2. VoiceListens /\ VoiceSpeaks /\ speaker[s] \in VoiceSpeaker /\ Said(speaker[s])
        /\ DOMAIN speaker = Speakers
    BY <1>1 DEF VoiceInv, VoiceSpeaks, VoiceSpeaker
  <1>3. PICK u : u = IF a = "none" THEN Voice!NoSpeech ELSE [speaker[s] EXCEPT !.at = a]
    OBVIOUS
  <1>4. u \in VoiceSpeaker /\ (u.at # "none" => Said(u))
    BY <1>2, <1>3, VoiceBegins DEF VoiceSpeaker, Said
  <1>5. speaker' = [speaker EXCEPT ![s] = u]
    BY <1>1, <1>2, <1>3, Zenon DEF Voice!Move
  <1>6. VoiceSpeaks'
    BY <1>2, <1>4, <1>5 DEF VoiceSpeaks, VoiceSpeaker, Said
  <1>7. VoiceListens'
    BY <1>1, <1>2 DEF VoiceListens, Heard
  <1> QED BY <1>6, <1>7 DEF VoiceInv

\* Every step of the listeners and the speakers keeps their invariant
LEMMA VoiceStep ==
    ASSUME VoiceInv, [Voice!Next]_voiceVars
    PROVE  VoiceInv'
  <1>1. CASE UNCHANGED <<recorder, hears, speaker>>
    BY <1>1 DEF VoiceInv, VoiceListens, VoiceSpeaks, Heard, Said
  <1>2. CASE UNCHANGED voiceVars
    BY <1>1, <1>2 DEF voiceVars
  <1>3. CASE Voice!Unload
    BY <1>1, <1>3 DEF Voice!Unload
  <1> QED BY <1>2, <1>3, VoiceLife, VoiceReads, VoiceHandles DEF Voice!Next, Voice!Step

\* A step of the kernel is one of the part, or leaves it as it is
LEMMA VoiceSteps == [Next]_vars => [Voice!Next]_voiceVars
  BY DEF Next, Still, vars, voiceVars

\* The invariant of the part holds in every behaviour of the kernel
LEMMA VoiceAlways == Spec => []VoiceInv
  <1>1. Init => VoiceInv
    BY VoiceInit DEF Init
  <1>2. VoiceInv /\ [Next]_vars => VoiceInv'
    BY VoiceSteps, VoiceStep
  <1> QED BY <1>1, <1>2, PTL DEF Spec

\* Whatever a speaker's thread was given had as many frames as an utterance must have before the
\* silence that ended it, and that silence was longer than any pause within it, for any number
\* of listeners and any two bounds.
THEOREM WholeCorrect == Spec => []WholeUtterance
  <1>1. VoiceInv => WholeUtterance
    BY VoiceShows DEF WholeUtterance
  <1> QED BY <1>1, VoiceAlways, PTL

-----------------------------------------------------------------------------
(* All the parts                                                           *)

\* A behaviour is of one part
LEMMA OnePart == Spec => [](part \in Parts)
  <1>1. Init => part \in Parts
    BY DEF Init
  <1>2. part \in Parts /\ [Next]_vars => (part \in Parts)'
    BY DEF Next, Still, vars
  <1> QED BY <1>1, <1>2, PTL DEF Spec

\* Each variable of each part keeps its type.
THEOREM TypeCorrect == Spec => []TypeOK
  <1>1. /\ part \in Parts /\ MemInv /\ BusInv /\ PlanInv /\ HooksInv /\ SelectionInv /\ CallsInv
        /\ LocalInv /\ ToolkitInv /\ HostInv /\ HealthInv /\ GateInv /\ IntakeInv /\ VoiceInv
        => TypeOK
    <2> SUFFICES ASSUME part \in Parts, MemInv, BusInv, PlanInv, HooksInv, SelectionInv, CallsInv,
                        LocalInv, ToolkitInv, HostInv, HealthInv, GateInv, IntakeInv,
                        VoiceInv
                 PROVE  TypeOK
      OBVIOUS
    <2>1. /\ Memory!TypeOK /\ Bus!TypeOK /\ Plan!TypeOK /\ Hooks!TypeOK
          /\ Selection!TypeOK /\ Calls!TypeOK
      BY MemShows, BusShows, PlanShows, HooksShow, SelectionShows, CallsShow
    <2>2. /\ Local!TypeOK /\ Toolkit!TypeOK /\ Commands!TypeOK /\ Health!TypeOK
          /\ Gate!TypeOK /\ Intake!TypeOK /\ Voice!TypeOK
      BY LocalShows, ToolkitShows, HostShows, HealthShows, IntakeShows, VoiceShows DEF GateInv
    <2> QED BY <2>1, <2>2 DEF TypeOK, Parts
  <1> QED
    BY <1>1, OnePart, MemAlways, BusAlways, PlanAlways, HooksAlways, SelectionAlways, CallsAlways,
       LocalAlways, ToolkitAlways, HostAlways, HealthAlways, GateAlways, IntakeAlways,
       VoiceAlways, PTL

=============================================================================
