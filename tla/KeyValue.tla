------------------------------ MODULE KeyValue ------------------------------
(***************************************************************************)
(* What the memory of the kernel promises its clients, without the cache,  *)
(* the evictions and the stores behind it: what a key shows.               *)
(*                                                                         *)
(* A key shows the value that was written to it, until the value is made   *)
(* into its JSON text: a reader gets that as a string and can tell the two *)
(* apart.  Every request that writes or removes, the expiry of a key and a *)
(* restart are counted; a step that is none of them may change what a key  *)
(* shows only as Serialise, Return, Forget and Revert say.                 *)
(***************************************************************************)
EXTENDS Naturals

CONSTANTS Keys, Volatile, None

VARIABLES
    shown,      \* of each key: the number of the write it shows and as what, or None
    past,       \* of each key: its writes
    removed,    \* keys deleted or expired since they were last written, or restarted
    requests,   \* the requests so far: numbers the writes
    alone       \* whether one thread at a time uses the memory

vars == <<shown, past, removed, requests, alone>>

\* The texts that may come to be under a key: of its own writes; where threads interleave,
\* of the writes of any key
TextsOf(k) == {<<v, "text">> : v \in IF alone THEN past[k] ELSE UNION {past[j] : j \in Keys}}

Init ==
    /\ shown = [k \in Keys |-> None]
    /\ past = [k \in Keys |-> {}]
    /\ removed = {}
    /\ requests = 0
    /\ alone \in BOOLEAN

Write(k) ==
    /\ requests' = requests + 1
    /\ shown' = [shown EXCEPT ![k] = <<requests', "value">>]
    /\ past' = [past EXCEPT ![k] = @ \cup {requests'}]
    /\ removed' = removed \ {k}
    /\ UNCHANGED alone

\* What is removed shows nothing, or the text of a write
Remove(ks) ==
    /\ requests' = requests + 1
    /\ \E show \in [ks -> (UNION {TextsOf(k) : k \in ks}) \cup {None}] :
        /\ \A k \in ks : show[k] \in TextsOf(k) \cup {None}
        /\ shown' = [k \in Keys |-> IF k \in ks THEN show[k] ELSE shown[k]]
    /\ removed' = removed \cup ks
    /\ UNCHANGED <<past, alone>>

\* The latest write stays what is shown, but as its text
Serialise(k) ==
    /\ \E v \in past[k] :
        shown[k] = <<v, "value">> /\ shown' = [shown EXCEPT ![k] = <<v, "text">>]
    /\ UNCHANGED <<past, removed, requests, alone>>

\* What was removed may come back as a text
Return(k) ==
    /\ k \in removed
    /\ \E show \in TextsOf(k) \cup {None} : shown' = [shown EXCEPT ![k] = show]
    /\ UNCHANGED <<past, removed, requests, alone>>

\* Thoughts and errors of agents are given up under pressure
Forget(k) ==
    /\ k \in Volatile
    /\ shown' = [shown EXCEPT ![k] = None]
    /\ UNCHANGED <<past, removed, requests, alone>>

\* Only between threads may a write be undone, or another key's take its place, and never
\* to show nothing
Revert(k) ==
    /\ ~alone
    /\ \E show \in TextsOf(k) : shown' = [shown EXCEPT ![k] = show]
    /\ UNCHANGED <<past, removed, requests, alone>>

Next ==
    \/ \E k \in Keys : Write(k) \/ Serialise(k) \/ Return(k) \/ Forget(k) \/ Revert(k)
    \/ \E ks \in SUBSET Keys : Remove(ks)

Spec == Init /\ [][Next]_vars

=============================================================================
