------------------------------ MODULE OpStream ------------------------------
(***************************************************************************)
(* What the cache consumer promises of the operations it has accepted, with *)
(* queue, batch and suspended put seen as one line: they are stored in the  *)
(* order they were accepted and leave the line at the front, only when      *)
(* stored.  None is lost while the line is open.  As it begins to close the *)
(* newest one may be dropped.  A line that closes may give up what is left, *)
(* all of it at once; when it is closed, whatever is left is lost.          *)
(***************************************************************************)
EXTENDS Integers, Sequences

CONSTANT Op   \* records with a partition and an index in it

VARIABLES phase,     \* "open" while the consumer runs, "closing", "closed"
          inflight,  \* accepted, not yet retired: a sequence of operations
          store      \* what Redis has executed

vars == <<phase, inflight, store>>

Init == phase = "closed" /\ inflight = <<>> /\ store = {}

Open ==
    /\ phase = "closed"
    /\ phase' = "open"
    /\ UNCHANGED <<inflight, store>>

\* An operation joins at the end, behind all earlier ones of its partition.
Accept(op) ==
    /\ phase = "open"
    /\ \A i \in DOMAIN inflight :
          inflight[i].partition = op.partition => inflight[i].index < op.index
    /\ inflight' = Append(inflight, op)
    /\ UNCHANGED <<phase, store>>

\* The operations in front of a stored one have been stored before it.
Persist(i) ==
    /\ \A j \in 1..(i - 1) : inflight[j] \in store
    /\ store' = store \cup {inflight[i]}
    /\ UNCHANGED <<phase, inflight>>

\* The first n operations leave, all of them stored.
Retire(n) ==
    /\ \A i \in 1..n : inflight[i] \in store
    /\ inflight' = SubSeq(inflight, n + 1, Len(inflight))
    /\ UNCHANGED <<phase, store>>

BeginClose ==
    /\ phase = "open"
    /\ phase' = "closing"
    /\ \/ UNCHANGED inflight
       \/ inflight' = SubSeq(inflight, 1, Len(inflight) - 1)
    /\ UNCHANGED store

\* The last attempt to store what is left has failed.
GiveUp ==
    /\ phase = "closing"
    /\ inflight' = <<>>
    /\ UNCHANGED <<phase, store>>

Close ==
    /\ phase # "closed"
    /\ phase' = "closed"
    /\ inflight' = <<>>
    /\ UNCHANGED store

Next ==
    \/ Open
    \/ \E op \in Op : Accept(op)
    \/ \E i \in 1..Len(inflight) : Persist(i) \/ Retire(i)
    \/ BeginClose
    \/ GiveUp
    \/ Close

Spec == Init /\ [][Next]_vars
=============================================================================
