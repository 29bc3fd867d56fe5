---------------------------- MODULE DurableQueue ----------------------------
(***************************************************************************)
(* What the edge gateway's queue promises its callers, without its file,   *)
(* its promise chain or its transport: a record accepted is kept on stable *)
(* storage until the upstream has it or a newer value replaced it, and     *)
(* nothing is delivered that was not on stable storage first.  A record    *)
(* whose store() failed may still be there, and may be delivered: delivery *)
(* is at least once, and a refusal promises nothing either way.            *)
(***************************************************************************)
CONSTANT Record

VARIABLES
  stored,     \* records on stable storage
  promised,   \* records whose store() was answered by a commit
  delivered,  \* records the upstream accepted
  replaced    \* records a newer remote value replaced

vars == <<stored, promised, delivered, replaced>>

Owed == promised \ (delivered \cup replaced)

Init == stored = {} /\ promised = {} /\ delivered = {} /\ replaced = {}

\* Storage takes any contents that keep what is owed.
Rewrite ==
  /\ stored' \in SUBSET Record
  /\ Owed \subseteq stored'
  /\ UNCHANGED <<promised, delivered, replaced>>

\* A record is on storage, with all the others owed, and is promised.
Commit(r) ==
  /\ r \notin promised
  /\ promised' = promised \cup {r}
  /\ stored' \in SUBSET Record
  /\ Owed \cup {r} \subseteq stored'
  /\ UNCHANGED <<delivered, replaced>>

\* The upstream accepts records that are on storage.
Deliver(S) ==
  /\ S \subseteq stored
  /\ delivered' = delivered \cup S
  /\ UNCHANGED <<stored, promised, replaced>>

Replace(r) ==
  /\ r \in stored
  /\ replaced' = replaced \cup {r}
  /\ UNCHANGED <<stored, promised, delivered>>

Next ==
  \/ Rewrite
  \/ \E r \in Record : Commit(r) \/ Replace(r)
  \/ \E S \in SUBSET Record : Deliver(S)

Spec == Init /\ [][Next]_vars
=============================================================================
