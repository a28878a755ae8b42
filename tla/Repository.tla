----------------------------- MODULE Repository -----------------------------
(***************************************************************************)
(* What the checkers that store monitor objects, and those who retrieve    *)
(* and delete them, may expect of DatabaseInterface.h, whatever the        *)
(* implementation: an object that can be retrieved under a key was stored  *)
(* under that key, and is none that truncate() deleted.                    *)
(*                                                                         *)
(* The objects are numbered in the order they are handed to store(): log   *)
(* is the sequence of their keys, a key being a task and an object name.   *)
(* visible[k] is the number of the object retrieve() would return for k.   *)
(*                                                                         *)
(* The interface says that truncate() deletes all versions of an object.   *)
(* An implementation that writes later what it accepts does not: waiting   *)
(* is the set of versions it has not written for good, which truncate()    *)
(* spares. It is empty for one that does what the interface says.          *)
(***************************************************************************)
EXTENDS Naturals, Sequences

CONSTANTS Keys

Nothing == 0  \* retrieve() has no object to return

VARIABLES
  log, visible,
  deleted,    \* the versions truncate() has deleted
  waiting     \* given by the implementation

Versions(k) == {v \in DOMAIN log : log[v] = k}

Init ==
  /\ log = << >>
  /\ visible = [k \in Keys |-> Nothing]
  /\ deleted = {}

\* store(): the object is accepted.
Submit(k) ==
  /\ log' = Append(log, k)
  /\ UNCHANGED <<visible, deleted>>

\* An object accepted earlier, and not deleted, can now be retrieved.
Show(k) ==
  /\ \E v \in Versions(k) \ deleted : visible' = [visible EXCEPT ![k] = v]
  /\ UNCHANGED <<log, deleted>>

\* truncate(): nothing can be retrieved any more, and nothing comes back but
\* what is waiting.
Hide(k) ==
  /\ visible' = [visible EXCEPT ![k] = Nothing]
  /\ deleted' = deleted \cup (Versions(k) \ waiting)
  /\ UNCHANGED log

Next == \E k \in Keys : Submit(k) \/ Show(k) \/ Hide(k)

Spec == Init /\ [][Next]_<<log, visible, deleted>>

\* Retrieval returns what was stored under the same key and not deleted, or
\* nothing.
VisibleWasStored ==
  \A k \in Keys : visible[k] \in (Versions(k) \ deleted) \cup {Nothing}
=============================================================================
