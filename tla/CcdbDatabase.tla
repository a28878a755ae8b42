---------------------------- MODULE CcdbDatabase ----------------------------
(***************************************************************************)
(* The CCDB back-end of the repository (Framework/src/CcdbDatabase.cxx).   *)
(* store() uploads the object at once, valid from now on; retrieve() asks  *)
(* for the object valid now, which is the newest. Nothing tells the caller *)
(* when an upload or a deletion fails. The clocks of those who store and   *)
(* of those who retrieve are assumed to agree, and a key has one client    *)
(* that stores and deletes.                                                *)
(***************************************************************************)
EXTENDS Naturals, Sequences

CONSTANTS
  Keys,        \* task and object names
  BadKeys,     \* those that are empty or have a white space in them
  NoKey,
  MaxStores    \* bound: calls of store()

ASSUME CcdbAssumption == BadKeys \subseteq Keys /\ NoKey \notin Keys /\ MaxStores \in Nat

VARIABLES
  log,         \* history: the keys given to store(), in order
  visible,     \* key -> what retrieve() returns, 0 if nothing
  deleted,     \* history: the objects truncate() has deleted
  uploading    \* the key whose upload goes on

database == <<log, visible, deleted, uploading>>

DatabaseInit ==
  /\ log = << >>
  /\ visible = [k \in Keys |-> 0]
  /\ deleted = {}
  /\ uploading = NoKey

-----------------------------------------------------------------------------
\* store() up to the call of the API; it throws for a bad name, and nothing
\* changes then.
Store(k) ==
  /\ uploading = NoKey
  /\ Len(log) < MaxStores
  /\ k \notin BadKeys
  /\ log' = Append(log, k)
  /\ uploading' = k
  /\ UNCHANGED <<visible, deleted>>

MutantPath(k) == CHOOSE other \in Keys : other # k

\* The path is made of the task and the name of the object.
Path(k) == k

\* The upload works, or it fails and store() returns all the same.
Uploaded ==
  /\ uploading # NoKey
  /\ \/ visible' = [visible EXCEPT ![Path(uploading)] = Len(log)]
     \/ UNCHANGED visible
  /\ uploading' = NoKey
  /\ UNCHANGED <<log, deleted>>

VersionsOf(k) == {v \in DOMAIN log : log[v] = k}

\* truncate(): all versions, or it fails and truncate() returns all the same.
Truncate(k) ==
  /\ uploading = NoKey
  /\ \/ visible' = [visible EXCEPT ![k] = 0] /\ deleted' = deleted \cup VersionsOf(k)
     \/ UNCHANGED <<visible, deleted>>
  /\ UNCHANGED <<log, uploading>>

-----------------------------------------------------------------------------
\* Nothing is written after store() has returned.
R == INSTANCE Repository WITH waiting <- {}

\* The database implements the repository: what can be retrieved under a key
\* was stored under that key and not deleted, whichever uploads and deletions
\* fail.
RepositorySpec == R!Spec
=============================================================================
