-------------------------- MODULE ClusterRegistry --------------------------
(***************************************************************************)
(* What the incremental load promises about the clusters of the mesh:      *)
(* entity resolution (Splink) assigns clusters, a sync may only give a     *)
(* temporary one to a record that has none, or settle a record that has    *)
(* several on one of them, and a crash costs at most one record its        *)
(* cluster.  Records are known by key.                                     *)
(***************************************************************************)
EXTENDS Naturals

CONSTANTS
  Keys,      \* the keys records can have
  SplinkIds, \* cluster ids of entity resolution
  NewIds     \* temporary cluster ids of syncs

VARIABLES
  owner,   \* owner[k]: the clusters the mesh lists key k in
  crashes  \* crashes so far

\* A temporary cluster has one record.
Init ==
  /\ owner \in [Keys -> SUBSET (SplinkIds \cup NewIds)]
  /\ \A j, k \in Keys : owner[j] \cap owner[k] \cap NewIds # {} => j = k
  /\ crashes = 0

\* A full load: a new mesh, resolved from nothing.
Resolve ==
  /\ owner' \in [Keys -> SUBSET SplinkIds]
  /\ UNCHANGED crashes

\* A record the mesh does not know gets a cluster nobody else has.
Add(k) ==
  /\ owner[k] = {}
  /\ \E c \in NewIds :
       /\ \A j \in Keys : c \notin owner[j]
       /\ owner' = [owner EXCEPT ![k] = {c}]
  /\ UNCHANGED crashes

\* A record keeps one of its clusters, a resolved one if it has any.
Settle(k) ==
  /\ \E c \in owner[k] :
       /\ owner[k] \cap SplinkIds # {} => c \in SplinkIds
       /\ owner' = [owner EXCEPT ![k] = {c}]
  /\ UNCHANGED crashes

\* A crash, which at most one record does not survive.
Crash ==
  /\ \/ UNCHANGED owner
     \/ \E k \in Keys : owner' = [owner EXCEPT ![k] = {}]
  /\ crashes' = crashes + 1

Next == Resolve \/ Crash \/ \E k \in Keys : Add(k) \/ Settle(k)

Spec == Init /\ [][Next]_<<owner, crashes>>
=============================================================================
