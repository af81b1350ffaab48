------------------------------ MODULE ShardMap ------------------------------
(***************************************************************************)
(* The replicated shard map of node/src/consensus/shard_map.rs: which peer *)
(* holds which layers of a model. Each replica stamps its assignments with *)
(* its Lamport clock and merges clones of other replicas' maps, the higher *)
(* version winning. A clone may be merged late, repeatedly or never.       *)
(*                                                                         *)
(* A key (model_id, layer_start, layer_end) is one value of Key. An entry  *)
(* also carries the replica that assigned it, which the code does not      *)
(* record: origin and the set written only serve to state properties.      *)
(***************************************************************************)
EXTENDS Integers, FiniteSets

CONSTANTS
  Replica,     \* nodes holding a copy of the map
  Key,         \* shard keys
  Peer,        \* peers a shard can be assigned to
  NoEntry,     \* "the map has no entry under this key"
  MaxClock,    \* bound of the model on each Lamport clock
  MaxClones    \* bound of the model on the clones around at a time

Entry == [key : Key, peer : Peer, version : Nat \ {0}, origin : Replica]

ASSUME ShardAssumption ==
  /\ MaxClock \in Nat
  /\ MaxClones \in Nat
  /\ NoEntry \notin Entry

VARIABLES
  entries,     \* entries[r]: replica r's self.entries
  clock,       \* clock[r]: replica r's self.clock
  clones,      \* ShardMap values cloned from a replica, to be merged elsewhere
  written      \* every entry ever created by assign

vars == <<entries, clock, clones, written>>

Map == [entries : [Key -> Entry \cup {NoEntry}], clock : Nat]

TypeOK ==
  /\ entries \in [Replica -> [Key -> Entry \cup {NoEntry}]]
  /\ clock \in [Replica -> Nat]
  /\ clones \in SUBSET Map
  /\ written \in SUBSET Entry

Init ==
  /\ entries = [r \in Replica |-> [k \in Key |-> NoEntry]]
  /\ clock = [r \in Replica |-> 0]
  /\ clones = {}
  /\ written = {}

Local(r) == [entries |-> entries[r], clock |-> clock[r]]

Larger(a, b) == IF a >= b THEN a ELSE b

-----------------------------------------------------------------------------
Assign(r, k, p) ==
  /\ clock[r] < MaxClock
  /\ LET e == [key |-> k, peer |-> p, version |-> clock[r] + 1, origin |-> r]
     IN  /\ entries' = [entries EXCEPT ![r][k] = e]
         /\ written' = written \cup {e}
  /\ clock' = [clock EXCEPT ![r] = @ + 1]
  /\ UNCHANGED clones

(* Fault: an emptied map starts its clock again. *)
RemovePeerReset(r, p) ==
  /\ entries' = [entries EXCEPT ![r] =
       [k \in Key |-> IF @[k] # NoEntry /\ @[k].peer = p THEN NoEntry ELSE @[k]]]
  /\ clock' = [clock EXCEPT ![r] =
       IF \A k \in Key : entries'[r][k] = NoEntry THEN 0 ELSE @]
  /\ UNCHANGED <<clones, written>>

(* No tombstone is left: a clone taken earlier can bring the entry back. *)
RemovePeer(r, p) ==
  /\ entries' = [entries EXCEPT ![r] =
       [k \in Key |-> IF @[k] # NoEntry /\ @[k].peer = p THEN NoEntry ELSE @[k]]]
  /\ UNCHANGED <<clock, clones, written>>

CloneMap(r) ==
  /\ Cardinality(clones) < MaxClones
  /\ clones' = clones \cup {Local(r)}
  /\ UNCHANGED <<entries, clock, written>>

(* A clone is lost, or no longer used. *)
DropClone(m) ==
  /\ clones' = clones \ {m}
  /\ UNCHANGED <<entries, clock, written>>

(* Faults: the remote entry always replaces the local one; only keys already *)
(* known are merged.                                                         *)
MergedEntryRemote(local, remote) == IF remote # NoEntry THEN remote ELSE local
MergedEntryKnown(local, remote) ==
  IF remote # NoEntry /\ local # NoEntry /\ local.version < remote.version
  THEN remote ELSE local

(* On equal versions the local entry stays. *)
MergedEntry(local, remote) ==
  IF remote # NoEntry /\ (local = NoEntry \/ local.version < remote.version)
  THEN remote ELSE local

Merge(r, other) ==
  /\ entries' = [entries EXCEPT ![r] =
                   [k \in Key |-> MergedEntry(@[k], other.entries[k])]]
  /\ clock' = [clock EXCEPT ![r] = Larger(@, other.clock)]
  /\ UNCHANGED <<clones, written>>

-----------------------------------------------------------------------------
(* The gossip path. serde_json refuses the tuple keys of a non-empty map and *)
(* to_bytes turns the error into no bytes, which from_bytes cannot parse: of *)
(* a published map only an empty one arrives.                                *)
ToBytes(m) ==
  IF \A k \in Key : m.entries[k] = NoEntry THEN <<m>> ELSE << >>

HandleShardMapUpdate(r, m) ==
  IF ToBytes(m) = << >> THEN UNCHANGED vars ELSE Merge(r, m)

Next ==
  \/ \E m \in clones : DropClone(m)
  \/ \E r \in Replica :
       \/ \E k \in Key, p \in Peer : Assign(r, k, p)
       \/ \E p \in Peer : RemovePeer(r, p)
       \/ CloneMap(r)
       \/ \E m \in clones : Merge(r, m)
       \/ \E m \in clones : HandleShardMapUpdate(r, m)

Spec == Init /\ [][Next]_vars

-----------------------------------------------------------------------------
Held(m) == {m.entries[k] : k \in Key} \ {NoEntry}

Maps == {Local(r) : r \in Replica} \cup clones

(* No map, local or cloned, holds an entry newer than its clock: that is why *)
(* the next assign of a replica supersedes whatever it has merged before,    *)
(* also after remove_peer has deleted it.                                    *)
ClockDominates == \A m \in Maps : \A e \in Held(m) : e.version <= m.clock

(* A version identifies one assignment of one replica: two different entries *)
(* with equal versions were assigned by different replicas. Ties that merge  *)
(* cannot order therefore only arise between concurrent assignments.         *)
TiesAreConcurrent ==
  \A e, f \in written : e.version = f.version /\ e # f => e.origin # f.origin

(* Every entry a map holds was assigned under that key by some replica, with *)
(* a version its origin's clock has reached.                                 *)
HeldWereWritten ==
  \A m \in Maps : \A k \in Key : m.entries[k] # NoEntry =>
    /\ m.entries[k] \in written
    /\ m.entries[k].key = k
    /\ m.entries[k].version <= clock[m.entries[k].origin]

(* The inductive invariant: a fresh version is unused because the clock      *)
(* bounds all the versions its replica has written.                          *)
ShardInv ==
  /\ TypeOK /\ ClockDominates /\ TiesAreConcurrent /\ HeldWereWritten
  /\ \A e \in written : e.version <= clock[e.origin]

(* Seen from one replica an entry is only replaced by a newer one, however   *)
(* late or often old clones are merged; it disappears only by remove_peer of *)
(* the peer that holds it.                                                   *)
EntriesOnlyAdvance ==
  [][\A r \in Replica, k \in Key : entries[r][k] # NoEntry =>
       \/ entries'[r][k] = entries[r][k]
       \/ /\ entries'[r][k] # NoEntry
          /\ entries'[r][k].version > entries[r][k].version
       \/ RemovePeer(r, entries[r][k].peer)]_vars

(* Two replicas that have absorbed each other's maps hold the same keys at   *)
(* the same versions, and differ only where two replicas assigned a key      *)
(* concurrently.                                                             *)
Absorbed(r, m) == \A k \in Key : MergedEntry(entries[r][k], m.entries[k]) = entries[r][k]

ConvergedUpToTies ==
  \A r, s \in Replica : Absorbed(r, Local(s)) /\ Absorbed(s, Local(r)) =>
    \A k \in Key : LET e == entries[r][k]  f == entries[s][k] IN
      e # f => /\ e # NoEntry /\ f # NoEntry
               /\ e.version = f.version
               /\ e.origin # f.origin

(* shard_map.rs:20, "This is conflict-free and converges without             *)
(* coordination": replicas that have absorbed each other's maps agree on all *)
(* that a ShardEntry says, the peer that holds the layers and the version.   *)
ShardEntry(e) ==
  IF e = NoEntry THEN NoEntry ELSE [key |-> e.key, peer |-> e.peer, version |-> e.version]

Converged ==
  \A r, s \in Replica : Absorbed(r, Local(s)) /\ Absorbed(s, Local(r)) =>
    \A k \in Key : ShardEntry(entries[r][k]) = ShardEntry(entries[s][k])
=============================================================================
