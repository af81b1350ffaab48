--------------------------- MODULE CheckpointStore ---------------------------
(***************************************************************************)
(* The content-addressed checkpoint store of model/checkpoint.py: the      *)
(* directories cas/<root>, the links latest/<model>, and the processes     *)
(* that save and collect checkpoints file operation by file operation. A   *)
(* process may fail or be killed between any two of them.                  *)
(*                                                                         *)
(* A root stands for the weights it is the hash of, and for their model.   *)
(* condemned is auxiliary: the directories gc has begun to remove and no   *)
(* save has made anew.                                                     *)
(***************************************************************************)
EXTENDS Integers, FiniteSets

CONSTANTS
  Process, Collector,   \* processes that save; the one that also calls gc
  Root, Model,          \* Merkle roots; model ids
  ModelOf,              \* ModelOf[r]: the model whose weights r hashes
  NoRoot,
  KeepLatest,           \* gc's keep_latest
  MaxTime, MaxCrashes   \* bounds of the model on timestamps and on failures

ASSUME StoreAssumption ==
  /\ Collector \subseteq Process
  /\ \A p, q \in Collector : p = q
  /\ ModelOf \in [Root -> Model]
  /\ NoRoot \notin Root /\ IsFiniteSet(Root)
  /\ {KeepLatest, MaxTime, MaxCrashes} \subseteq Nat

VARIABLES
  cas,         \* cas[r]: the directory cas/<r> and its files
  latest,      \* latest[m]: where the link latest/<m> points
  proc,        \* proc[p]: where p is in save or gc
  tmp,         \* tmp[p]: the temporary directory of p's save
  now, crashes,
  condemned

vars == <<cas, latest, proc, tmp, now, crashes, condemned>>

(* A directory: time is the timestamp in metadata.json, 0 without the file. *)
Dir == [exists : BOOLEAN, weights : BOOLEAN, time : 0..MaxTime]
NoDir == [exists |-> FALSE, weights |-> FALSE, time |-> 0]
EmptyDir == [NoDir EXCEPT !.exists = TRUE]
Complete(d) == d.exists /\ d.weights /\ d.time # 0

PC == {"idle", "weights", "metadata", "rename", "unlink", "symlink", "gc", "rmtree"}
Idle == [pc |-> "idle", root |-> NoRoot, remove |-> {}, files |-> {}]

Init ==
  /\ cas = [r \in Root |-> NoDir]
  /\ latest = [m \in Model |-> NoRoot]
  /\ proc = [p \in Process |-> Idle]
  /\ tmp = [p \in Process |-> NoDir]
  /\ now = 1 /\ crashes = 0
  /\ condemned = {}

At(p, pc) == proc[p].pc = pc
Goto(p, pc) == proc' = [proc EXCEPT ![p].pc = pc]

-----------------------------------------------------------------------------
(* save. An existing directory is taken for the checkpoint itself. *)
SaveBegin(p, r) ==
  /\ At(p, "idle")
  /\ IF cas[r].exists
     THEN UNCHANGED <<proc, tmp>>
     ELSE /\ proc' = [proc EXCEPT ![p] = [Idle EXCEPT !.pc = "weights", !.root = r]]
          /\ tmp' = [tmp EXCEPT ![p] = EmptyDir]
  /\ UNCHANGED <<cas, latest, now, crashes, condemned>>

(* Fault: the metadata would be written after the rename. *)
SaveWeightsLast(p) ==
  /\ At(p, "weights")
  /\ tmp' = [tmp EXCEPT ![p].weights = TRUE]
  /\ Goto(p, "rename")
  /\ UNCHANGED <<cas, latest, now, crashes, condemned>>

SaveWeights(p) ==
  /\ At(p, "weights")
  /\ tmp' = [tmp EXCEPT ![p].weights = TRUE]
  /\ Goto(p, "metadata")
  /\ UNCHANGED <<cas, latest, now, crashes, condemned>>

(* Fault: the link is moved before the directory has its name. *)
SaveMetadataLinks(p) ==
  /\ At(p, "metadata") /\ now < MaxTime
  /\ tmp' = [tmp EXCEPT ![p].time = now]
  /\ now' = now + 1
  /\ latest' = [latest EXCEPT ![ModelOf[proc[p].root]] = proc[p].root]
  /\ Goto(p, "rename")
  /\ UNCHANGED <<cas, crashes, condemned>>

SaveMetadata(p) ==
  /\ At(p, "metadata") /\ now < MaxTime
  /\ tmp' = [tmp EXCEPT ![p].time = now]
  /\ now' = now + 1
  /\ Goto(p, "rename")
  /\ UNCHANGED <<cas, latest, crashes, condemned>>

(* Fault: the rename would replace a directory that has files. *)
SaveRenameOver(p) ==
  /\ At(p, "rename")
  /\ cas' = [cas EXCEPT ![proc[p].root] = tmp[p]]
  /\ condemned' = condemned \ {proc[p].root}
  /\ Goto(p, "unlink")
  /\ tmp' = [tmp EXCEPT ![p] = NoDir]
  /\ UNCHANGED <<latest, now, crashes>>

SaveRename(p) ==
  /\ At(p, "rename")
  /\ LET r == proc[p].root IN
       IF cas[r] \in {NoDir, EmptyDir}
       THEN /\ cas' = [cas EXCEPT ![r] = tmp[p]]
            /\ condemned' = condemned \ {r}
            /\ Goto(p, "unlink")
       ELSE /\ proc' = [proc EXCEPT ![p] = Idle]
            /\ UNCHANGED <<cas, condemned>>
  /\ tmp' = [tmp EXCEPT ![p] = NoDir]
  /\ UNCHANGED <<latest, now, crashes>>

SaveUnlink(p) ==
  /\ At(p, "unlink")
  /\ latest' = [latest EXCEPT ![ModelOf[proc[p].root]] = NoRoot]
  /\ Goto(p, "symlink")
  /\ UNCHANGED <<cas, tmp, now, crashes, condemned>>

(* symlink_to raises when another process has made the link meanwhile. *)
SaveSymlink(p) ==
  /\ At(p, "symlink")
  /\ LET r == proc[p].root  m == ModelOf[r] IN
       IF latest[m] = NoRoot
       THEN latest' = [latest EXCEPT ![m] = r]
       ELSE UNCHANGED latest
  /\ proc' = [proc EXCEPT ![p] = Idle]
  /\ UNCHANGED <<cas, tmp, now, crashes, condemned>>

-----------------------------------------------------------------------------
(* list_checkpoints: the directories with metadata. *)
Checkpoints(models) == {r \in Root : cas[r].time # 0 /\ ModelOf[r] \in models}

(* Fault: sorted the other way around. *)
SurplusOldest(listed) ==
  {r \in listed : Cardinality({s \in listed : cas[s].time < cas[r].time}) >= KeepLatest}

(* checkpoints[keep_latest:], sorted newest first. *)
Surplus(listed) ==
  {r \in listed : Cardinality({s \in listed : cas[s].time > cas[r].time}) >= KeepLatest}

(* gc decides what to remove once, for one model or for all of them. *)
GcBegin(p, models) ==
  /\ At(p, "idle")
  /\ Surplus(Checkpoints(models)) # {}
  /\ proc' = [proc EXCEPT ![p] = [Idle EXCEPT !.pc = "gc",
                                              !.remove = Surplus(Checkpoints(models))]]
  /\ UNCHANGED <<cas, latest, tmp, now, crashes, condemned>>

Files(d) == (IF d.weights THEN {"weights"} ELSE {})
              \cup (IF d.time # 0 THEN {"metadata"} ELSE {})

(* The newest of what is left to remove, if it is still there. *)
GcNext(p) ==
  /\ At(p, "gc")
  /\ \/ /\ proc[p].remove = {}
        /\ proc' = [proc EXCEPT ![p] = Idle]
        /\ UNCHANGED condemned
     \/ \E r \in proc[p].remove :
          /\ \A s \in proc[p].remove : cas[s].time <= cas[r].time
          /\ IF cas[r].exists
             THEN /\ proc' = [proc EXCEPT ![p] = [pc |-> "rmtree", root |-> r,
                        remove |-> proc[p].remove \ {r}, files |-> Files(cas[r])]]
                  /\ condemned' = condemned \cup {r}
             ELSE proc' = [proc EXCEPT ![p].remove = @ \ {r}] /\ UNCHANGED condemned
  /\ UNCHANGED <<cas, latest, tmp, now, crashes>>

(* rmtree unlinks the files it found, in the order the directory lists them. *)
GcUnlink(p, file) ==
  /\ At(p, "rmtree") /\ file \in proc[p].files
  /\ proc' = [proc EXCEPT ![p].files = @ \ {file}]
  /\ cas' = [cas EXCEPT ![proc[p].root] =
               IF file = "weights" THEN [@ EXCEPT !.weights = FALSE]
                                   ELSE [@ EXCEPT !.time = 0]]
  /\ UNCHANGED <<latest, tmp, now, crashes, condemned>>

(* rmdir raises if a save has put a new directory in its place. *)
GcRmdir(p) ==
  /\ At(p, "rmtree") /\ proc[p].files = {}
  /\ LET r == proc[p].root IN
       IF cas[r] = EmptyDir
       THEN /\ cas' = [cas EXCEPT ![r] = NoDir]
            /\ proc' = [proc EXCEPT ![p] = [Idle EXCEPT !.pc = "gc",
                                                        !.remove = proc[p].remove]]
       ELSE proc' = [proc EXCEPT ![p] = Idle] /\ UNCHANGED cas
  /\ UNCHANGED <<latest, tmp, now, crashes, condemned>>

(* A failed or killed operation leaves the store as it is. Its temporary   *)
(* directory is removed, or left under a name nothing ever reads.          *)
Crash(p) ==
  /\ crashes < MaxCrashes
  /\ ~At(p, "idle")
  /\ crashes' = crashes + 1
  /\ proc' = [proc EXCEPT ![p] = Idle]
  /\ tmp' = [tmp EXCEPT ![p] = NoDir]
  /\ UNCHANGED <<cas, latest, now, condemned>>

Next ==
  \/ \E p \in Process :
       \/ \E r \in Root : SaveBegin(p, r)
       \/ SaveWeights(p) \/ SaveMetadata(p) \/ SaveRename(p)
       \/ SaveUnlink(p) \/ SaveSymlink(p)
       \/ Crash(p)
  \/ \E p \in Collector :
       \/ \E models \in {{m} : m \in Model} \cup {Model} : GcBegin(p, models)
       \/ GcNext(p) \/ GcRmdir(p)
       \/ \E file \in {"weights", "metadata"} : GcUnlink(p, file)

Spec == Init /\ [][Next]_vars

-----------------------------------------------------------------------------
(* Besides the types: a process that is not in the middle of a save has no *)
(* temporary directory.                                                    *)
TypeOK ==
  /\ cas \in [Root -> Dir]
  /\ latest \in [Model -> Root \cup {NoRoot}]
  /\ proc \in [Process -> [pc : PC, root : Root \cup {NoRoot}, remove : SUBSET Root,
                           files : SUBSET {"weights", "metadata"}]]
  /\ tmp \in [Process -> Dir]
  /\ \A p \in Process :
       tmp[p].exists <=> proc[p].pc \in {"weights", "metadata", "rename"}
  /\ now \in 1..MaxTime /\ crashes \in 0..MaxCrashes
  /\ condemned \in SUBSET Root

(* checkpoint.py, "Write to temp dir first, then atomic rename for crash   *)
(* safety": wherever saves are interrupted, a directory under a root has   *)
(* both its files unless gc has begun to remove it.                        *)
WrittenAtomically ==
  \A r \in Root : cas[r].exists /\ r \notin condemned => Complete(cas[r])

(* A link never points to a checkpoint that was not there first, wherever  *)
(* saves are interrupted or overtaken: it finds the complete directory of  *)
(* a root of its model unless gc has begun to remove it since.             *)
LatestWasWritten ==
  \A m \in Model : latest[m] # NoRoot =>
    /\ ModelOf[latest[m]] = m
    /\ Complete(cas[latest[m]]) \/ latest[m] \in condemned

(* gc only ever takes checkpoints with at least keep_latest newer ones,    *)
(* none of which it takes too: interrupted collections, collections per    *)
(* model and saves meanwhile included.                                     *)
NewestKept ==
  \A r \in condemned : cas[r].time # 0 =>
    Cardinality({s \in Root \ condemned : cas[s].time > cas[r].time}) >= KeepLatest

(* A checkpoint in the store is never written again: of two processes that *)
(* save the same weights the later one changes nothing.                    *)
CheckpointsImmutable ==
  [][\A r \in Root : Complete(cas[r]) => cas'[r] = cas[r] \/ r \in condemned]_vars
=============================================================================
