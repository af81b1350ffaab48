----------------------------- MODULE ModelProofs -----------------------------
(***************************************************************************)
(* Theorems about the model: whatever the number of processes and roots    *)
(* and wherever they fail, checkpoints appear complete, are never written  *)
(* again, are what is linked to, and the newest are kept                   *)
(* (CheckpointStore); for models of any size cut into any number of shards *)
(* a forward pass is that of the whole model (Pipeline); what the votes on *)
(* mutations of its genome decide, that no gene loses its weights to what  *)
(* a peer adopts (Evolution, Genome), and that a Merkle root tells lists   *)
(* apart, so that what decodes is what was sent (Merkle, Wire).            *)
(***************************************************************************)
EXTENDS CheckpointStore, Pipeline, Evolution, Wire, ListProofs

(* The shape of the state, as far as the argument needs it. *)
Shape ==
  /\ cas \in [Root -> [exists : BOOLEAN, weights : BOOLEAN, time : Nat]]
  /\ DOMAIN proc = Process
  /\ \A p \in Process : DOMAIN proc[p] = {"pc", "root", "remove", "files"}
  /\ tmp \in [Process -> [exists : BOOLEAN, weights : BOOLEAN, time : Nat]]
  /\ now \in Nat \ {0}

(* What a save has written by the time it renames, and that the collector  *)
(* only unlinks files that are still there.                                *)
SaveProgress ==
  \A p \in Process :
    /\ proc[p].pc \in {"weights", "metadata", "rename"} => proc[p].root \in Root
    /\ At(p, "weights") => tmp[p].exists
    /\ At(p, "metadata") => tmp[p].exists /\ tmp[p].weights
    /\ At(p, "rename") => Complete(tmp[p])

GcProgress ==
  \A p \in Process : At(p, "rmtree") =>
    /\ p \in Collector
    /\ proc[p].files # {} => proc[p].root \in condemned
    /\ proc[p].root \in Root => proc[p].files \subseteq Files(cas[proc[p].root])

GcOnlyCollector ==
  \A p \in Process : proc[p].pc \in {"gc", "rmtree"} => p \in Collector

IndInv == Shape /\ SaveProgress /\ GcProgress /\ GcOnlyCollector /\ WrittenAtomically

LEMMA InitIndInv == Init => IndInv
  BY StoreAssumption DEF Init, IndInv, Shape, SaveProgress, GcProgress, GcOnlyCollector,
     WrittenAtomically, NoDir, Idle, At

-----------------------------------------------------------------------------
(* A step of p that leaves cas, condemned and tmp of the others alone and  *)
(* does not enter rmtree: only p's own progress has to be established.     *)
LEMMA OwnStep ==
  ASSUME IndInv, NEW p \in Process, UNCHANGED <<cas, condemned>>,
         DOMAIN proc' = Process, DOMAIN proc'[p] = {"pc", "root", "remove", "files"},
         \A q \in Process \ {p} : proc'[q] = proc[q] /\ tmp'[q] = tmp[q],
         tmp' \in [Process -> [exists : BOOLEAN, weights : BOOLEAN, time : Nat]],
         now' \in Nat \ {0},
         proc'[p].pc \in {"weights", "metadata", "rename"} => proc'[p].root \in Root,
         At(p, "weights")' => tmp'[p].exists,
         At(p, "metadata")' => tmp'[p].exists /\ tmp'[p].weights,
         At(p, "rename")' => Complete(tmp'[p]),
         proc'[p].pc # "rmtree",
         proc'[p].pc = "gc" => p \in Collector
  PROVE  IndInv'
<1>1. Shape'
  BY DEF IndInv, Shape
<1>2. SaveProgress'
  BY DEF IndInv, SaveProgress, At, Complete
<1>3. GcProgress'
  BY DEF IndInv, GcProgress, At, Files
<1>4. GcOnlyCollector' /\ WrittenAtomically'
  BY DEF IndInv, GcOnlyCollector, WrittenAtomically, Complete
<1> QED
  BY <1>1, <1>2, <1>3, <1>4 DEF IndInv

LEMMA SaveBeginStep ==
  ASSUME IndInv, NEW p \in Process, NEW r \in Root, SaveBegin(p, r)
  PROVE  IndInv'
<1>1. CASE cas[r].exists
  BY <1>1, OwnStep DEF IndInv, SaveBegin, Shape, At
<1>2. CASE ~cas[r].exists
  <2>1. /\ proc' = [proc EXCEPT ![p] = [Idle EXCEPT !.pc = "weights", !.root = r]]
        /\ tmp' = [tmp EXCEPT ![p] = EmptyDir]
        /\ UNCHANGED <<cas, latest, now, crashes, condemned>>
    BY <1>2 DEF SaveBegin
  <2>2. /\ proc'[p] = [pc |-> "weights", root |-> r, remove |-> {}, files |-> {}]
        /\ tmp'[p] = [exists |-> TRUE, weights |-> FALSE, time |-> 0]
    BY <2>1 DEF IndInv, Shape, Idle, EmptyDir, NoDir
  <2>3. /\ DOMAIN proc' = Process
        /\ \A q \in Process \ {p} : proc'[q] = proc[q] /\ tmp'[q] = tmp[q]
        /\ tmp' \in [Process -> [exists : BOOLEAN, weights : BOOLEAN, time : Nat]]
    BY <2>1 DEF IndInv, Shape, EmptyDir, NoDir
  <2>4. /\ DOMAIN proc'[p] = {"pc", "root", "remove", "files"}
        /\ proc'[p].pc = "weights" /\ proc'[p].root = r
        /\ tmp'[p].exists
    BY <2>2
  <2>5. now' \in Nat \ {0}
    BY <2>1 DEF IndInv, Shape
  <2> QED
    BY <2>1, <2>3, <2>4, <2>5, OwnStep DEF At
<1> QED
  BY <1>1, <1>2

LEMMA SaveWriteStep ==
  ASSUME IndInv, NEW p \in Process, SaveWeights(p) \/ SaveMetadata(p)
  PROVE  IndInv'
<1>1. CASE SaveWeights(p)
  <2>1. /\ proc'[p] = [proc[p] EXCEPT !.pc = "metadata"]
        /\ tmp'[p] = [tmp[p] EXCEPT !.weights = TRUE]
        /\ DOMAIN proc' = Process
        /\ \A q \in Process \ {p} : proc'[q] = proc[q] /\ tmp'[q] = tmp[q]
        /\ tmp' \in [Process -> [exists : BOOLEAN, weights : BOOLEAN, time : Nat]]
        /\ UNCHANGED <<cas, now, condemned>>
    BY <1>1 DEF IndInv, Shape, SaveWeights, Goto
  <2>2. tmp[p].exists /\ proc[p].root \in Root
    BY <1>1 DEF IndInv, SaveProgress, SaveWeights, At
  <2> QED
    BY <2>1, <2>2, OwnStep DEF IndInv, Shape, At
<1>2. CASE SaveMetadata(p)
  <2>1. /\ proc'[p] = [proc[p] EXCEPT !.pc = "rename"]
        /\ tmp'[p] = [tmp[p] EXCEPT !.time = now]
        /\ DOMAIN proc' = Process
        /\ \A q \in Process \ {p} : proc'[q] = proc[q] /\ tmp'[q] = tmp[q]
        /\ tmp' \in [Process -> [exists : BOOLEAN, weights : BOOLEAN, time : Nat]]
        /\ now' \in Nat \ {0}
        /\ UNCHANGED <<cas, condemned>>
    BY <1>2 DEF IndInv, Shape, SaveMetadata, Goto
  <2>2. tmp[p].exists /\ tmp[p].weights /\ now # 0 /\ proc[p].root \in Root
    BY <1>2 DEF IndInv, SaveProgress, SaveMetadata, Shape, At
  <2> QED
    BY <2>1, <2>2, OwnStep DEF IndInv, Shape, At, Complete
<1> QED
  BY <1>1, <1>2

(* Steps after which p is idle, or about to link or to collect. *)
LEMMA PlainStep ==
  ASSUME IndInv, NEW p \in Process, UNCHANGED <<cas, condemned, now>>,
         DOMAIN proc' = Process, DOMAIN proc'[p] = {"pc", "root", "remove", "files"},
         \A q \in Process \ {p} : proc'[q] = proc[q] /\ tmp'[q] = tmp[q],
         tmp' \in [Process -> [exists : BOOLEAN, weights : BOOLEAN, time : Nat]],
         proc'[p].pc \in {"idle", "unlink", "symlink", "gc"},
         proc'[p].pc = "gc" => p \in Collector
  PROVE  IndInv'
<1>1. now' \in Nat \ {0}
  BY DEF IndInv, Shape
<1> QED
  BY <1>1, OwnStep DEF At

LEMMA SaveLinkStep ==
  ASSUME IndInv, NEW p \in Process, SaveUnlink(p) \/ SaveSymlink(p)
  PROVE  IndInv'
<1>1. CASE SaveUnlink(p)
  BY <1>1, PlainStep DEF IndInv, Shape, SaveUnlink, Goto
<1>2. CASE SaveSymlink(p)
  <2>1. proc'[p] = Idle /\ DOMAIN proc' = Process
    BY <1>2 DEF IndInv, Shape, SaveSymlink
  <2> QED
    BY <1>2, <2>1, PlainStep DEF IndInv, Shape, SaveSymlink, Idle
<1> QED
  BY <1>1, <1>2

LEMMA CrashStep == ASSUME IndInv, NEW p \in Process, Crash(p) PROVE IndInv'
<1>1. /\ proc'[p] = Idle /\ DOMAIN proc' = Process
      /\ tmp' \in [Process -> [exists : BOOLEAN, weights : BOOLEAN, time : Nat]]
      /\ \A q \in Process \ {p} : proc'[q] = proc[q] /\ tmp'[q] = tmp[q]
  BY DEF IndInv, Shape, Crash, NoDir
<1>2. DOMAIN proc'[p] = {"pc", "root", "remove", "files"} /\ proc'[p].pc = "idle"
  BY <1>1 DEF Idle
<1> QED
  BY <1>1, <1>2, PlainStep DEF Crash

(* The renamed directory is complete, and the collector has nothing left   *)
(* to unlink in the directory it replaces.                                 *)
LEMMA SaveRenameStep ==
  ASSUME IndInv, NEW p \in Process, SaveRename(p)
  PROVE  IndInv'
<1> DEFINE r == proc[p].root
<1>1. r \in Root /\ Complete(tmp[p])
  BY DEF IndInv, SaveProgress, SaveRename, At
<1>2. tmp' = [tmp EXCEPT ![p] = NoDir] /\ now' = now
  BY DEF SaveRename
<1>3. tmp' \in [Process -> [exists : BOOLEAN, weights : BOOLEAN, time : Nat]]
  BY <1>2 DEF IndInv, Shape, NoDir
<1>4. CASE cas[r] \in {NoDir, EmptyDir}
  <2>1. /\ cas' = [cas EXCEPT ![r] = tmp[p]]
        /\ condemned' = condemned \ {r}
        /\ proc' = [proc EXCEPT ![p].pc = "unlink"]
    BY <1>4 DEF SaveRename, Goto
  <2>2. Shape'
    BY <2>1, <1>1, <1>2, <1>3 DEF IndInv, Shape
  <2>3. \A q \in Process : At(q, "rmtree")' => q # p /\ At(q, "rmtree") /\ proc'[q] = proc[q]
    BY <2>1 DEF IndInv, Shape, At
  <2>4. SaveProgress'
    BY <2>1, <1>2 DEF IndInv, Shape, SaveProgress, At, Complete
  <2>5. Files(cas[r]) = {}
    BY <1>4 DEF Files, NoDir, EmptyDir
  <2>6. GcProgress'
    <3> SUFFICES ASSUME NEW q \in Process, At(q, "rmtree")'
                 PROVE  /\ q \in Collector
                        /\ proc'[q].files # {} => proc'[q].root \in condemned'
                        /\ proc'[q].root \in Root => proc'[q].files \subseteq Files(cas'[proc'[q].root])
      BY DEF GcProgress, Files
    <3>1. At(q, "rmtree") /\ proc'[q] = proc[q]
      BY <2>3
    <3>2. CASE proc[q].root = r
      BY <3>1, <3>2, <2>5, <1>1 DEF IndInv, GcProgress
    <3>3. CASE proc[q].root # r
      BY <3>1, <3>3, <2>1 DEF IndInv, GcProgress, Shape
    <3> QED
      BY <3>2, <3>3
  <2>7. GcOnlyCollector'
    BY <2>1 DEF IndInv, Shape, GcOnlyCollector
  <2>8. WrittenAtomically'
    BY <2>1, <1>1 DEF IndInv, Shape, WrittenAtomically, Complete
  <2> QED
    BY <2>2, <2>4, <2>6, <2>7, <2>8 DEF IndInv
<1>5. CASE cas[r] \notin {NoDir, EmptyDir}
  <2>1. proc' = [proc EXCEPT ![p] = Idle] /\ UNCHANGED <<cas, condemned>>
    BY <1>5 DEF SaveRename
  <2>2. /\ DOMAIN proc' = Process /\ proc'[p] = Idle
        /\ \A q \in Process \ {p} : proc'[q] = proc[q] /\ tmp'[q] = tmp[q]
    BY <2>1, <1>2 DEF IndInv, Shape
  <2>3. DOMAIN proc'[p] = {"pc", "root", "remove", "files"} /\ proc'[p].pc = "idle"
    BY <2>2 DEF Idle
  <2> QED
    BY <2>1, <2>2, <2>3, <1>2, <1>3, PlainStep
<1> QED
  BY <1>4, <1>5

-----------------------------------------------------------------------------
LEMMA GcBeginStep ==
  ASSUME IndInv, NEW p \in Process, p \in Collector, NEW models, GcBegin(p, models)
  PROVE  IndInv'
<1> DEFINE removed == Surplus(Checkpoints(models))
<1>1. /\ proc' = [proc EXCEPT ![p] = [Idle EXCEPT !.pc = "gc", !.remove = removed]]
      /\ UNCHANGED <<cas, tmp, now, condemned>>
  BY DEF GcBegin
<1>2. /\ proc'[p] = [pc |-> "gc", root |-> NoRoot, remove |-> removed, files |-> {}]
      /\ DOMAIN proc' = Process
      /\ \A q \in Process \ {p} : proc'[q] = proc[q]
  BY <1>1 DEF IndInv, Shape, Idle
<1>3. DOMAIN proc'[p] = {"pc", "root", "remove", "files"} /\ proc'[p].pc = "gc"
  BY <1>2
<1> QED
  BY <1>1, <1>2, <1>3, PlainStep DEF IndInv, Shape

(* Entering rmtree: what it will unlink is what the directory holds. *)
LEMMA GcNextStep ==
  ASSUME IndInv, NEW p \in Process, p \in Collector, GcNext(p)
  PROVE  IndInv'
<1>1. UNCHANGED <<cas, latest, tmp, now, crashes>> /\ At(p, "gc")
  BY DEF GcNext
<1>2. CASE proc' = [proc EXCEPT ![p] = Idle] /\ UNCHANGED condemned
  <2>1. /\ proc'[p] = Idle /\ DOMAIN proc' = Process
        /\ \A q \in Process \ {p} : proc'[q] = proc[q]
    BY <1>2 DEF IndInv, Shape
  <2>2. DOMAIN proc'[p] = {"pc", "root", "remove", "files"} /\ proc'[p].pc = "idle"
    BY <2>1 DEF Idle
  <2> QED
    BY <1>1, <1>2, <2>1, <2>2, PlainStep DEF IndInv, Shape
<1>3. ASSUME NEW r \in proc[p].remove, ~cas[r].exists,
             proc' = [proc EXCEPT ![p].remove = @ \ {r}], UNCHANGED condemned
      PROVE  IndInv'
  <2>1. /\ DOMAIN proc' = Process /\ proc'[p].pc = "gc"
        /\ DOMAIN proc'[p] = {"pc", "root", "remove", "files"}
        /\ \A q \in Process \ {p} : proc'[q] = proc[q]
    BY <1>1, <1>3 DEF IndInv, Shape, At
  <2> QED
    BY <1>1, <1>3, <2>1, PlainStep DEF IndInv, Shape
<1>4. ASSUME NEW r \in proc[p].remove, cas[r].exists,
             proc' = [proc EXCEPT ![p] = [pc |-> "rmtree", root |-> r,
                        remove |-> proc[p].remove \ {r}, files |-> Files(cas[r])]],
             condemned' = condemned \cup {r}
      PROVE  IndInv'
  <2>2. /\ DOMAIN proc' = Process
        /\ proc'[p].pc = "rmtree" /\ proc'[p].root = r /\ proc'[p].files = Files(cas[r])
        /\ DOMAIN proc'[p] = {"pc", "root", "remove", "files"}
        /\ \A q \in Process \ {p} : proc'[q] = proc[q]
    BY <1>4 DEF IndInv, Shape
  <2>3. Shape'
    BY <1>1, <2>2 DEF IndInv, Shape
  <2>4. SaveProgress' /\ GcOnlyCollector'
    BY <1>1, <2>2 DEF IndInv, SaveProgress, GcOnlyCollector, At, Complete
  <2>5. GcProgress'
    BY <1>1, <1>4, <2>2 DEF IndInv, GcProgress, At, Files
  <2>6. WrittenAtomically'
    BY <1>1, <1>4 DEF IndInv, WrittenAtomically, Complete
  <2> QED
    BY <2>3, <2>4, <2>5, <2>6 DEF IndInv
<1> QED
  BY <1>1, <1>2, <1>3, <1>4 DEF GcNext

(* What is unlinked belongs to a condemned directory. *)
LEMMA GcUnlinkStep ==
  ASSUME IndInv, NEW p \in Process, p \in Collector,
         NEW file \in {"weights", "metadata"}, GcUnlink(p, file)
  PROVE  IndInv'
<1> DEFINE r == proc[p].root
           d == IF file = "weights" THEN [cas[r] EXCEPT !.weights = FALSE]
                                    ELSE [cas[r] EXCEPT !.time = 0]
<1>1. /\ At(p, "rmtree") /\ file \in proc[p].files
      /\ proc' = [proc EXCEPT ![p].files = proc[p].files \ {file}]
      /\ cas' = [cas EXCEPT ![r] = d]
      /\ UNCHANGED <<tmp, now, condemned>>
  BY DEF GcUnlink
<1>2. /\ DOMAIN proc' = Process
      /\ proc'[p].pc = "rmtree" /\ proc'[p].root = r
      /\ proc'[p].files = proc[p].files \ {file}
      /\ DOMAIN proc'[p] = {"pc", "root", "remove", "files"}
      /\ \A q \in Process \ {p} : proc'[q] = proc[q]
  BY <1>1 DEF IndInv, Shape, At
<1>3. r \in condemned /\ (r \in Root => proc[p].files \subseteq Files(cas[r]))
  BY <1>1 DEF IndInv, GcProgress
<1>4. r \in Root => d \in [exists : BOOLEAN, weights : BOOLEAN, time : Nat]
  BY DEF IndInv, Shape
<1>5. cas' \in [Root -> [exists : BOOLEAN, weights : BOOLEAN, time : Nat]]
  BY <1>1, <1>4 DEF IndInv, Shape
<1>6. Shape'
  BY <1>1, <1>2, <1>5 DEF IndInv, Shape
<1>7. SaveProgress' /\ GcOnlyCollector'
  BY <1>1, <1>2 DEF IndInv, SaveProgress, GcOnlyCollector, At, Complete
<1>8. GcProgress'
  <2> SUFFICES ASSUME NEW q \in Process, At(q, "rmtree")'
               PROVE  /\ q \in Collector
                      /\ proc'[q].files # {} => proc'[q].root \in condemned'
                      /\ proc'[q].root \in Root => proc'[q].files \subseteq Files(cas'[proc'[q].root])
    BY DEF GcProgress, Files
  <2>1. q = p
    BY <1>2, StoreAssumption DEF IndInv, GcProgress, At
  <2>2. r \in Root => cas'[r] = d
    BY <1>1 DEF IndInv, Shape
  <2>3. r \in Root => Files(cas[r]) \ {file} \subseteq Files(d)
    BY DEF Files, IndInv, Shape
  <2> QED
    BY <2>1, <2>2, <2>3, <1>1, <1>2, <1>3
<1>9. WrittenAtomically'
  BY <1>1, <1>3 DEF IndInv, Shape, WrittenAtomically, Complete
<1> QED
  BY <1>6, <1>7, <1>8, <1>9 DEF IndInv

LEMMA GcRmdirStep ==
  ASSUME IndInv, NEW p \in Process, p \in Collector, GcRmdir(p)
  PROVE  IndInv'
<1> DEFINE r == proc[p].root
<1>1. At(p, "rmtree") /\ UNCHANGED <<latest, tmp, now, crashes, condemned>>
  BY DEF GcRmdir
<1>2. CASE cas[r] = EmptyDir
  <2>1. /\ cas' = [cas EXCEPT ![r] = NoDir]
        /\ proc' = [proc EXCEPT ![p] = [Idle EXCEPT !.pc = "gc", !.remove = proc[p].remove]]
    BY <1>2 DEF GcRmdir
  <2>2. /\ DOMAIN proc' = Process
        /\ proc'[p] = [pc |-> "gc", root |-> NoRoot, remove |-> proc[p].remove, files |-> {}]
        /\ \A q \in Process \ {p} : proc'[q] = proc[q]
    BY <2>1 DEF IndInv, Shape, Idle
  <2>3. DOMAIN proc'[p] = {"pc", "root", "remove", "files"} /\ proc'[p].pc = "gc"
    BY <2>2
  <2>4. Shape'
    BY <1>1, <2>1, <2>2, <2>3 DEF IndInv, Shape, NoDir
  <2>5. SaveProgress' /\ GcOnlyCollector'
    BY <1>1, <2>2, <2>3 DEF IndInv, SaveProgress, GcOnlyCollector, At, Complete
  <2>6. GcProgress'
    <3>1. \A q \in Process : ~At(q, "rmtree")'
      BY <2>2, <2>3, StoreAssumption DEF IndInv, GcProgress, At
    <3> QED
      BY <3>1 DEF GcProgress, Files
  <2>7. WrittenAtomically'
    BY <1>1, <2>1 DEF IndInv, Shape, WrittenAtomically, Complete, NoDir
  <2> QED
    BY <2>4, <2>5, <2>6, <2>7 DEF IndInv
<1>3. CASE cas[r] # EmptyDir
  <2>1. proc' = [proc EXCEPT ![p] = Idle] /\ UNCHANGED <<cas, condemned>>
    BY <1>1, <1>3 DEF GcRmdir
  <2>2. /\ proc'[p] = Idle /\ DOMAIN proc' = Process
        /\ \A q \in Process \ {p} : proc'[q] = proc[q]
    BY <2>1 DEF IndInv, Shape
  <2>3. DOMAIN proc'[p] = {"pc", "root", "remove", "files"} /\ proc'[p].pc = "idle"
    BY <2>2 DEF Idle
  <2> QED
    BY <1>1, <2>1, <2>2, <2>3, PlainStep DEF IndInv, Shape
<1> QED
  BY <1>2, <1>3

LEMMA StutterStep == ASSUME IndInv, UNCHANGED vars PROVE IndInv'
  BY DEF IndInv, Shape, SaveProgress, GcProgress, GcOnlyCollector, WrittenAtomically,
     At, Complete, Files, vars

LEMMA NextStep == ASSUME IndInv, [Next]_vars PROVE IndInv'
<1>1. Collector \subseteq Process
  BY StoreAssumption
<1>2. CASE Next
  <2>1. CASE \E p \in Process :
               \/ \E r \in Root : SaveBegin(p, r)
               \/ SaveWeights(p) \/ SaveMetadata(p) \/ SaveRename(p)
               \/ SaveUnlink(p) \/ SaveSymlink(p)
               \/ Crash(p)
    BY <2>1, SaveBeginStep, SaveWriteStep, SaveRenameStep, SaveLinkStep, CrashStep
  <2>2. CASE \E p \in Collector :
               \/ \E models \in {{m} : m \in Model} \cup {Model} : GcBegin(p, models)
               \/ GcNext(p) \/ GcRmdir(p)
               \/ \E file \in {"weights", "metadata"} : GcUnlink(p, file)
    BY <2>2, <1>1, GcBeginStep, GcNextStep, GcRmdirStep, GcUnlinkStep
  <2> QED
    BY <1>2, <2>1, <2>2 DEF Next
<1>3. CASE UNCHANGED vars
  BY <1>3, StutterStep
<1> QED
  BY <1>2, <1>3

LEMMA Inductive == Spec => []IndInv
  BY InitIndInv, NextStep, PTL DEF Spec

-----------------------------------------------------------------------------
(* Only the collector touches a complete directory, having condemned it.   *)
LEMMA CompleteStays ==
  ASSUME IndInv, [Next]_vars, NEW r \in Root, Complete(cas[r]), cas'[r] # cas[r]
  PROVE  r \in condemned
<1>1. CASE \E p \in Process : SaveRename(p)
  <2>1. PICK p \in Process : SaveRename(p)
    BY <1>1
  <2>2. cas[proc[p].root] \in {NoDir, EmptyDir} /\ cas' = [cas EXCEPT ![proc[p].root] = tmp[p]]
    BY <2>1 DEF SaveRename
  <2>3. proc[p].root = r
    BY <2>2 DEF IndInv, Shape
  <2> QED
    BY <2>2, <2>3 DEF Complete, NoDir, EmptyDir
<1>2. CASE \E p \in Collector : GcRmdir(p)
  <2>1. PICK p \in Collector : GcRmdir(p)
    BY <1>2
  <2>2. cas[proc[p].root] = EmptyDir /\ cas' = [cas EXCEPT ![proc[p].root] = NoDir]
    BY <2>1 DEF GcRmdir
  <2>3. proc[p].root = r
    BY <2>2 DEF IndInv, Shape
  <2> QED
    BY <2>2, <2>3 DEF Complete, NoDir, EmptyDir
<1>3. CASE \E p \in Collector : \E file \in {"weights", "metadata"} : GcUnlink(p, file)
  <2>1. PICK p \in Collector, file \in {"weights", "metadata"} : GcUnlink(p, file)
    BY <1>3
  <2>2. /\ At(p, "rmtree") /\ file \in proc[p].files
        /\ cas' = [cas EXCEPT ![proc[p].root] =
                     IF file = "weights" THEN [cas[proc[p].root] EXCEPT !.weights = FALSE]
                                         ELSE [cas[proc[p].root] EXCEPT !.time = 0]]
    BY <2>1 DEF GcUnlink
  <2>3. proc[p].root = r
    BY <2>2 DEF IndInv, Shape
  <2> QED
    BY <2>2, <2>3, StoreAssumption DEF IndInv, GcProgress
<1> QED
  BY <1>1, <1>2, <1>3 DEF Next, vars, SaveBegin, SaveWeights, SaveMetadata, SaveUnlink,
     SaveSymlink, Crash, GcBegin, GcNext

(* Wherever saves and the collection are interrupted, a directory under a  *)
(* root is complete unless gc has begun to remove it: the temporary        *)
(* directory and the rename of save do give crash safety.                  *)
THEOREM AtomicSaves == Spec => []WrittenAtomically
<1>1. IndInv => WrittenAtomically
  BY DEF IndInv
<1> QED
  BY <1>1, Inductive, PTL

(* A complete checkpoint changes only when gc removes it: no save, however *)
(* it races with others, writes over a checkpoint.                         *)
THEOREM ImmutableCheckpoints == Spec => CheckpointsImmutable
<1>1. ASSUME IndInv, [Next]_vars
      PROVE  [\A r \in Root : Complete(cas[r]) => cas'[r] = cas[r] \/ r \in condemned]_vars
  BY <1>1, CompleteStays
<1> QED
  BY <1>1, Inductive, PTL DEF Spec, CheckpointsImmutable

-----------------------------------------------------------------------------
(* The links: what one points to, and what a save is about to link, is a   *)
(* complete directory until gc condemns it.                                *)
Present(r) == Complete(cas[r]) \/ r \in condemned

Linked ==
  /\ latest \in [Model -> Root \cup {NoRoot}]
  /\ LatestWasWritten
  /\ \A p \in Process : proc[p].pc \in {"unlink", "symlink"} =>
       proc[p].root \in Root /\ Present(proc[p].root)

LEMMA PresentStays ==
  ASSUME IndInv, [Next]_vars, NEW r \in Root, Present(r)
  PROVE  Present(r)'
<1>1. CASE r \in condemned
  <2>1. CASE \E p \in Process : SaveRename(p)
    <3>1. PICK p \in Process : SaveRename(p)
      BY <2>1
    <3>2. proc[p].root \in Root /\ Complete(tmp[p])
      BY <3>1 DEF IndInv, SaveProgress, SaveRename, At
    <3>3. \/ cas' = [cas EXCEPT ![proc[p].root] = tmp[p]] /\ condemned' = condemned \ {proc[p].root}
          \/ condemned' = condemned
      BY <3>1 DEF SaveRename
    <3> QED
      BY <1>1, <3>2, <3>3 DEF Present, IndInv, Shape, Complete
  <2>2. CASE ~ \E p \in Process : SaveRename(p)
    <3>1. condemned \subseteq condemned'
      BY <2>2 DEF Next, vars, SaveBegin, SaveWeights, SaveMetadata, SaveUnlink, SaveSymlink,
         Crash, GcBegin, GcNext, GcUnlink, GcRmdir
    <3> QED
      BY <1>1, <3>1 DEF Present
  <2> QED
    BY <2>1, <2>2
<1>2. CASE r \notin condemned
  <2>1. cas'[r] = cas[r] /\ Complete(cas[r])
    BY <1>2, CompleteStays DEF Present
  <2> QED
    BY <2>1 DEF Present, Complete
<1> QED
  BY <1>1, <1>2

(* A save that is about to link has renamed just now, or was before.       *)
LEMMA LinksWhatItSaved ==
  ASSUME IndInv, [Next]_vars, NEW p \in Process, proc'[p].pc \in {"unlink", "symlink"}
  PROVE  /\ proc'[p].root = proc[p].root
         /\ \/ proc[p].pc \in {"unlink", "symlink"}
            \/ proc[p].root \in Root /\ Complete(cas'[proc[p].root])
<1>1. ASSUME NEW q \in Process,
             \/ \E r \in Root : SaveBegin(q, r)
             \/ SaveWeights(q) \/ SaveMetadata(q)
      PROVE  proc'[p] = proc[p]
  <2>1. ASSUME p = q  PROVE proc' = proc \/ proc'[p].pc \notin {"unlink", "symlink"}
    <3>1. ASSUME NEW r \in Root, SaveBegin(q, r)
          PROVE  proc' = proc \/ proc'[q].pc = "weights"
      <4>1. proc' = proc \/ proc' = [proc EXCEPT ![q] = [Idle EXCEPT !.pc = "weights", !.root = r]]
        BY <3>1 DEF SaveBegin
      <4>2. ASSUME proc' = [proc EXCEPT ![q] = [Idle EXCEPT !.pc = "weights", !.root = r]]
            PROVE  proc'[q] = [pc |-> "weights", root |-> r, remove |-> {}, files |-> {}]
        BY <4>2 DEF IndInv, Shape, Idle
      <4> QED
        BY <4>1, <4>2
    <3>2. SaveWeights(q) => proc'[q].pc = "metadata"
      BY DEF IndInv, Shape, SaveWeights, Goto
    <3>3. SaveMetadata(q) => proc'[q].pc = "rename"
      BY DEF IndInv, Shape, SaveMetadata, Goto
    <3> QED
      BY <1>1, <2>1, <3>1, <3>2, <3>3
  <2>2. p # q => proc'[p] = proc[p]
    BY <1>1 DEF IndInv, Shape, SaveBegin, SaveWeights, SaveMetadata, Goto
  <2> QED
    BY <2>1, <2>2
<1>2. ASSUME NEW q \in Process, SaveRename(q)
      PROVE  \/ proc'[p] = proc[p]
             \/ /\ proc'[p].root = proc[p].root
                /\ proc[p].root \in Root /\ Complete(cas'[proc[p].root])
  <2>1. proc[q].root \in Root /\ Complete(tmp[q])
    BY <1>2 DEF IndInv, SaveProgress, SaveRename, At
  <2>2. \/ /\ cas' = [cas EXCEPT ![proc[q].root] = tmp[q]]
           /\ proc' = [proc EXCEPT ![q].pc = "unlink"]
        \/ proc' = [proc EXCEPT ![q] = Idle]
    BY <1>2 DEF SaveRename, Goto
  <2> QED
    BY <2>1, <2>2 DEF IndInv, Shape, Complete, Idle
<1>3. ASSUME NEW q \in Process, SaveUnlink(q) \/ SaveSymlink(q) \/ Crash(q)
      PROVE  \/ proc'[p] = proc[p]
             \/ proc'[p].root = proc[p].root /\ proc[p].pc = "unlink"
  BY <1>3 DEF IndInv, Shape, SaveUnlink, SaveSymlink, Crash, Goto, Idle, At
<1>4. ASSUME NEW q \in Collector,
             \/ \E models \in {{m} : m \in Model} \cup {Model} : GcBegin(q, models)
             \/ GcNext(q) \/ GcRmdir(q)
             \/ \E file \in {"weights", "metadata"} : GcUnlink(q, file)
      PROVE  proc'[p] = proc[p]
  <2>1. q \in Process /\ Idle.pc = "idle"
    BY StoreAssumption DEF Idle
  <2>2. ASSUME p = q  PROVE proc'[p].pc \notin {"unlink", "symlink"}
    <3>1. CASE \E models \in {{m} : m \in Model} \cup {Model} : GcBegin(q, models)
      BY <2>1, <2>2, <3>1 DEF IndInv, Shape, GcBegin, Idle
    <3>2. CASE GcNext(q)
      <4>1. \/ proc' = [proc EXCEPT ![q] = Idle]
            \/ \E r : proc' = [proc EXCEPT ![q].remove = @ \ {r}] /\ proc[q].pc = "gc"
            \/ \E r : proc' = [proc EXCEPT ![q] = [pc |-> "rmtree", root |-> r,
                        remove |-> proc[q].remove \ {r}, files |-> Files(cas[r])]]
        BY <3>2 DEF GcNext, At
      <4>2. proc' = [proc EXCEPT ![q] = Idle] => proc'[q].pc = "idle"
        BY <2>1 DEF IndInv, Shape
      <4>3. ASSUME NEW r, proc' = [proc EXCEPT ![q].remove = @ \ {r}], proc[q].pc = "gc"
            PROVE  proc'[q].pc = "gc"
        BY <2>1, <4>3 DEF IndInv, Shape
      <4>4. ASSUME NEW r, proc' = [proc EXCEPT ![q] = [pc |-> "rmtree", root |-> r,
                                 remove |-> proc[q].remove \ {r}, files |-> Files(cas[r])]]
            PROVE  proc'[q].pc = "rmtree"
        BY <2>1, <4>4 DEF IndInv, Shape
      <4> QED
        <5>1. proc'[q].pc = "idle" \/ proc'[q].pc = "gc" \/ proc'[q].pc = "rmtree"
          BY <4>1, <4>2, <4>3, <4>4, Zenon
        <5> QED
          BY <2>2, <5>1
    <3>3. CASE GcRmdir(q)
      <4>1. ASSUME proc' = [proc EXCEPT ![q] = [Idle EXCEPT !.pc = "gc",
                                                            !.remove = proc[q].remove]]
            PROVE  proc'[q] = [pc |-> "gc", root |-> NoRoot, remove |-> proc[q].remove,
                               files |-> {}]
        BY <2>1, <4>1 DEF IndInv, Shape, Idle
      <4>2. proc' = [proc EXCEPT ![q] = Idle] => proc'[q].pc = "idle"
        BY <2>1 DEF IndInv, Shape
      <4> QED
        BY <2>2, <3>3, <4>1, <4>2 DEF GcRmdir
    <3>4. CASE \E file \in {"weights", "metadata"} : GcUnlink(q, file)
      BY <2>1, <2>2, <3>4 DEF IndInv, Shape, GcUnlink, At
    <3> QED
      BY <1>4, <3>1, <3>2, <3>3, <3>4
  <2>3. p # q => proc'[p] = proc[p]
    BY <1>4, <2>1 DEF IndInv, Shape, GcBegin, GcNext, GcRmdir, GcUnlink
  <2> QED
    BY <2>2, <2>3
<1>5. UNCHANGED vars => proc'[p] = proc[p]
  BY DEF vars
<1> QED
  BY <1>1, <1>2, <1>3, <1>4, <1>5 DEF Next

LEMMA LinkedStep ==
  ASSUME IndInv, Linked, [Next]_vars
  PROVE  Linked'
<1>1. ASSUME NEW p \in Process, proc'[p].pc \in {"unlink", "symlink"}
      PROVE  /\ proc'[p].root \in Root
             /\ Complete(cas'[proc'[p].root]) \/ proc'[p].root \in condemned'
  <2>1. /\ proc'[p].root = proc[p].root /\ proc[p].root \in Root
        /\ Complete(cas'[proc[p].root]) \/ Present(proc[p].root)
    BY <1>1, LinksWhatItSaved DEF Linked
  <2>2. CASE Present(proc[p].root)
    <3> DEFINE r == proc[p].root
    <3>1. Complete(cas'[r]) \/ r \in condemned'
      BY <2>1, <2>2, PresentStays DEF Present
    <3> QED
      BY <2>1, <3>1
  <2> QED
    BY <2>1, <2>2
<1>2. \/ latest' = latest
      \/ \E m \in Model : latest' = [latest EXCEPT ![m] = NoRoot]
      \/ \E r \in Root : Present(r) /\ latest' = [latest EXCEPT ![ModelOf[r]] = r]
  <2>1. ASSUME NEW p \in Process, SaveUnlink(p)
        PROVE  \E m \in Model : latest' = [latest EXCEPT ![m] = NoRoot]
    <3>1. proc[p].root \in Root /\ ModelOf[proc[p].root] \in Model
      BY <2>1, StoreAssumption DEF SaveUnlink, Linked, At
    <3> QED
      BY <2>1, <3>1 DEF SaveUnlink
  <2>2. ASSUME NEW p \in Process, SaveSymlink(p)
        PROVE  \/ latest' = latest
               \/ \E r \in Root : Present(r) /\ latest' = [latest EXCEPT ![ModelOf[r]] = r]
    BY <2>2 DEF SaveSymlink, Linked, At
  <2> QED
    BY <2>1, <2>2 DEF Next, vars, SaveBegin, SaveWeights, SaveMetadata, SaveRename, Crash,
       GcBegin, GcNext, GcUnlink, GcRmdir
<1>3. \A r \in Root : Present(r) => Complete(cas'[r]) \/ r \in condemned'
  BY PresentStays DEF Present
<1>4. latest' \in [Model -> Root \cup {NoRoot}] /\ LatestWasWritten'
  <2>1. ASSUME NEW m \in Model, latest'[m] # NoRoot, latest'[m] = latest[m]
        PROVE  /\ ModelOf[latest'[m]] = m
               /\ Complete(cas'[latest'[m]]) \/ latest'[m] \in condemned'
    <3>1. latest[m] \in Root /\ ModelOf[latest[m]] = m /\ Present(latest[m])
      BY <2>1 DEF Linked, LatestWasWritten, Present
    <3> QED
      BY <1>3, <2>1, <3>1
  <2>2. CASE latest' = latest
    BY <2>1, <2>2 DEF Linked, LatestWasWritten
  <2>3. CASE \E m \in Model : latest' = [latest EXCEPT ![m] = NoRoot]
    BY <2>1, <2>3 DEF Linked, LatestWasWritten
  <2>4. CASE \E r \in Root : Present(r) /\ latest' = [latest EXCEPT ![ModelOf[r]] = r]
    <3>1. PICK r \in Root : Present(r) /\ latest' = [latest EXCEPT ![ModelOf[r]] = r]
      BY <2>4
    <3>2. ModelOf[r] \in Model
      BY StoreAssumption
    <3>3. latest' \in [Model -> Root \cup {NoRoot}]
      BY <3>1, <3>2 DEF Linked
    <3>4. \A m \in Model : \/ latest'[m] = latest[m]
                           \/ m = ModelOf[r] /\ latest'[m] = r
      BY <3>1, <3>2 DEF Linked
    <3>5. Complete(cas'[r]) \/ r \in condemned'
      BY <1>3, <3>1
    <3> QED
      BY <2>1, <3>3, <3>4, <3>5 DEF LatestWasWritten
  <2> QED
    BY <1>2, <2>2, <2>3, <2>4
<1> QED
  BY <1>1, <1>4 DEF Linked, Present

(* save links what it has written: wherever saves and collections are      *)
(* interrupted or overtaken, latest/<model> finds a complete checkpoint of *)
(* its model, or one that gc has begun to remove since.                    *)
THEOREM LinksAreWritten == Spec => []LatestWasWritten
<1>1. Init => Linked
  BY StoreAssumption DEF Init, Linked, LatestWasWritten, Idle
<1>2. IndInv /\ Linked /\ [Next]_vars => Linked'
  BY LinkedStep
<1>3. Linked => LatestWasWritten
  BY DEF Linked
<1> QED
  BY <1>1, <1>2, <1>3, Inductive, PTL DEF Spec

-----------------------------------------------------------------------------
(* The collection: whatever it has condemned or is going to has enough     *)
(* newer checkpoints that it spares. What it is going to remove is still   *)
(* as it was listed, for no save writes over it.                           *)
Spared(t) == {s \in Root \ condemned : cas[s].time > t}
Kept(r) == Cardinality(Spared(cas[r].time)) >= KeepLatest

Keeping ==
  /\ condemned \subseteq Root
  /\ NewestKept
  /\ \A p \in Process :
       /\ proc[p].remove \subseteq Root
       /\ proc[p].remove # {} => proc[p].pc \in {"gc", "rmtree"}
       /\ At(p, "rmtree") => proc[p].root \in Root \ proc[p].remove
       /\ \A r \in proc[p].remove : cas[r].time # 0 /\ Kept(r)

LEMMA Larger ==
  ASSUME NEW S, NEW T, S \subseteq T, T \subseteq Root, Cardinality(S) >= KeepLatest
  PROVE  Cardinality(T) >= KeepLatest
<1>1. IsFiniteSet(T)
  BY StoreAssumption, FS_Subset
<1>2. /\ IsFiniteSet(S) /\ Cardinality(S) <= Cardinality(T)
      /\ Cardinality(S) \in Nat /\ Cardinality(T) \in Nat
  BY <1>1, FS_Subset, FS_CardinalityType
<1> QED
  BY <1>2, StoreAssumption

(* Enough spared ones in any set of them will do.                          *)
LEMMA KeptBy ==
  ASSUME NEW r, NEW S \in SUBSET Root, Cardinality(S) >= KeepLatest,
         \A s \in S : s \notin condemned /\ cas[s].time > cas[r].time
  PROVE  Kept(r)
<1>1. S \subseteq Spared(cas[r].time) /\ Spared(cas[r].time) \subseteq Root
  BY DEF Spared
<1> QED
  BY <1>1, Larger DEF Kept

LEMMA KeptByNext ==
  ASSUME NEW r, NEW S \in SUBSET Root, Cardinality(S) >= KeepLatest,
         \A s \in S : s \notin condemned' /\ cas'[s].time > cas'[r].time
  PROVE  Kept(r)'
<1>1. S \subseteq Spared(cas[r].time)' /\ Spared(cas[r].time)' \subseteq Root
  BY DEF Spared
<1>2. Cardinality(Spared(cas[r].time)') >= KeepLatest
  BY <1>1, Larger
<1> QED
  BY <1>2 DEF Kept

(* What a list of checkpoints has too many of is kept: the newer ones of   *)
(* the list are spared, or one of them is kept by others newer still.      *)
LEMMA SurplusKept ==
  ASSUME IndInv, Keeping, NEW models, NEW r \in Surplus(Checkpoints(models))
  PROVE  r \in Root /\ cas[r].time # 0 /\ Kept(r)
<1> DEFINE newer == {s \in Checkpoints(models) : cas[s].time > cas[r].time}
<1>1. /\ r \in Root /\ cas[r].time # 0 /\ Cardinality(newer) >= KeepLatest
      /\ newer \in SUBSET Root
  BY DEF Surplus, Checkpoints
<1>2. CASE newer \cap condemned = {}
  BY <1>1, <1>2, KeptBy
<1>3. CASE newer \cap condemned # {}
  <2>1. PICK c \in newer : c \in condemned
    BY <1>3
  <2>2. c \in Root /\ cas[c].time # 0 /\ cas[c].time > cas[r].time
    BY <2>1 DEF Checkpoints
  <2> DEFINE S == Spared(cas[c].time)
  <2>3. Cardinality(S) >= KeepLatest
    BY <2>1, <2>2 DEF Keeping, NewestKept, Spared
  <2>4. \A s \in S : s \in Root /\ s \notin condemned /\ cas[s].time > cas[r].time
    <3>1. \A s \in Root : cas[s].time \in Nat
      BY DEF IndInv, Shape
    <3> QED
      BY <1>1, <2>2, <3>1 DEF Spared
  <2> HIDE DEF S
  <2>5. S \in SUBSET Root
    BY <2>4
  <2> QED
    BY <1>1, <2>3, <2>4, <2>5, KeptBy
<1> QED
  BY <1>1, <1>2, <1>3

(* Steps that leave the directories alone, and list nothing new.           *)
LEMMA KeepingSame ==
  ASSUME IndInv, Keeping, UNCHANGED <<cas, condemned>>, NEW q \in Process, NEW x,
         proc' = [proc EXCEPT ![q] = x],
         x.remove \subseteq proc[q].remove \/ x.remove = {},
         x.remove # {} => x.pc = "gc",
         x.pc # "rmtree"
  PROVE  Keeping'
<1>1. \A r : Kept(r)' = Kept(r)
  BY DEF Kept, Spared
<1>2. NewestKept' /\ condemned' \subseteq Root
  BY DEF Keeping, NewestKept
<1>3. proc'[q] = x /\ \A p \in Process : p # q => proc'[p] = proc[p]
  BY DEF IndInv, Shape
<1>4. ASSUME NEW p \in Process
      PROVE  /\ proc'[p].remove \subseteq Root
             /\ proc'[p].remove # {} => proc'[p].pc \in {"gc", "rmtree"}
             /\ At(p, "rmtree")' => proc'[p].root \in Root \ proc'[p].remove
             /\ \A r \in proc'[p].remove : cas'[r].time # 0 /\ Kept(r)'
  <2>1. CASE p = q
    BY <1>1, <1>3, <2>1 DEF Keeping, At
  <2>2. CASE p # q
    BY <1>1, <1>3, <2>2 DEF Keeping, At
  <2> QED
    BY <2>1, <2>2
<1> QED
  BY <1>2, <1>4 DEF Keeping

LEMMA KeepingStutter ==
  ASSUME Keeping, UNCHANGED <<cas, proc, condemned>>
  PROVE  Keeping'
<1>1. \A r : Kept(r)' = Kept(r)
  BY DEF Kept, Spared
<1> QED
  BY <1>1 DEF Keeping, NewestKept, At

LEMMA SavesKeep ==
  ASSUME IndInv, Keeping, NEW q \in Process, UNCHANGED <<cas, condemned>>,
         \/ \E r \in Root : SaveBegin(q, r)
         \/ SaveWeights(q) \/ SaveMetadata(q) \/ SaveRename(q)
         \/ SaveUnlink(q) \/ SaveSymlink(q)
         \/ Crash(q)
  PROVE  Keeping'
<1>1. Idle.remove = {} /\ Idle.pc = "idle"
  BY DEF Idle
<1>2. ASSUME NEW pc \in {"metadata", "rename", "unlink", "symlink"}, Goto(q, pc),
             proc[q].pc \notin {"gc", "rmtree"}
      PROVE  Keeping'
  <2> DEFINE x == [proc[q] EXCEPT !.pc = pc]
  <2>1. proc' = [proc EXCEPT ![q] = x]
    BY <1>2 DEF Goto, IndInv, Shape
  <2>2. x.pc = pc /\ x.remove = proc[q].remove /\ proc[q].remove = {}
    BY <1>2 DEF IndInv, Shape, Keeping
  <2> HIDE DEF x
  <2> QED
    BY <1>2, <2>1, <2>2, KeepingSame
<1>3. ASSUME proc' = [proc EXCEPT ![q] = Idle]
      PROVE  Keeping'
  BY <1>1, <1>3, KeepingSame
<1>4. ASSUME NEW r \in Root, SaveBegin(q, r)
      PROVE  Keeping'
  <2> DEFINE x == [Idle EXCEPT !.pc = "weights", !.root = r]
  <2>1. x.pc = "weights" /\ x.remove = {}
    BY DEF Idle
  <2>2. CASE cas[r].exists
    <3>1. proc' = [proc EXCEPT ![q] = Idle] \/ proc' = proc
      BY <1>4, <2>2 DEF SaveBegin
    <3>2. CASE proc' = proc
      BY <3>2, KeepingStutter
    <3> QED
      BY <1>3, <3>1, <3>2
  <2>3. CASE ~cas[r].exists
    <3>1. proc' = [proc EXCEPT ![q] = x]
      BY <1>4, <2>3 DEF SaveBegin
    <3> HIDE DEF x
    <3> QED
      BY <2>1, <3>1, KeepingSame
  <2> QED
    BY <2>2, <2>3
<1>5. CASE SaveWeights(q) \/ SaveMetadata(q) \/ SaveUnlink(q)
  BY <1>2, <1>5 DEF SaveWeights, SaveMetadata, SaveUnlink, At
<1>6. CASE SaveRename(q)
  BY <1>2, <1>3, <1>6 DEF SaveRename, At
<1>7. CASE SaveSymlink(q) \/ Crash(q)
  BY <1>3, <1>7 DEF SaveSymlink, Crash
<1> QED
  BY <1>4, <1>5, <1>6, <1>7

(* A renamed directory has nothing that was listed, and may be spared.     *)
LEMMA RenameKeeps ==
  ASSUME IndInv, Keeping, NEW q \in Process, SaveRename(q)
  PROVE  Keeping'
<1> DEFINE r == proc[q].root
<1>1. r \in Root /\ At(q, "rename") /\ proc[q].remove = {}
  BY DEF IndInv, SaveProgress, SaveRename, At, Keeping
<1>2. CASE cas[r] \in {NoDir, EmptyDir}
  <2>1. /\ cas' = [cas EXCEPT ![r] = tmp[q]] /\ condemned' = condemned \ {r}
        /\ proc' = [proc EXCEPT ![q].pc = "unlink"] /\ cas[r].time = 0
    BY <1>2 DEF SaveRename, Goto, NoDir, EmptyDir
  <2>2. \A s \in Root : cas[s].time \in Nat /\ (s # r => cas'[s] = cas[s])
    BY <2>1 DEF IndInv, Shape
  <2>3. ASSUME NEW c \in Root, c # r, Kept(c)
        PROVE  Kept(c)'
    <3> DEFINE S == Spared(cas[c].time)
    <3>1. \A s \in S : /\ s \in Root /\ s # r /\ s \notin condemned
                       /\ cas[s].time > cas[c].time
      BY <2>1, <2>2 DEF Spared
    <3>2. Cardinality(S) >= KeepLatest
      BY <2>3 DEF Kept
    <3> HIDE DEF S
    <3>3. S \in SUBSET Root /\ \A s \in S : s \notin condemned' /\ cas'[s].time > cas'[c].time
      BY <2>1, <2>2, <2>3, <3>1
    <3> QED
      BY <3>2, <3>3, KeptByNext
  <2>4. condemned' \subseteq Root /\ NewestKept'
    <3>1. ASSUME NEW c \in condemned', cas'[c].time # 0
          PROVE  Kept(c)'
      <4>1. c \in Root /\ c # r /\ c \in condemned /\ cas[c].time # 0
        BY <2>1, <2>2, <3>1 DEF Keeping
      <4>2. Kept(c)
        BY <4>1 DEF Keeping, NewestKept, Kept, Spared
      <4> QED
        BY <2>3, <4>1, <4>2
    <3> QED
      BY <2>1, <3>1 DEF Keeping, NewestKept, Kept, Spared
  <2>5. ASSUME NEW p \in Process
        PROVE  /\ proc'[p].remove = proc[p].remove /\ proc'[p].root = proc[p].root
               /\ proc'[p].pc = proc[p].pc \/ (p = q /\ proc'[p].pc = "unlink")
    BY <2>1 DEF IndInv, Shape
  <2>6. ASSUME NEW p \in Process
        PROVE  /\ proc'[p].remove \subseteq Root
               /\ proc'[p].remove # {} => proc'[p].pc \in {"gc", "rmtree"}
               /\ At(p, "rmtree")' => proc'[p].root \in Root \ proc'[p].remove
               /\ \A c \in proc'[p].remove : cas'[c].time # 0 /\ Kept(c)'
    <3>1. \A c \in proc[p].remove : c \in Root /\ c # r /\ cas'[c].time # 0 /\ Kept(c)'
      BY <2>1, <2>2, <2>3 DEF Keeping
    <3> QED
      BY <1>1, <2>5, <3>1 DEF Keeping, At
  <2> QED
    BY <2>4, <2>6 DEF Keeping
<1>3. CASE cas[r] \notin {NoDir, EmptyDir}
  BY <1>3, SavesKeep DEF SaveRename
<1> QED
  BY <1>2, <1>3

(* Listing, and going on with the list.                                    *)
LEMMA GcBeginKeeps ==
  ASSUME IndInv, Keeping, NEW q \in Process, NEW models, GcBegin(q, models)
  PROVE  Keeping'
<1> DEFINE surplus == Surplus(Checkpoints(models))
<1>1. /\ proc' = [proc EXCEPT ![q] = [Idle EXCEPT !.pc = "gc", !.remove = surplus]]
      /\ UNCHANGED <<cas, condemned>>
  BY DEF GcBegin
<1>2. \A r \in surplus : r \in Root /\ cas[r].time # 0 /\ Kept(r)
  BY SurplusKept
<1> HIDE DEF surplus
<1>3. /\ proc'[q] = [pc |-> "gc", root |-> NoRoot, remove |-> surplus, files |-> {}]
      /\ \A p \in Process : p # q => proc'[p] = proc[p]
  BY <1>1 DEF IndInv, Shape, Idle
<1>4. \A r : Kept(r)' = Kept(r)
  BY <1>1 DEF Kept, Spared
<1>5. NewestKept' /\ condemned' \subseteq Root
  BY <1>1 DEF Keeping, NewestKept
<1>6. ASSUME NEW p \in Process
      PROVE  /\ proc'[p].remove \subseteq Root
             /\ proc'[p].remove # {} => proc'[p].pc \in {"gc", "rmtree"}
             /\ At(p, "rmtree")' => proc'[p].root \in Root \ proc'[p].remove
             /\ \A r \in proc'[p].remove : cas'[r].time # 0 /\ Kept(r)'
  <2>1. CASE p = q
    <3>1. proc'[p].remove = surplus /\ proc'[p].pc = "gc"
      BY <1>3, <2>1
    <3> QED
      BY <1>1, <1>2, <1>4, <3>1 DEF At
  <2>2. CASE p # q
    BY <1>1, <1>3, <1>4, <2>2 DEF Keeping, At
  <2> QED
    BY <2>1, <2>2
<1> QED
  BY <1>5, <1>6 DEF Keeping

LEMMA GcNextKeeps ==
  ASSUME IndInv, Keeping, NEW q \in Process, GcNext(q)
  PROVE  Keeping'
<1>1. cas' = cas /\ proc[q].pc = "gc"
  BY DEF GcNext, At
<1>2. CASE proc' = [proc EXCEPT ![q] = Idle] /\ UNCHANGED condemned
  <2>1. Idle.remove = {} /\ Idle.pc = "idle"
    BY DEF Idle
  <2> QED
    BY <1>1, <1>2, <2>1, KeepingSame
<1>3. ASSUME NEW r, proc' = [proc EXCEPT ![q].remove = @ \ {r}], UNCHANGED condemned
      PROVE  Keeping'
  <2> DEFINE x == [proc[q] EXCEPT !.remove = @ \ {r}]
  <2>1. proc' = [proc EXCEPT ![q] = x]
    BY <1>3
  <2>2. x.remove = proc[q].remove \ {r} /\ x.pc = "gc"
    BY <1>1 DEF IndInv, Shape
  <2> HIDE DEF x
  <2> QED
    BY <1>1, <1>3, <2>1, <2>2, KeepingSame
<1>4. ASSUME NEW r \in proc[q].remove,
             proc' = [proc EXCEPT ![q] = [pc |-> "rmtree", root |-> r,
                        remove |-> proc[q].remove \ {r}, files |-> Files(cas[r])]],
             condemned' = condemned \cup {r}
      PROVE  Keeping'
  <2>1. r \in Root /\ cas[r].time # 0 /\ Kept(r)
    BY DEF Keeping
  <2>2. \A s \in Root : cas[s].time \in Nat
    BY DEF IndInv, Shape
  <2>3. ASSUME NEW c \in Root, Kept(c)
        PROVE  Kept(c)'
    <3>1. CASE cas[r].time > cas[c].time
      <4> DEFINE S == Spared(cas[r].time)
      <4>1. \A s \in S : s \in Root /\ s # r /\ s \notin condemned /\ cas[s].time > cas[r].time
        BY <2>1, <2>2 DEF Spared
      <4>2. Cardinality(S) >= KeepLatest
        BY <2>1 DEF Kept
      <4> HIDE DEF S
      <4>3. S \in SUBSET Root /\ \A s \in S : s \notin condemned' /\ cas'[s].time > cas'[c].time
        BY <1>1, <1>4, <2>1, <2>2, <3>1, <4>1
      <4> QED
        BY <4>2, <4>3, KeptByNext
    <3>2. CASE ~ (cas[r].time > cas[c].time)
      <4> DEFINE S == Spared(cas[c].time)
      <4>1. \A s \in S : s \in Root /\ s # r /\ s \notin condemned /\ cas[s].time > cas[c].time
        BY <3>2 DEF Spared
      <4>2. Cardinality(S) >= KeepLatest
        BY <2>3 DEF Kept
      <4> HIDE DEF S
      <4>3. S \in SUBSET Root /\ \A s \in S : s \notin condemned' /\ cas'[s].time > cas'[c].time
        BY <1>1, <1>4, <4>1
      <4> QED
        BY <4>2, <4>3, KeptByNext
    <3> QED
      BY <3>1, <3>2
  <2>4. condemned' \subseteq Root /\ NewestKept'
    <3>1. ASSUME NEW c \in condemned', cas'[c].time # 0
          PROVE  Kept(c)'
      <4>1. CASE c = r
        BY <2>1, <2>3, <4>1
      <4>2. CASE c # r
        <5>1. c \in condemned /\ c \in Root /\ Kept(c)
          BY <1>1, <1>4, <3>1, <4>2 DEF Keeping, NewestKept, Kept, Spared
        <5> QED
          BY <2>3, <5>1
      <4> QED
        BY <4>1, <4>2
    <3> QED
      BY <1>4, <2>1, <3>1 DEF Keeping, NewestKept, Kept, Spared
  <2>5. /\ proc'[q].pc = "rmtree" /\ proc'[q].root = r /\ proc'[q].remove = proc[q].remove \ {r}
        /\ \A p \in Process : p # q => proc'[p] = proc[p]
    BY <1>4 DEF IndInv, Shape
  <2>6. ASSUME NEW p \in Process
        PROVE  /\ proc'[p].remove \subseteq Root
               /\ proc'[p].remove # {} => proc'[p].pc \in {"gc", "rmtree"}
               /\ At(p, "rmtree")' => proc'[p].root \in Root \ proc'[p].remove
               /\ \A c \in proc'[p].remove : cas'[c].time # 0 /\ Kept(c)'
    <3>1. \A c \in proc[p].remove : c \in Root /\ cas'[c].time # 0 /\ Kept(c)'
      BY <1>1, <2>3 DEF Keeping
    <3>2. CASE p = q
      BY <2>1, <2>5, <3>1, <3>2 DEF Keeping, At
    <3>3. CASE p # q
      BY <2>5, <3>1, <3>3 DEF Keeping, At
    <3> QED
      BY <3>2, <3>3
  <2> QED
    BY <2>4, <2>6 DEF Keeping
<1> QED
  BY <1>2, <1>3, <1>4 DEF GcNext

(* Removing a condemned directory takes nothing that was spared, and only  *)
(* one process has a list of what to remove.                               *)
LEMMA RemovalKeeps ==
  ASSUME IndInv, Keeping, NEW q \in Collector, condemned' = condemned, At(q, "rmtree"),
         proc[q].root \in condemned \/ cas'[proc[q].root].time = cas[proc[q].root].time,
         cas'[proc[q].root].time \in {0, cas[proc[q].root].time},
         \A s \in Root : s # proc[q].root => cas'[s] = cas[s],
         \A p \in Process : p # q => proc'[p] = proc[p],
         proc'[q].remove \in {{}, proc[q].remove},
         proc'[q].remove # {} => proc'[q].pc \in {"gc", "rmtree"},
         proc'[q].pc = "rmtree" => proc'[q].root = proc[q].root
  PROVE  Keeping'
<1> DEFINE r == proc[q].root
<1>1. r \in Root \ proc[q].remove /\ q \in Process
  BY StoreAssumption DEF Keeping
<1>2. \A s \in Root : cas[s].time \in Nat
  BY DEF IndInv, Shape
<1>3. ASSUME NEW c \in Root, Kept(c), cas'[c].time = cas[c].time
      PROVE  Kept(c)'
  <2> DEFINE S == Spared(cas[c].time)
  <2>1. /\ \A s \in S : s \in Root /\ s \notin condemned /\ cas[s].time > cas[c].time
        /\ Cardinality(S) >= KeepLatest
    BY <1>3 DEF Spared, Kept
  <2> HIDE DEF S
  <2>2. S \in SUBSET Root /\ \A s \in S : s \notin condemned' /\ cas'[s].time > cas'[c].time
    BY <1>1, <1>3, <2>1
  <2> QED
    BY <2>1, <2>2, KeptByNext
<1>4. condemned' \subseteq Root /\ NewestKept'
  <2>1. ASSUME NEW c \in condemned', cas'[c].time # 0
        PROVE  Kept(c)'
    <3>1. c \in Root /\ c \in condemned /\ cas'[c].time = cas[c].time
      BY <1>1, <2>1 DEF Keeping
    <3>2. Kept(c)
      BY <2>1, <3>1 DEF Keeping, NewestKept, Kept, Spared
    <3> QED
      BY <1>3, <3>1, <3>2
  <2> QED
    BY <2>1 DEF Keeping, NewestKept, Kept, Spared
<1>5. ASSUME NEW p \in Process, proc[p].remove # {}
      PROVE  p = q
  <2>1. p \in Collector
    BY <1>5 DEF IndInv, GcOnlyCollector, Keeping
  <2> QED
    BY <2>1, StoreAssumption
<1>6. ASSUME NEW p \in Process
      PROVE  /\ proc'[p].remove \subseteq Root
             /\ proc'[p].remove # {} => proc'[p].pc \in {"gc", "rmtree"}
             /\ At(p, "rmtree")' => proc'[p].root \in Root \ proc'[p].remove
             /\ \A c \in proc'[p].remove : cas'[c].time # 0 /\ Kept(c)'
  <2>1. \A c \in proc[q].remove : c \in Root /\ cas'[c].time # 0 /\ Kept(c)'
    BY <1>1, <1>3 DEF Keeping
  <2>2. CASE p = q
    BY <1>1, <2>1, <2>2 DEF Keeping, At
  <2>3. CASE p # q
    BY <1>5, <2>3 DEF Keeping, At
  <2> QED
    BY <2>2, <2>3
<1> QED
  BY <1>4, <1>6 DEF Keeping

LEMMA GcUnlinkKeeps ==
  ASSUME IndInv, Keeping, NEW q \in Collector, NEW file \in {"weights", "metadata"},
         GcUnlink(q, file)
  PROVE  Keeping'
<1> DEFINE r == proc[q].root
<1>1. q \in Process
  BY StoreAssumption
<1>2. /\ At(q, "rmtree") /\ file \in proc[q].files /\ condemned' = condemned
      /\ proc' = [proc EXCEPT ![q].files = @ \ {file}]
      /\ cas' = [cas EXCEPT ![r] = IF file = "weights" THEN [@ EXCEPT !.weights = FALSE]
                                                      ELSE [@ EXCEPT !.time = 0]]
  BY DEF GcUnlink
<1>3. r \in condemned /\ r \in Root
  BY <1>1, <1>2 DEF IndInv, GcProgress, Keeping
<1>4. cas'[r].time \in {0, cas[r].time} /\ \A s \in Root : s # r => cas'[s] = cas[s]
  BY <1>2, <1>3 DEF IndInv, Shape
<1>5. /\ proc'[q].remove = proc[q].remove /\ proc'[q].pc = "rmtree" /\ proc'[q].root = r
      /\ \A p \in Process : p # q => proc'[p] = proc[p]
  BY <1>1, <1>2 DEF IndInv, Shape, At
<1> QED
  BY <1>2, <1>3, <1>4, <1>5, RemovalKeeps

LEMMA GcRmdirKeeps ==
  ASSUME IndInv, Keeping, NEW q \in Collector, GcRmdir(q)
  PROVE  Keeping'
<1> DEFINE r == proc[q].root
<1>1. q \in Process
  BY StoreAssumption
<1>2. At(q, "rmtree") /\ condemned' = condemned /\ r \in Root
  BY <1>1 DEF GcRmdir, Keeping
<1>3. CASE cas[r] = EmptyDir
  <2>1. /\ cas' = [cas EXCEPT ![r] = NoDir]
        /\ proc' = [proc EXCEPT ![q] = [Idle EXCEPT !.pc = "gc", !.remove = proc[q].remove]]
    BY <1>3 DEF GcRmdir
  <2>2. /\ cas'[r].time = 0 /\ cas[r].time = 0
        /\ \A s \in Root : s # r => cas'[s] = cas[s]
    BY <1>2, <1>3, <2>1 DEF IndInv, Shape, NoDir, EmptyDir
  <2>3. /\ proc'[q].remove = proc[q].remove /\ proc'[q].pc = "gc"
        /\ \A p \in Process : p # q => proc'[p] = proc[p]
    BY <1>1, <2>1 DEF IndInv, Shape, Idle
  <2> QED
    BY <1>2, <2>2, <2>3, RemovalKeeps
<1>4. CASE cas[r] # EmptyDir
  <2>1. proc' = [proc EXCEPT ![q] = Idle] /\ cas' = cas
    BY <1>4 DEF GcRmdir
  <2>2. Idle.remove = {} /\ Idle.pc = "idle"
    BY DEF Idle
  <2> QED
    BY <1>1, <1>2, <2>1, <2>2, KeepingSame
<1> QED
  BY <1>3, <1>4

LEMMA KeepingStep ==
  ASSUME IndInv, Keeping, [Next]_vars
  PROVE  Keeping'
<1>1. ASSUME NEW p \in Process,
             \/ \E r \in Root : SaveBegin(p, r)
             \/ SaveWeights(p) \/ SaveMetadata(p)
             \/ SaveUnlink(p) \/ SaveSymlink(p) \/ Crash(p)
      PROVE  Keeping'
  <2>1. UNCHANGED <<cas, condemned>>
    BY <1>1 DEF SaveBegin, SaveWeights, SaveMetadata, SaveUnlink, SaveSymlink, Crash
  <2> QED
    BY <1>1, <2>1, SavesKeep
<1>2. ASSUME NEW p \in Process, SaveRename(p)
      PROVE  Keeping'
  BY <1>2, RenameKeeps
<1>3. ASSUME NEW p \in Collector,
             \/ \E models \in {{m} : m \in Model} \cup {Model} : GcBegin(p, models)
             \/ GcNext(p) \/ GcRmdir(p)
             \/ \E file \in {"weights", "metadata"} : GcUnlink(p, file)
      PROVE  Keeping'
  <2>1. p \in Process
    BY StoreAssumption
  <2> QED
    BY <1>3, <2>1, GcBeginKeeps, GcNextKeeps, GcRmdirKeeps, GcUnlinkKeeps
<1>4. ASSUME UNCHANGED vars
      PROVE  Keeping'
  BY <1>4, KeepingStutter DEF vars
<1> QED
  BY <1>1, <1>2, <1>3, <1>4 DEF Next

(* gc spares the newest keep_latest checkpoints of whatever it removes,    *)
(* with processes saving while it runs, with collections that are          *)
(* interrupted and done again, and with collections of one model and of    *)
(* all of them.                                                            *)
THEOREM NewestSurvive == Spec => []NewestKept
<1>1. Init => Keeping
  BY DEF Init, Keeping, NewestKept, Idle, At
<1>2. IndInv /\ Keeping /\ [Next]_vars => Keeping'
  BY KeepingStep
<1>3. Keeping => NewestKept
  BY DEF Keeping
<1> QED
  BY <1>1, <1>2, <1>3, Inductive, PTL DEF Spec

-----------------------------------------------------------------------------
(* How many layers shard i + 1 gets, of n shards of t layers, and where    *)
(* the first i shards end.                                                 *)
Share(t, n, i) == (t \div n) + (IF i < t % n THEN 1 ELSE 0)
Bound(t, n) == [i \in Nat |-> i * (t \div n) + (IF i < t % n THEN i ELSE t % n)]

Layers(k) == [i \in 1..k |-> i - 1]

PipelineTypeOK ==
  /\ total \in Nat /\ n_shards \in Nat /\ start \in Nat
  /\ status \in {"model", "splitting", "executor"}
  /\ shards \in Seq([layer_start : Nat, layer_end : Nat])
  /\ calls \in [Caller -> [phase : {"idle", "running", "returned"}, async : BOOLEAN,
                           stage : Nat, activation : Seq(Nat)]]

ShardsMeet ==
  LET B == Bound(total, n_shards)
  IN /\ status # "model" => n_shards \in 1..total /\ Len(shards) <= n_shards /\ start = B[Len(shards)]
     /\ status = "model" => shards = <<>> /\ start = 0
     /\ status = "executor" => Len(shards) = n_shards
     /\ \A i \in Nat : i < Len(shards) => shards[i + 1] = [layer_start |-> B[i], layer_end |-> B[i + 1]]

(* A running call has passed the first d stages. *)
Advanced(call) ==
  /\ call.phase # "idle" => status = "executor"
  /\ call.phase = "running" =>
       \E d \in Nat : /\ d <= n_shards /\ call.stage = d + 1
                      /\ call.activation = Layers(Bound(total, n_shards)[d])
  /\ call.phase = "returned" => call.activation = Layers(total)

CallsAdvance == \A c \in Caller : Advanced(calls[c])

PipelineInv == PipelineTypeOK /\ ShardsMeet /\ CallsAdvance

LEMMA Divide ==
  \A t \in Nat : \A n \in 1..t :
    /\ t \div n \in Nat \ {0}
    /\ t % n \in 0..(n - 1)
    /\ t % n \in Nat
    /\ n * (t \div n) + (t % n) = t
<1> SUFFICES ASSUME NEW t \in Nat, NEW n \in 1..t
             PROVE  /\ t \div n \in Nat \ {0} /\ t % n \in 0..(n - 1) /\ t % n \in Nat
                    /\ n * (t \div n) + (t % n) = t
  OBVIOUS
<1>1. t = n * (t \div n) + (t % n) /\ t % n \in 0..(n - 1) /\ t \div n \in Int
  BY SMT
<1>2. t \div n \in Nat
  BY <1>1, SMT
<1>3. t \div n # 0
  BY <1>1, SMT
<1> QED BY <1>1, <1>2, <1>3

(* The bounds start at 0, end at the last layer, and no share is empty or  *)
(* more than one larger than another.                                      *)
EvenSplit(t, n) ==
  /\ Bound(t, n)[0] = 0 /\ Bound(t, n)[n] = t
  /\ \A i \in Nat : i <= n => Bound(t, n)[i] \in Nat
  /\ \A i \in Nat : Bound(t, n)[i + 1] = Bound(t, n)[i] + Share(t, n, i)
  /\ \A i \in Nat : Share(t, n, i) \in Nat \ {0}
  /\ \A i, j \in Nat : Share(t, n, i) <= Share(t, n, j) + 1

LEMMA Bounds == \A t \in Nat : \A n \in 1..t : EvenSplit(t, n)
<1> TAKE t \in Nat
<1> TAKE n \in 1..t
<1> DEFINE q == t \div n
           r == t % n
           B == Bound(t, n)
           S(i) == Share(t, n, i)
<1>1. q \in Nat \ {0} /\ r \in 0..(n - 1) /\ n * q + r = t /\ n \in Nat
  <2>1. t \div n \in Nat \ {0} /\ t % n \in 0..(n - 1) /\ n * (t \div n) + (t % n) = t
    BY Divide
  <2> QED BY <2>1 DEF q, r
<1>2. \A i \in Nat : B[i] = i * q + (IF i < r THEN i ELSE r)
  BY DEF Bound
<1>3. \A i \in Nat : S(i) = q + (IF i < r THEN 1 ELSE 0)
  BY DEF Share
<1> HIDE DEF q, r, B, S
<1>4. B[0] = 0
  BY <1>1, <1>2
<1>5. B[n] = t
  <2>1. n \in Nat /\ ~(n < r)
    BY <1>1
  <2>2. B[n] = n * q + r
    BY <1>2, <2>1
  <2> QED BY <1>1, <2>2
<1>6. \A i \in Nat : i * q \in Nat /\ (i + 1) * q = i * q + q
  BY <1>1
<1>7. \A i \in Nat : B[i] \in Nat
  BY <1>1, <1>2, <1>6
<1>8. \A i \in Nat : B[i + 1] = B[i] + S(i)
  <2> TAKE i \in Nat
  <2>1. B[i + 1] = (i + 1) * q + (IF i + 1 < r THEN i + 1 ELSE r)
    BY <1>2
  <2>2. B[i] = i * q + (IF i < r THEN i ELSE r)
    BY <1>2
  <2>3. i * q \in Nat /\ (i + 1) * q = i * q + q
    BY <1>6
  <2>4. S(i) = q + (IF i < r THEN 1 ELSE 0)
    BY <1>3
  <2> QED BY <1>1, <2>1, <2>2, <2>3, <2>4
<1>9. /\ \A i \in Nat : S(i) \in Nat \ {0}
      /\ \A i, j \in Nat : S(i) <= S(j) + 1
  BY <1>1, <1>3
<1> QED BY <1>4, <1>5, <1>7, <1>8, <1>9 DEF B, S, EvenSplit

(* A stage adds the layers up to its bound. *)
LEMMA LayersGrow ==
  \A a, b \in Nat : a <= b =>
    /\ Layers(b) \in Seq(Nat)
    /\ ShardForward([layer_start |-> a, layer_end |-> b], Layers(a)) = Layers(b)
<1> SUFFICES ASSUME NEW a \in Nat, NEW b \in Nat, a <= b
             PROVE  /\ Layers(b) \in Seq(Nat)
                    /\ ShardForward([layer_start |-> a, layer_end |-> b], Layers(a)) = Layers(b)
  OBVIOUS
<1> DEFINE more == [i \in 1..(b - a) |-> a + i - 1]
<1>1. Layers(a) \in Seq(Nat) /\ Len(Layers(a)) = a /\ more \in Seq(Nat) /\ Len(more) = b - a
  BY DEF Layers
<1>2. Layers(b) \in Seq(Nat) /\ Len(Layers(b)) = b
  BY DEF Layers
<1>3. /\ Layers(a) \o more \in Seq(Nat) /\ Len(Layers(a) \o more) = b
      /\ \A i \in 1..b : (Layers(a) \o more)[i] = IF i <= a THEN Layers(a)[i] ELSE more[i - a]
  BY <1>1
<1>4. \A i \in 1..b : (Layers(a) \o more)[i] = Layers(b)[i]
  BY <1>3 DEF Layers
<1>5. Layers(a) \o more = Layers(b)
  BY <1>2, <1>3, <1>4, SeqEqual
<1> QED BY <1>2, <1>5 DEF ShardForward

LEMMA PipelineStarts == PipelineInit => PipelineInv
BY DEF PipelineInit, PipelineInv, PipelineTypeOK, ShardsMeet, CallsAdvance, Advanced, NoCall

LEMMA SplitStep ==
  ASSUME PipelineInv,
         \/ \E layers \in 1..MaxLayers, n \in 1..MaxLayers : SplitModel(layers, n)
         \/ NextShard
         \/ \E sending, receiving \in SUBSET (1..n_shards) : BuildExecutor(sending, receiving)
  PROVE  PipelineInv'
<1> USE MaxLayersAssumption DEF PipelineInv
<1>1. ASSUME NEW layers \in 1..MaxLayers, NEW n \in 1..MaxLayers, SplitModel(layers, n)
      PROVE  PipelineInv'
  <2>1. PipelineTypeOK' /\ CallsAdvance'
    BY <1>1 DEF SplitModel, PipelineTypeOK, CallsAdvance, Advanced
  <2>2. total' = layers /\ n_shards' = n /\ shards' = <<>> /\ start' = 0 /\ status' = "splitting" /\ n \in 1..layers
    BY <1>1 DEF SplitModel, ShardsMeet
  <2>3. Bound(layers, n)[0] = 0
    <3>1. EvenSplit(layers, n)
      BY <2>2, Bounds
    <3> QED BY <3>1 DEF EvenSplit
  <2>4. ShardsMeet'
    BY <2>2, <2>3 DEF ShardsMeet
  <2> QED BY <2>1, <2>4
<1>2. CASE NextShard
  <2> DEFINE k == Len(shards)
             B == Bound(total, n_shards)
             end == start + Share(total, n_shards, k)
  <2>1. /\ status = "splitting" /\ k < n_shards /\ k \in Nat /\ start \in Nat
        /\ total \in Nat /\ n_shards \in 1..total /\ start = B[k]
        /\ shards \in Seq([layer_start : Nat, layer_end : Nat])
        /\ UNCHANGED <<total, n_shards, status, calls>>
    BY <1>2 DEF NextShard, ShardTo, PipelineTypeOK, ShardsMeet
  <2>2. start + chunk_size + (IF k < remainder THEN 1 ELSE 0) = end
    <3>1. chunk_size \in Nat /\ remainder \in Nat
      <4>1. total \div n_shards \in Nat /\ total % n_shards \in Nat
        BY <2>1, Divide
      <4> QED BY <4>1 DEF chunk_size, remainder
    <3>2. Share(total, n_shards, k) = chunk_size + (IF k < remainder THEN 1 ELSE 0)
      BY DEF Share, chunk_size, remainder
    <3> DEFINE extra == IF k < remainder THEN 1 ELSE 0
    <3>3. extra \in Nat /\ Share(total, n_shards, k) = chunk_size + extra
      BY <3>2
    <3> HIDE DEF extra
    <3>4. start + (chunk_size + extra) = start + chunk_size + extra
      BY <2>1, <3>1, <3>3
    <3> QED BY <3>3, <3>4 DEF extra
  <2>3. start' = end /\ shards' = Append(shards, [layer_start |-> start, layer_end |-> end])
    BY <1>2, <2>2 DEF NextShard, ShardTo
  <2>4. end = B[k + 1] /\ end \in Nat
    <3>1. EvenSplit(total, n_shards)
      BY <2>1, Bounds
    <3>2. B[k + 1] = B[k] + Share(total, n_shards, k) /\ Share(total, n_shards, k) \in Nat
      BY <2>1, <3>1 DEF EvenSplit
    <3> QED BY <2>1, <3>2
  <2> HIDE DEF end, B
  <2>5. PipelineTypeOK'
    BY <2>1, <2>3, <2>4 DEF PipelineTypeOK
  <2>6. /\ Len(shards') = k + 1
        /\ \A i \in Nat : i < k => shards'[i + 1] = shards[i + 1]
        /\ shards'[k + 1] = [layer_start |-> B[k], layer_end |-> B[k + 1]]
    BY <2>1, <2>3, <2>4
  <2>7. \A i \in Nat : i < k => shards'[i + 1] = [layer_start |-> B[i], layer_end |-> B[i + 1]]
    BY <2>6 DEF ShardsMeet, B
  <2>8. \A i \in Nat : i < k + 1 => i < k \/ i = k
    BY <2>1
  <2>9. \A i \in Nat : i < Len(shards') => shards'[i + 1] = [layer_start |-> B[i], layer_end |-> B[i + 1]]
    BY <2>6, <2>7, <2>8
  <2>10. start' = B[Len(shards')] /\ Len(shards') <= n_shards
    BY <2>1, <2>3, <2>4, <2>6
  <2>11. ShardsMeet'
    BY <2>1, <2>9, <2>10 DEF ShardsMeet, B
  <2>12. CallsAdvance'
    BY <2>1 DEF CallsAdvance, Advanced
  <2> QED BY <2>5, <2>11, <2>12
<1>3. ASSUME NEW sending, NEW receiving, BuildExecutor(sending, receiving)
      PROVE  PipelineInv'
  BY <1>3 DEF BuildExecutor, PipelineTypeOK, ShardsMeet, CallsAdvance, Advanced
<1> QED BY <1>1, <1>2, <1>3

LEMMA CallStep ==
  ASSUME PipelineInv, NEW c \in Caller,
         \/ \E async \in BOOLEAN : Begin(c, async)
         \/ RunStage(c) \/ StageFails(c) \/ Return(c)
  PROVE  PipelineInv'
<1> USE DEF PipelineInv
<1> DEFINE B == Bound(total, n_shards)
           CallRecord == [phase : {"idle", "running", "returned"}, async : BOOLEAN,
                      stage : Nat, activation : Seq(Nat)]
<1>1. UNCHANGED splitVars
  BY DEF Begin, RunStage, StageFails, Return
<1>2. ShardsMeet'
  BY <1>1 DEF ShardsMeet, splitVars
<1>3. SUFFICES ASSUME TRUE
               PROVE  \E call \in CallRecord : calls' = [calls EXCEPT ![c] = call] /\ Advanced(call)
  <2>1. PICK call \in CallRecord : calls' = [calls EXCEPT ![c] = call] /\ Advanced(call)
    BY <1>3
  <2>2. PipelineTypeOK'
    BY <1>1, <2>1 DEF PipelineTypeOK, splitVars
  <2>3. \A d \in Caller : calls'[d] = IF d = c THEN call ELSE calls[d]
    BY <2>1 DEF PipelineTypeOK
  <2>4. \A d \in Caller : Advanced(calls'[d])
    BY <2>1, <2>3 DEF CallsAdvance
  <2>5. CallsAdvance'
    BY <1>1, <2>4 DEF CallsAdvance, Advanced, splitVars
  <2> QED BY <1>2, <2>2, <2>5
<1>4. calls[c] \in CallRecord /\ Advanced(calls[c])
  BY DEF PipelineTypeOK, CallsAdvance
<1>5. CASE \E async \in BOOLEAN : Begin(c, async)
  <2>1. PICK async \in BOOLEAN : Begin(c, async)
    BY <1>5
  <2> DEFINE call == [phase |-> "running", async |-> async, stage |-> 1, activation |-> <<>>]
  <2>2. status = "executor" /\ total \in Nat /\ n_shards \in 1..total
    BY <2>1 DEF Begin, ShardsMeet, PipelineTypeOK
  <2>3. Bound(total, n_shards)[0] = 0 /\ Layers(0) = <<>>
    <3>1. EvenSplit(total, n_shards)
      BY <2>2, Bounds
    <3> QED BY <3>1 DEF EvenSplit, Layers
  <2>4. call \in CallRecord /\ calls' = [calls EXCEPT ![c] = call]
    BY <2>1 DEF Begin
  <2>5. Advanced(call)
    <3>1. 0 \in Nat /\ 0 <= n_shards /\ call.stage = 0 + 1 /\ call.activation = Layers(Bound(total, n_shards)[0])
      BY <2>2, <2>3
    <3> QED BY <2>2, <3>1 DEF Advanced
  <2> QED BY <2>4, <2>5
<1>6. CASE RunStage(c)
  <2>1. calls[c].phase = "running" /\ calls[c].stage <= n_shards
    BY <1>6 DEF RunStage
  <2>2. PICK d \in Nat : /\ d <= n_shards /\ calls[c].stage = d + 1
                        /\ calls[c].activation = Layers(B[d])
    BY <1>4, <2>1 DEF Advanced
  <2>3. /\ status = "executor" /\ total \in Nat /\ n_shards \in 1..total
        /\ d < n_shards /\ d + 1 <= n_shards /\ d + 1 \in Nat /\ Len(shards) = n_shards
    BY <1>4, <2>1, <2>2 DEF Advanced, ShardsMeet, PipelineTypeOK
  <2>4. shards[d + 1] = [layer_start |-> B[d], layer_end |-> B[d + 1]]
    BY <2>2, <2>3 DEF ShardsMeet
  <2>5. B[d] \in Nat /\ B[d + 1] \in Nat /\ B[d] <= B[d + 1]
    <3>1. EvenSplit(total, n_shards)
      BY <2>3, Bounds
    <3>2. /\ B[d] \in Nat /\ B[d + 1] \in Nat
          /\ B[d + 1] = B[d] + Share(total, n_shards, d) /\ Share(total, n_shards, d) \in Nat
      BY <2>2, <2>3, <3>1 DEF EvenSplit
    <3> QED BY <3>2
  <2> DEFINE call == [calls[c] EXCEPT !.stage = d + 2, !.activation = Layers(B[d + 1])]
  <2>6. Layers(B[d + 1]) \in Seq(Nat) /\ ShardForward(shards[d + 1], Layers(B[d])) = Layers(B[d + 1])
    <3> DEFINE x == B[d]
               y == B[d + 1]
    <3>1. x \in Nat /\ y \in Nat /\ x <= y
      BY <2>5
    <3> HIDE DEF x, y
    <3>2. Layers(y) \in Seq(Nat) /\ ShardForward([layer_start |-> x, layer_end |-> y], Layers(x)) = Layers(y)
      BY <3>1, LayersGrow, Zenon
    <3> QED BY <2>4, <3>2 DEF x, y
  <2>7. calls' = [calls EXCEPT ![c] = call]
    <3>1. calls' = [calls EXCEPT ![c] = [calls[c] EXCEPT
                      !.stage = calls[c].stage + 1,
                      !.activation = ShardForward(shards[calls[c].stage], calls[c].activation)]]
      BY <1>6 DEF RunStage
    <3>2. (d + 1) + 1 = d + 2
      OBVIOUS
    <3> QED BY <2>2, <2>6, <3>1, <3>2
  <2>8. call \in CallRecord /\ Advanced(call)
    <3>1. call \in CallRecord
      <4>1. Layers(B[d + 1]) \in Seq(Nat) /\ d + 2 \in Nat
        BY <2>6
      <4> QED BY <1>4, <4>1
    <3>2. call.phase = "running" /\ call.stage = (d + 1) + 1 /\ call.activation = Layers(B[d + 1])
      BY <1>4, <2>1, <2>2
    <3> QED BY <2>3, <3>1, <3>2 DEF Advanced
  <2> QED BY <2>7, <2>8
<1>7. CASE StageFails(c)
  <2>1. NoCall \in CallRecord /\ Advanced(NoCall) /\ calls' = [calls EXCEPT ![c] = NoCall]
    BY <1>7 DEF StageFails, NoCall, Advanced
  <2> QED BY <2>1
<1>8. CASE Return(c)
  <2>1. calls[c].phase = "running" /\ calls[c].stage > n_shards
    BY <1>8 DEF Return
  <2>2. PICK d \in Nat : /\ d <= n_shards /\ calls[c].stage = d + 1
                        /\ calls[c].activation = Layers(B[d])
    BY <1>4, <2>1 DEF Advanced
  <2>3. status = "executor" /\ total \in Nat /\ n_shards \in 1..total /\ d = n_shards
    BY <1>4, <2>1, <2>2 DEF Advanced, ShardsMeet, PipelineTypeOK
  <2>4. calls[c].activation = Layers(total)
    <3>1. EvenSplit(total, n_shards)
      BY <2>3, Bounds
    <3>2. B[n_shards] = total
      BY <3>1 DEF EvenSplit
    <3>3. calls[c].activation = Layers(B[d]) /\ d = n_shards
      BY <2>2, <2>3
    <3> QED BY <3>2, <3>3, Zenon
  <2> DEFINE call == [calls[c] EXCEPT !.phase = "returned"]
  <2>5. call \in CallRecord /\ calls' = [calls EXCEPT ![c] = call]
    BY <1>4, <1>8 DEF Return
  <2>6. Advanced(call)
    BY <1>4, <2>3, <2>4 DEF Advanced
  <2> QED BY <2>5, <2>6
<1> QED BY <1>5, <1>6, <1>7, <1>8

(* split_model and PipelineExecutor keep the invariant behind both: where  *)
(* each shard starts, and which layers a call has applied by which stage.  *)
THEOREM PipelineSafety == PipelineSpec => []PipelineInv
<1>1. PipelineInv /\ [PipelineNext]_pipelineVars => PipelineInv'
  <2> SUFFICES ASSUME PipelineInv, [PipelineNext]_pipelineVars PROVE PipelineInv'
    OBVIOUS
  <2>1. CASE UNCHANGED pipelineVars
    BY <2>1 DEF pipelineVars, PipelineInv, PipelineTypeOK, ShardsMeet, CallsAdvance, Advanced
  <2> QED BY <2>1, SplitStep, CallStep DEF PipelineNext
<1> QED BY <1>1, PipelineStarts, PTL DEF PipelineSpec

(* For models of any size and any number of shards the shards of an        *)
(* executor cover the layers in order, and evenly.                         *)
THEOREM ShardsCoverModel == PipelineSpec => []SplitCoversModel
<1>1. PipelineInv => SplitCoversModel
  <2> SUFFICES ASSUME PipelineInv, status = "executor" PROVE SplitCoversModel
    BY DEF SplitCoversModel
  <2> DEFINE B == Bound(total, n_shards)
             W(i) == Share(total, n_shards, i)
  <2>1. /\ total \in Nat /\ n_shards \in 1..total /\ Len(shards) = n_shards /\ n_shards \in Nat
        /\ \A i \in Nat : i < n_shards => shards[i + 1] = [layer_start |-> B[i], layer_end |-> B[i + 1]]
    BY DEF PipelineInv, PipelineTypeOK, ShardsMeet
  <2>2. /\ B[0] = 0 /\ B[n_shards] = total
        /\ \A i \in Nat : i <= n_shards => B[i] \in Nat
        /\ \A i \in Nat : B[i + 1] = B[i] + W(i) /\ W(i) \in Nat \ {0}
        /\ \A i, j \in Nat : W(i) <= W(j) + 1
    <3>1. EvenSplit(total, n_shards)
      BY <2>1, Bounds
    <3> QED BY <3>1 DEF EvenSplit
  <2> HIDE DEF B, W
  <2>3. \A i \in 1..n_shards : \E p \in Nat : p + 1 = i /\ p < n_shards
    <3> TAKE i \in 1..n_shards
    <3>1. i - 1 \in Nat /\ (i - 1) + 1 = i /\ i - 1 < n_shards
      BY <2>1
    <3> QED BY <3>1
  <2>4. \A i \in Nat : i < n_shards => shards[i + 1].layer_start = B[i] /\ shards[i + 1].layer_end = B[i + 1]
    <3> SUFFICES ASSUME NEW i \in Nat, i < n_shards
                 PROVE  shards[i + 1].layer_start = B[i] /\ shards[i + 1].layer_end = B[i + 1]
      OBVIOUS
    <3>1. shards[i + 1] = [layer_start |-> B[i], layer_end |-> B[i + 1]]
      BY <2>1
    <3> QED BY <3>1
  <2>5. \A i \in Nat : i < n_shards => Size(i + 1) = W(i)
    <3> SUFFICES ASSUME NEW i \in Nat, i < n_shards PROVE Size(i + 1) = W(i)
      OBVIOUS
    <3>1. B[i] \in Nat
      BY <2>1, <2>2
    <3>2. W(i) \in Nat
      BY <2>2
    <3>3. B[i + 1] = B[i] + W(i)
      BY <2>2
    <3>4. Size(i + 1) = B[i + 1] - B[i]
      BY <2>4 DEF Size
    <3> QED BY <3>1, <3>2, <3>3, <3>4
  <2>6. shards[1].layer_start = 0
    <3>1. 0 \in Nat /\ 0 < n_shards /\ 0 + 1 = 1
      BY <2>1
    <3> QED BY <2>2, <2>4, <3>1
  <2>7. shards[n_shards].layer_end = total
    <3>1. PICK p \in Nat : p + 1 = n_shards /\ p < n_shards
      BY <2>1, <2>3
    <3> QED BY <2>2, <2>4, <3>1
  <2>8. \A i \in 1..(n_shards - 1) : shards[i + 1].layer_start = shards[i].layer_end
    <3> TAKE i \in 1..(n_shards - 1)
    <3>1. PICK p \in Nat : p + 1 = i /\ p < n_shards
      BY <2>1, <2>3
    <3>2. shards[i].layer_end = B[i]
      BY <2>4, <3>1
    <3>3. i \in Nat /\ i < n_shards
      BY <2>1
    <3> QED BY <2>4, <3>2, <3>3
  <2>9. \A i, j \in 1..n_shards : Size(i) > 0 /\ Size(i) <= Size(j) + 1
    <3> TAKE i, j \in 1..n_shards
    <3>1. PICK p \in Nat : p + 1 = i /\ p < n_shards
      BY <2>3
    <3>2. PICK q \in Nat : q + 1 = j /\ q < n_shards
      BY <2>3
    <3>3. Size(i) = W(p) /\ Size(j) = W(q)
      BY <2>5, <3>1, <3>2
    <3>4. W(p) \in Nat \ {0} /\ W(p) <= W(q) + 1
      BY <2>2
    <3> QED BY <3>3, <3>4
  <2> QED BY <2>1, <2>6, <2>7, <2>8, <2>9 DEF SplitCoversModel
<1> QED BY <1>1, PipelineSafety, PTL

(* For models of any size and whatever stages fail, a call that returns    *)
(* has applied the whole model.                                            *)
THEOREM ForwardAppliesModel == PipelineSpec => []ForwardIsWholeModel
<1>1. PipelineInv => ForwardIsWholeModel
  BY DEF PipelineInv, CallsAdvance, Advanced, ForwardIsWholeModel, Layers
<1> QED BY <1>1, PipelineSafety, PTL

-----------------------------------------------------------------------------
(* Evolution. *)

(* The configured quorums: two voters and 60 percent are enough.           *)
Quorate == MinVoters * ApprovalPct > 100

EvolutionTypeOK ==
  /\ genome \in [Peer -> Seq(Proposal)]
  /\ history \in [Peer -> Seq(Seq(Proposal))]
  /\ proposed \subseteq [id : Proposal, proposer : Peer,
                         base : Seq(Proposal), new : Seq(Proposal)]
  /\ votes \in [Peer -> [Proposal -> Seq(Vote)]]
  /\ sent \subseteq Vote /\ IsFiniteSet(sent)

(* A peer stores under a proposal only votes that were broadcast on it.    *)
StoredWereSent ==
  \A p \in Peer, id \in Proposal : \A i \in 1..Len(votes[p][id]) :
    votes[p][id][i] \in sent /\ votes[p][id][i].proposal = id

ByTwo(g) == \A i \in 1..Len(g) : Cardinality(Approvers(g[i])) >= 2

(* Of a genome that is proposed all but the last mutation were adopted.    *)
BasesByTwo ==
  \A q \in proposed : q.new = Append(q.base, q.id) /\ ByTwo(q.base)

CurrentIsHistory == \A p \in Peer : Contains(history[p], genome[p])

EvolutionInv ==
  /\ EvolutionTypeOK /\ StoredWereSent /\ BasesByTwo /\ AdoptedByTwo
  /\ CurrentIsHistory /\ VotesAreInformed

-----------------------------------------------------------------------------
LEMMA VotersFinite ==
  ASSUME NEW S, IsFiniteSet(S), NEW id
  PROVE  IsFiniteSet({v.voter : v \in {w \in S : w.proposal = id /\ w.decision = "approve"}})
<1> DEFINE yes == {w \in S : w.proposal = id /\ w.decision = "approve"}
           f == [v \in yes |-> v.voter]
<1>1. IsFiniteSet(yes)
  BY FS_Subset, yes \subseteq S
<1>2. f \in Surjection(yes, {v.voter : v \in yes})
  BY Zenon DEF Surjection
<1> HIDE DEF f, yes
<1>3. IsFiniteSet({v.voter : v \in yes})
  BY <1>1, <1>2, FS_Surjection
<1> QED
  BY <1>3 DEF yes

(* Votes are never taken back, so those who have approved only grow.       *)
LEMMA ApproversGrow ==
  ASSUME EvolutionTypeOK, sent \subseteq sent', IsFiniteSet(sent'), NEW id
  PROVE  /\ Approvers(id) \subseteq Approvers(id)'
         /\ IsFiniteSet(Approvers(id)')
         /\ Cardinality(Approvers(id)) \in Nat
         /\ Cardinality(Approvers(id)') \in Nat
         /\ Cardinality(Approvers(id)) <= Cardinality(Approvers(id)')
<1>1. Approvers(id) \subseteq Approvers(id)'
  BY DEF Approvers
<1>2. IsFiniteSet(Approvers(id)')
  BY VotersFinite DEF Approvers
<1> QED
  BY <1>1, <1>2, FS_Subset, FS_CardinalityType

LEMMA ByTwoKept ==
  ASSUME EvolutionTypeOK, sent \subseteq sent', IsFiniteSet(sent'),
         NEW g \in Seq(Proposal), ByTwo(g)
  PROVE  ByTwo(g)'
<1> SUFFICES ASSUME NEW i \in 1..Len(g)
             PROVE  Cardinality(Approvers(g[i])') >= 2
  BY DEF ByTwo
<1> QED
  BY ApproversGrow DEF ByTwo

LEMMA LastExists ==
  ASSUME NEW n \in Nat, NEW own \in SUBSET (1..n), own # {}
  PROVE  \E i \in own : \A j \in own : j <= i
<1>1. own \in SUBSET (0..n)
  OBVIOUS
<1> QED
  BY <1>1, GreatestBounded

(* A list of stored votes that is accepted holds approvals of two voters.  *)
LEMMA AcceptedByTwo ==
  ASSUME EvolutionInv, Quorate, NEW p \in Peer, NEW id \in Proposal,
         Accepted(votes[p][id])
  PROVE  Cardinality(Approvers(id)) >= 2
<1> DEFINE list == votes[p][id]
           decision == Counted(list)
           yes == {x \in DOMAIN decision : decision[x] = "approve"}
           own(x) == {i \in 1..Len(list) : list[i].voter = x}
           last(x) == CHOOSE i \in own(x) : \A j \in own(x) : j <= i
<1>1. list \in Seq(Vote)
  BY DEF EvolutionInv, EvolutionTypeOK
<1>2. yes \subseteq Approvers(id)
  <2> SUFFICES ASSUME NEW x \in yes  PROVE x \in Approvers(id)
    OBVIOUS
  <2>1. decision[x] = list[last(x)].decision /\ own(x) # {}
    BY DEF Counted
  <2>2. own(x) \in SUBSET (1..Len(list)) /\ Len(list) \in Nat
    BY <1>1
  <2>3. \E i \in own(x) : \A j \in own(x) : j <= i
    <3> HIDE DEF own, list
    <3> QED  BY <2>1, <2>2, LastExists
  <2>4. last(x) \in 1..Len(list) /\ list[last(x)].voter = x
    BY <2>3
  <2> QED
    BY <2>1, <2>4 DEF EvolutionInv, StoredWereSent, Approvers
<1>3. IsFiniteSet(DOMAIN decision) /\ yes \subseteq DOMAIN decision
  <2>1. IsFiniteSet(1..Len(list))
    BY <1>1, FS_Interval
  <2>2. IsFiniteSet({list[i].voter : i \in 1..Len(list)})
    <3> DEFINE f == [i \in 1..Len(list) |-> list[i].voter]
    <3>1. f \in Surjection(1..Len(list), {list[i].voter : i \in 1..Len(list)})
      BY Zenon DEF Surjection
    <3> HIDE DEF f
    <3> QED  BY <2>1, <3>1, FS_Surjection
  <2> QED
    BY <2>2 DEF Counted
<1>4. Cardinality(yes) >= 2
  <2>1. /\ Cardinality(DOMAIN decision) >= MinVoters
        /\ 100 * Cardinality(yes) >= ApprovalPct * Cardinality(DOMAIN decision)
    BY DEF Accepted
  <2>2. Cardinality(yes) \in Nat /\ Cardinality(DOMAIN decision) \in Nat
    BY <1>3, FS_Subset, FS_CardinalityType
  <2> HIDE DEF yes, decision
  <2>3. ApprovalPct * Cardinality(DOMAIN decision) >= ApprovalPct * MinVoters
    BY <2>1, <2>2, EvolutionAssumption
  <2> QED
    BY <2>1, <2>2, <2>3, EvolutionAssumption DEF Quorate
<1>5. IsFiniteSet(Approvers(id))
  BY VotersFinite DEF Approvers, EvolutionInv, EvolutionTypeOK
<1> QED
  BY <1>2, <1>4, <1>5, FS_Subset, FS_CardinalityType

-----------------------------------------------------------------------------
LEMMA ProposeStep ==
  ASSUME EvolutionInv, NEW p \in Peer, NEW id \in Proposal, ProposeMutation(p, id)
  PROVE  EvolutionInv'
<1> DEFINE q == [id |-> id, proposer |-> p, base |-> genome[p], new |-> Append(genome[p], id)]
<1> USE DEF EvolutionInv, EvolutionTypeOK
<1>1. /\ proposed' = proposed \cup {q}
      /\ votes' = [votes EXCEPT ![p][id] = << >>]
      /\ UNCHANGED <<genome, history, sent>>
  BY DEF ProposeMutation
<1>2. EvolutionTypeOK'
  <2>1. q \in [id : Proposal, proposer : Peer, base : Seq(Proposal), new : Seq(Proposal)]
    OBVIOUS
  <2>2. votes' \in [Peer -> [Proposal -> Seq(Vote)]]
    BY <1>1
  <2> HIDE DEF q
  <2> QED  BY <1>1, <2>1, <2>2
<1>3. StoredWereSent'
  <2> SUFFICES ASSUME NEW r \in Peer, NEW k \in Proposal, NEW i \in 1..Len(votes'[r][k])
               PROVE  votes'[r][k][i] \in sent' /\ votes'[r][k][i].proposal = k
    BY DEF StoredWereSent
  <2>1. votes'[r][k] = << >> \/ votes'[r][k] = votes[r][k]
    BY <1>1
  <2>2. votes'[r][k] # << >>
    OBVIOUS
  <2>3. i \in 1..Len(votes[r][k]) /\ votes'[r][k][i] = votes[r][k][i]
    BY <2>1, <2>2
  <2> QED
    BY <1>1, <2>3 DEF StoredWereSent
<1>4. BasesByTwo'
  <2>1. ByTwo(genome[p])
    BY DEF AdoptedByTwo, ByTwo
  <2>2. \A g : ByTwo(g)' <=> ByTwo(g)
    BY <1>1 DEF ByTwo, Approvers
  <2> QED
    BY <1>1, <2>1, <2>2 DEF BasesByTwo
<1>5. AdoptedByTwo' /\ CurrentIsHistory'
  BY <1>1 DEF AdoptedByTwo, Approvers, CurrentIsHistory
<1>6. VotesAreInformed'
  BY <1>1 DEF VotesAreInformed
<1> QED
  BY <1>2, <1>3, <1>4, <1>5, <1>6

LEMMA AppendedElement ==
  ASSUME NEW S, NEW list \in Seq(S), NEW x \in S, NEW longer,
         longer = Append(list, x), NEW i \in 1..Len(longer)
  PROVE  \/ i \in 1..Len(list) /\ longer[i] = list[i]
         \/ longer[i] = x
OBVIOUS

(* A peer that stores a vote that is, or now has been, broadcast.          *)
LEMMA RecordStep ==
  ASSUME EvolutionInv, NEW p \in Peer, NEW v \in Vote, Record(p, v),
         v \in sent', sent \subseteq sent', sent' \subseteq Vote, IsFiniteSet(sent'),
         UNCHANGED <<genome, history, proposed>>,
         \/ v \in sent
         \/ v.decision = "abstain"
         \/ \E q \in proposed : q.id = v.proposal /\ q.base = genome[p] /\ v.voter = p,
         sent' \subseteq sent \cup {v}
  PROVE  EvolutionInv'
<1> USE DEF EvolutionInv, EvolutionTypeOK
<1>1. votes' = [votes EXCEPT ![p][v.proposal] = Append(@, v)]
  BY Zenon DEF Record
<1>2. v.proposal \in Proposal
  BY DEF Vote
<1>3. EvolutionTypeOK'
  BY <1>1, <1>2
<1>4. StoredWereSent'
  <2> SUFFICES ASSUME NEW r \in Peer, NEW k \in Proposal, NEW i \in 1..Len(votes'[r][k])
               PROVE  votes'[r][k][i] \in sent' /\ votes'[r][k][i].proposal = k
    BY DEF StoredWereSent
  <2>1. \/ votes'[r][k] = votes[r][k]
        \/ k = v.proposal /\ votes'[r][k] = Append(votes[r][k], v)
    BY <1>1, <1>2
  <2>2. votes[r][k] \in Seq(Vote)
    OBVIOUS
  <2>3. \/ i \in 1..Len(votes[r][k]) /\ votes'[r][k][i] = votes[r][k][i]
        \/ k = v.proposal /\ votes'[r][k][i] = v
    <3>1. CASE votes'[r][k] = votes[r][k]
      BY <3>1
    <3>2. CASE k = v.proposal /\ votes'[r][k] = Append(votes[r][k], v)
      BY <2>2, <3>2, AppendedElement
    <3> QED
      BY <2>1, <3>1, <3>2
  <2> QED
    BY <2>3 DEF StoredWereSent
<1>5. BasesByTwo'
  BY ByTwoKept DEF BasesByTwo
<1>6. AdoptedByTwo'
  <2>1. \A r \in Peer : ByTwo(genome[r])
    BY DEF AdoptedByTwo, ByTwo
  <2>2. \A r \in Peer : ByTwo(genome[r])'
    BY <2>1, ByTwoKept
  <2> QED
    BY <2>2 DEF AdoptedByTwo, ByTwo
<1>7. CurrentIsHistory'
  BY DEF CurrentIsHistory
<1>8. VotesAreInformed'
  BY DEF VotesAreInformed, CurrentIsHistory
<1> QED
  BY <1>3, <1>4, <1>5, <1>6, <1>7, <1>8

LEMMA TallyStep ==
  ASSUME EvolutionInv, Quorate, NEW p \in Peer, NEW q \in proposed, TallyVotes(p, q)
  PROVE  EvolutionInv'
<1> USE DEF EvolutionInv, EvolutionTypeOK
<1>1. /\ genome' = [genome EXCEPT ![p] = q.new]
      /\ history' = [history EXCEPT ![p] = Append(@, q.new)]
      /\ Accepted(votes[p][q.id])
      /\ UNCHANGED <<proposed, known, votes, sent>>
  BY DEF TallyVotes
<1>2. q.id \in Proposal /\ q.base \in Seq(Proposal) /\ q.new = Append(q.base, q.id)
  BY DEF BasesByTwo
<1>3. EvolutionTypeOK'
  BY <1>1, <1>2
<1>4. StoredWereSent' /\ BasesByTwo'
  BY <1>1 DEF StoredWereSent, BasesByTwo, ByTwo, Approvers
<1>5. AdoptedByTwo'
  <2> SUFFICES ASSUME NEW r \in Peer, NEW i \in 1..Len(genome'[r])
               PROVE  Cardinality(Approvers(genome'[r][i])) >= 2
    BY <1>1 DEF AdoptedByTwo, Approvers
  <2>1. CASE r # p
    BY <1>1, <2>1 DEF AdoptedByTwo
  <2>2. CASE r = p
    <3>1. genome'[r] = Append(q.base, q.id)
      BY <1>1, <1>2, <2>2
    <3>2. \/ genome'[r][i] = q.id
          \/ i \in 1..Len(q.base) /\ genome'[r][i] = q.base[i]
      <4> HIDE DEF EvolutionInv, EvolutionTypeOK
      <4> DEFINE longer == genome'[r]
      <4>1. longer = Append(q.base, q.id) /\ i \in 1..Len(longer)
        BY <3>1
      <4> HIDE DEF longer
      <4>2. \/ i \in 1..Len(q.base) /\ longer[i] = q.base[i]
            \/ longer[i] = q.id
        BY <1>2, <4>1, AppendedElement
      <4> QED
        BY <4>2 DEF longer
    <3>3. Cardinality(Approvers(q.id)) >= 2
      BY <1>1, <1>2, AcceptedByTwo
    <3>4. ByTwo(q.base)
      BY DEF BasesByTwo
    <3> QED
      BY <3>2, <3>3, <3>4 DEF ByTwo
  <2> QED
    BY <2>1, <2>2
<1>6. \A r \in Peer : \A g : Contains(history[r], g) => Contains(history'[r], g)
  <2> SUFFICES ASSUME NEW r \in Peer, NEW g, NEW i \in 1..Len(history[r]), history[r][i] = g
               PROVE  Contains(history'[r], g)
    BY DEF Contains
  <2>1. history[r] \in Seq(Seq(Proposal)) /\ q.new \in Seq(Proposal)
    BY <1>2
  <2>2. history'[r] = history[r] \/ history'[r] = Append(history[r], q.new)
    <3>1. history' = [history EXCEPT ![p] = Append(@, q.new)] /\ DOMAIN history = Peer
      BY <1>1
    <3> HIDE DEF EvolutionInv, EvolutionTypeOK
    <3>2. CASE r = p
      BY <3>1, <3>2
    <3>3. CASE r # p
      BY <3>1, <3>3
    <3> QED
      BY <3>2, <3>3
  <2>3. i \in 1..Len(history'[r]) /\ history'[r][i] = g
    <3> DEFINE old == history[r]
               longer == history'[r]
    <3>1. old \in Seq(Seq(Proposal)) /\ q.new \in Seq(Proposal) /\ i \in 1..Len(old) /\ old[i] = g
      BY <2>1
    <3>2. longer = old \/ longer = Append(old, q.new)
      BY <2>2
    <3> HIDE DEF EvolutionInv, EvolutionTypeOK, old, longer
    <3>3. i \in 1..Len(longer) /\ longer[i] = g
      BY <3>1, <3>2
    <3> QED
      BY <3>3 DEF old, longer
  <2> QED
    BY <2>3 DEF Contains
<1>7. CurrentIsHistory'
  <2> SUFFICES ASSUME NEW r \in Peer  PROVE Contains(history'[r], genome'[r])
    BY DEF CurrentIsHistory
  <2>1. CASE r # p
    BY <1>1, <1>6, <2>1 DEF CurrentIsHistory
  <2>2. CASE r = p
    <3>1. history[p] \in Seq(Seq(Proposal)) /\ q.new \in Seq(Proposal)
      BY <1>2
    <3>2. history'[p] = Append(history[p], q.new) /\ genome'[p] = q.new
      BY <1>1
    <3>3. Len(history[p]) + 1 \in 1..Len(history'[p]) /\ history'[p][Len(history[p]) + 1] = q.new
      BY <3>1, <3>2
    <3> QED
      BY <2>2, <3>2, <3>3 DEF Contains
  <2> QED
    BY <2>1, <2>2
<1>8. VotesAreInformed'
  <2> SUFFICES ASSUME NEW v \in sent, v.decision # "abstain"
               PROVE  \E r \in proposed : r.id = v.proposal /\ Contains(history'[v.voter], r.base)
    BY <1>1 DEF VotesAreInformed
  <2>1. v.voter \in Peer
    BY DEF Vote
  <2> QED
    BY <1>6, <2>1 DEF VotesAreInformed
<1> QED
  BY <1>3, <1>4, <1>5, <1>7, <1>8

LEMMA EvolutionStep ==
  ASSUME EvolutionInv, Quorate, [EvolutionNext]_evolutionVars
  PROVE  EvolutionInv'
<1>1. ASSUME NEW p \in Peer, NEW id \in Proposal, ProposeMutation(p, id)
      PROVE  EvolutionInv'
  BY <1>1, ProposeStep
<1>2. ASSUME NEW p \in Peer, NEW q \in proposed, ReceiveProposal(p, q)
      PROVE  EvolutionInv'
  <2>1. PICK d \in Decisions(p, q) :
          LET v == [proposal |-> q.id, voter |-> p, decision |-> d] IN
            Record(p, v) /\ sent' = sent \cup {v}
    BY <1>2, Zenon DEF ReceiveProposal
  <2> DEFINE v == [proposal |-> q.id, voter |-> p, decision |-> d]
  <2>2. Record(p, v) /\ sent' = sent \cup {v} /\ UNCHANGED <<genome, history, proposed>>
    BY <1>2, <2>1, Zenon DEF ReceiveProposal
  <2>3. v \in Vote
    BY DEF Decisions, Vote, VoteDecision, EvolutionInv, EvolutionTypeOK
  <2>4. v.decision = "abstain" \/ (q.id = v.proposal /\ q.base = genome[p] /\ v.voter = p)
    BY DEF Decisions
  <2>5. IsFiniteSet(sent')
    BY <2>2, FS_AddElement DEF EvolutionInv, EvolutionTypeOK
  <2>6. sent \subseteq Vote
    BY DEF EvolutionInv, EvolutionTypeOK
  <2> HIDE DEF v
  <2> QED
    BY <2>2, <2>3, <2>4, <2>5, <2>6, RecordStep
<1>3. ASSUME NEW p \in Peer, NEW v \in sent, ReceiveVote(p, v)
      PROVE  EvolutionInv'
  <2>1. Record(p, v) /\ UNCHANGED <<genome, history, proposed, sent>>
    BY <1>3 DEF ReceiveVote
  <2>2. sent \subseteq Vote /\ IsFiniteSet(sent)
    BY DEF EvolutionInv, EvolutionTypeOK
  <2> QED
    BY <2>1, <2>2, RecordStep
<1>4. ASSUME NEW p \in Peer, NEW q \in proposed, TallyVotes(p, q)
      PROVE  EvolutionInv'
  BY <1>4, TallyStep
<1>5. ASSUME UNCHANGED evolutionVars  PROVE EvolutionInv'
  <2> USE <1>5 DEF evolutionVars
  <2>1. EvolutionTypeOK' /\ StoredWereSent'
    BY DEF EvolutionInv, EvolutionTypeOK, StoredWereSent
  <2>2. BasesByTwo' /\ AdoptedByTwo'
    BY DEF EvolutionInv, BasesByTwo, ByTwo, AdoptedByTwo, Approvers
  <2>3. CurrentIsHistory' /\ VotesAreInformed'
    BY DEF EvolutionInv, CurrentIsHistory, VotesAreInformed
  <2> QED
    BY <2>1, <2>2, <2>3 DEF EvolutionInv
<1> QED
  BY <1>1, <1>2, <1>3, <1>4, <1>5 DEF EvolutionNext

-----------------------------------------------------------------------------
LEMMA EvolutionInductive == Quorate => (EvolutionSpec => []EvolutionInv)
<1> SUFFICES ASSUME Quorate  PROVE EvolutionSpec => []EvolutionInv
  OBVIOUS
<1>1. EvolutionInit => EvolutionInv
  <2> SUFFICES ASSUME EvolutionInit  PROVE EvolutionInv
    OBVIOUS
  <2>1. EvolutionTypeOK
    BY FS_EmptySet DEF EvolutionInit, EvolutionTypeOK
  <2>2. CurrentIsHistory
    BY DEF EvolutionInit, CurrentIsHistory, Contains
  <2> QED
    BY <2>1, <2>2 DEF EvolutionInit, EvolutionInv, StoredWereSent, BasesByTwo, AdoptedByTwo,
       VotesAreInformed
<1>2. EvolutionInv /\ [EvolutionNext]_evolutionVars => EvolutionInv'
  BY EvolutionStep
<1> QED
  BY <1>1, <1>2, PTL DEF EvolutionSpec

(* With min_voters and the approval quorum such that their product exceeds *)
(* one voter, nobody adopts a mutation fewer than two peers approved of.   *)
THEOREM TwoApprove == Quorate => (EvolutionSpec => []AdoptedByTwo)
<1>1. EvolutionInv => AdoptedByTwo
  BY DEF EvolutionInv
<1> QED
  BY <1>1, EvolutionInductive, PTL

(* Who approves or rejects has used the genome the proposal was made for.  *)
THEOREM VotersKnowTheBase == Quorate => (EvolutionSpec => []VotesAreInformed)
<1>1. EvolutionInv => VotesAreInformed
  BY DEF EvolutionInv
<1> QED
  BY <1>1, EvolutionInductive, PTL

-----------------------------------------------------------------------------
(* Two lists of the same votes, without a change of mind, count the same.  *)
LEMMA OrderIsIrrelevant ==
  ASSUME NEW a \in Seq(Vote), NEW b \in Seq(Vote), ToSet(a) = ToSet(b), OneVoteEach(a)
  PROVE  Counted(a) = Counted(b)
<1> DEFINE own(list, x) == {i \in 1..Len(list) : list[i].voter = x}
           last(list, x) == CHOOSE i \in own(list, x) : \A j \in own(list, x) : j <= i
           voters(list) == {list[i].voter : i \in 1..Len(list)}
<1>1. /\ \A i \in 1..Len(a) : \E j \in 1..Len(b) : a[i] = b[j]
      /\ \A i \in 1..Len(b) : \E j \in 1..Len(a) : b[i] = a[j]
  <2>1. DOMAIN a = 1..Len(a) /\ DOMAIN b = 1..Len(b)
    OBVIOUS
  <2>2. {a[i] : i \in 1..Len(a)} = {b[i] : i \in 1..Len(b)}
    BY <2>1, Zenon DEF ToSet
  <2> QED
    BY <2>2, Zenon
<1>2. voters(a) = voters(b)
  <2>1. ASSUME NEW x \in voters(a)  PROVE x \in voters(b)
    <3>1. PICK i \in 1..Len(a) : x = a[i].voter
      BY Zenon
    <3>2. PICK j \in 1..Len(b) : a[i] = b[j]
      BY <1>1
    <3> QED
      BY <3>1, <3>2, Zenon
  <2>2. ASSUME NEW x \in voters(b)  PROVE x \in voters(a)
    <3>1. PICK i \in 1..Len(b) : x = b[i].voter
      BY Zenon
    <3>2. PICK j \in 1..Len(a) : b[i] = a[j]
      BY <1>1
    <3> QED
      BY <3>1, <3>2, Zenon
  <2> HIDE DEF voters
  <2> QED
    BY <2>1, <2>2
<1>3. ASSUME NEW list \in Seq(Vote), NEW x \in voters(list)
      PROVE  last(list, x) \in own(list, x)
  <2>1. own(list, x) \in SUBSET (1..Len(list)) /\ own(list, x) # {} /\ Len(list) \in Nat
    OBVIOUS
  <2>2. \E i \in own(list, x) : \A j \in own(list, x) : j <= i
    <3> HIDE DEF own
    <3> QED  BY <2>1, LastExists
  <2> QED
    BY <2>2
<1>4. ASSUME NEW x \in voters(a)
      PROVE  a[last(a, x)].decision = b[last(b, x)].decision
  <2>1. last(a, x) \in 1..Len(a) /\ a[last(a, x)].voter = x
    BY <1>3
  <2>2. last(b, x) \in 1..Len(b) /\ b[last(b, x)].voter = x
    BY <1>2, <1>3
  <2> HIDE DEF last
  <2>3. PICK j \in 1..Len(a) : b[last(b, x)] = a[j]
    BY <1>1, <2>2
  <2> QED
    BY <2>1, <2>2, <2>3 DEF OneVoteEach
<1>5. /\ Counted(a) = [x \in voters(a) |-> a[last(a, x)].decision]
      /\ Counted(b) = [x \in voters(b) |-> b[last(b, x)].decision]
  BY Zenon DEF Counted
<1> HIDE DEF last, voters
<1> QED
  BY <1>2, <1>4, <1>5

(* Peers that hold the same votes decide alike, however these arrived.     *)
THEOREM VotesDecide == Quorate => (EvolutionSpec => []SameVotesSameOutcome)
<1>1. EvolutionInv => SameVotesSameOutcome
  <2> SUFFICES ASSUME EvolutionInv, NEW p \in Peer, NEW q \in Peer, NEW id \in Proposal,
                      ToSet(votes[p][id]) = ToSet(votes[q][id]), OneVoteEach(votes[p][id])
               PROVE  Accepted(votes[p][id]) <=> Accepted(votes[q][id])
    BY DEF SameVotesSameOutcome
  <2>1. votes[p][id] \in Seq(Vote) /\ votes[q][id] \in Seq(Vote)
    BY DEF EvolutionInv, EvolutionTypeOK
  <2>2. Counted(votes[p][id]) = Counted(votes[q][id])
    BY <2>1, OrderIsIrrelevant
  <2> QED
    BY <2>2 DEF Accepted
<1> QED
  BY <1>1, EvolutionInductive, PTL

-----------------------------------------------------------------------------
(* What a gene compiles to: none, one or two modules.                      *)
LEMMA ModulesKinds ==
  ASSUME NEW gene
  PROVE  /\ ModulesOf(gene) \in Seq({ModulesOf(gene)[1], ModulesOf(gene)[2]})
         /\ Len(ModulesOf(gene)) >= 1 => gene.type \in Parametric
         /\ Len(ModulesOf(gene)) = 1 => ModulesOf(gene)[1][1] \in {"linear", "norm"}
<1>1. CASE gene.type = "linear"
  <2>1. ModulesOf(gene) = << <<"linear", gene.in, gene.out>> >>
    BY <1>1 DEF ModulesOf
  <2> QED
    BY <1>1, <2>1 DEF Parametric
<1>2. CASE gene.type = "attention"
  <2>1. ModulesOf(gene) = << <<"attention", gene.in>>, <<"linear", gene.in, gene.in>> >>
    BY <1>2 DEF ModulesOf
  <2> QED
    BY <1>2, <2>1 DEF Parametric
<1>3. CASE gene.type = "norm"
  <2>1. ModulesOf(gene) = << <<"norm", gene.in>> >>
    BY <1>3 DEF ModulesOf
  <2> QED
    BY <1>3, <2>1 DEF Parametric
<1>4. CASE gene.type = "feedforward"
  <2>1. ModulesOf(gene) = << <<"linear", gene.in, gene.out>>, <<"linear", gene.out, gene.in>> >>
    BY <1>4 DEF ModulesOf
  <2> QED
    BY <1>4, <2>1 DEF Parametric
<1>5. CASE gene.type \notin Parametric
  <2>1. ModulesOf(gene) = << >>
    BY <1>5 DEF ModulesOf, Parametric
  <2> QED
    BY <2>1
<1> QED
  BY <1>1, <1>2, <1>3, <1>4, <1>5 DEF Parametric

(* Lists put together from their pieces, as Compile and Initialised do.    *)
Joins(f, pieces, n) == f = [k \in 0..n |-> IF k = 0 THEN << >> ELSE f[k - 1] \o pieces[k]]

(* There is such a list of lists for any pieces.                           *)
LEMMA JoinExists ==
  ASSUME NEW n \in Nat, NEW pieces
  PROVE  \E f : Joins(f, pieces, n)
<1> DEFINE bad == {m \in Nat : ~ \E f : Joins(f, pieces, m)}
<1>1. bad = {}
  <2> SUFFICES ASSUME bad # {}  PROVE FALSE
    OBVIOUS
  <2>1. bad \in SUBSET Nat
    OBVIOUS
  <2>2. PICK m \in bad : \A e \in bad : m <= e
    BY <2>1, LeastNatural
  <2>3. m \in Nat /\ ~ \E f : Joins(f, pieces, m)
    OBVIOUS
  <2>4. m # 0
    <3>1. Joins([k \in 0..0 |-> << >>], pieces, 0)
      BY DEF Joins
    <3> QED
      BY <2>3, <3>1
  <2>5. m - 1 \in Nat /\ m - 1 \notin bad
    <3>1. m - 1 \in Nat /\ ~(m <= m - 1)
      BY <2>3, <2>4
    <3> QED
      BY <2>2, <3>1
  <2>6. PICK f : Joins(f, pieces, m - 1)
    BY <2>5
  <2> DEFINE h == [k \in 0..m |-> IF k = 0 THEN << >> ELSE f[k - 1] \o pieces[k]]
  <2>7. \A k \in 0..m : k # 0 => k - 1 \in 0..(m - 1) /\ k - 1 \in 0..m
    BY <2>3
  <2>8. \A k \in 0..(m - 1) : h[k] = f[k]
    <3>1. \A k \in 0..(m - 1) : k \in 0..m
      BY <2>3
    <3> QED
      BY <2>6, <3>1 DEF Joins
  <2>9. Joins(h, pieces, m)
    BY <2>7, <2>8 DEF Joins
  <2> HIDE DEF h
  <2> QED
    BY <2>3, <2>9
<1> QED
  BY <1>1

Single(pieces, K) ==
  \A k \in 1..K : Len(pieces[k]) >= 1 /\ (k < K => Len(pieces[k]) = 1)

(* Where every piece before the K-th is one element, the first K elements  *)
(* are the first ones of the first K pieces.                               *)
LEMMA JoinPrefix ==
  ASSUME NEW n \in Nat, NEW pieces, NEW M, \A k \in 1..n : pieces[k] \in Seq(M),
         NEW f, Joins(f, pieces, n),
         NEW K \in 0..n, Single(pieces, K)
  PROVE  f[n] \in Seq(M) /\ Len(f[n]) >= K /\ \A j \in 1..K : f[n][j] = pieces[j][1]
<1> DEFINE good(k) == /\ f[k] \in Seq(M)
                      /\ k < K => Len(f[k]) = k
                      /\ k >= K => Len(f[k]) >= K
                      /\ \A j \in 1..K : j <= k => f[k][j] = pieces[j][1]
           bad == {k \in 0..n : ~good(k)}
<1>1. bad = {}
  <2> SUFFICES ASSUME bad # {}  PROVE FALSE
    OBVIOUS
  <2>1. bad \in SUBSET Nat
    OBVIOUS
  <2>2. PICK k \in bad : \A e \in bad : k <= e
    BY <2>1, LeastNatural
  <2>3. k \in 0..n /\ ~good(k)
    OBVIOUS
  <2> DEFINE joined(m) == f[m] = f[m - 1] \o pieces[m]
  <2>4. f[0] = << >> /\ \A m \in 1..n : joined(m)
    <3> DEFINE value(m) == IF m = 0 THEN << >> ELSE f[m - 1] \o pieces[m]
    <3>1. f = [m \in 0..n |-> value(m)]
      BY DEF Joins
    <3>2. 0 \in 0..n /\ \A m \in 1..n : m \in 0..n /\ m # 0
      OBVIOUS
    <3>3. value(0) = << >> /\ \A m \in 1..n : value(m) = f[m - 1] \o pieces[m]
      BY <3>2
    <3> HIDE DEF value
    <3>4. \A m \in 0..n : f[m] = value(m)
      BY <3>1
    <3>5. f[0] = << >>
      BY <3>2, <3>3, <3>4
    <3>6. ASSUME NEW m \in 1..n  PROVE joined(m)
      <4>1. f[m] = value(m)
        BY <3>2, <3>4
      <4>2. value(m) = f[m - 1] \o pieces[m]
        BY <3>3
      <4> QED
        BY <4>1, <4>2
    <3> HIDE DEF joined
    <3> QED
      BY <3>5, <3>6
  <2>5. k # 0
    <3>1. f[0] \in Seq(M) /\ Len(f[0]) = 0
      BY <2>4
    <3>2. (0 >= K => K = 0) /\ (0 < K => Len(f[0]) = 0)
      BY <3>1
    <3>3. \A j \in 1..K : ~(j <= 0)
      OBVIOUS
    <3>4. good(0)
      BY <3>1, <3>2, <3>3
    <3> QED
      BY <2>3, <3>4
  <2>6. k \in 1..n /\ k - 1 \in 0..n /\ ~(k <= k - 1)
    BY <2>3, <2>5
  <2>7. good(k - 1)
    BY <2>2, <2>6
  <2> DEFINE s == f[k - 1]
             p == pieces[k]
             l == Len(s)
  <2>8. f[k] = s \o p
    BY <2>4, <2>6
  <2>9. /\ s \in Seq(M) /\ p \in Seq(M) /\ l \in Nat /\ Len(p) \in Nat
        /\ k - 1 < K => l = k - 1
        /\ k - 1 >= K => l >= K
        /\ \A j \in 1..K : j <= k - 1 => s[j] = pieces[j][1]
        /\ k <= K => Len(p) >= 1 /\ (k < K => Len(p) = 1)
    BY <2>6, <2>7 DEF Single
  <2> HIDE DEF s, p, l
  <2>10. /\ s \o p \in Seq(M) /\ Len(s \o p) = l + Len(p)
         /\ \A j \in 1..l : (s \o p)[j] = s[j]
         /\ Len(p) >= 1 => \A m \in Nat : m = l + 1 => (s \o p)[m] = p[1]
    BY <2>9 DEF l
  <2>11. ASSUME NEW j \in 1..K, j <= k  PROVE (s \o p)[j] = pieces[j][1]
    <3>1. CASE j <= k - 1
      <4>1. j \in 1..l
        BY <2>6, <2>9, <3>1
      <4> QED
        BY <2>9, <2>10, <3>1, <4>1
    <3>2. CASE j = k
      <4>1. k = l + 1 /\ k \in Nat /\ Len(p) >= 1
        BY <2>6, <2>9, <2>11, <3>2
      <4>2. (s \o p)[k] = p[1]
        BY <2>10, <4>1
      <4> QED
        BY <3>2, <4>2 DEF p
    <3>3. j \in Int /\ k \in Int
      BY <2>6
    <3>4. j <= k - 1 \/ j = k
      BY <2>11, <3>3
    <3> QED
      BY <3>1, <3>2, <3>4
  <2>12. good(k)
    <3>1. ASSUME k < K  PROVE Len(s \o p) = k
      <4>1. k \in Int /\ K \in Int /\ k - 1 < K /\ k <= K
        BY <2>6, <3>1
      <4>2. l = k - 1 /\ Len(p) = 1
        BY <2>9, <3>1, <4>1
      <4> QED
        BY <2>10, <4>1, <4>2
    <3>2. k >= K => Len(s \o p) >= K
      <4>1. CASE k - 1 >= K
        BY <2>9, <2>10, <4>1
      <4>2. CASE k - 1 < K /\ k >= K
        <5>1. l = k - 1 /\ k = K /\ Len(p) >= 1
          BY <2>6, <2>9, <4>2
        <5> QED
          BY <2>6, <2>9, <2>10, <5>1
      <4> QED
        BY <2>6, <4>1, <4>2
    <3> QED
      BY <2>8, <2>10, <2>11, <3>1, <3>2
  <2> QED
    BY <2>3, <2>12
<1>2. n \in 0..n /\ n \notin bad
  BY <1>1
<1> QED
  BY <1>2

(* The first K genes are leading: the K-th has modules, those before one.  *)
Leads(genes, K) ==
  \A j \in 1..K : /\ Len(ModulesOf(genes[j])) >= 1
                  /\ j < K => Len(ModulesOf(genes[j])) = 1

(* Up to there the position of a gene is that of its first module.         *)
LEMMA CompiledPrefix ==
  ASSUME NEW genes, Len(genes) \in Nat, NEW K \in 0..Len(genes), Leads(genes, K)
  PROVE  /\ Len(Compile(genes)) \in Nat /\ Len(Compile(genes)) >= K
         /\ DOMAIN Compile(genes) = 1..Len(Compile(genes))
         /\ \A j \in 1..K : Compile(genes)[j] = ModulesOf(genes[j])[1]
<1> DEFINE n == Len(genes)
           pieces == [k \in 1..n |-> ModulesOf(genes[k])]
           upTo == CHOOSE f : f = [k \in 0..n |-> IF k = 0 THEN << >> ELSE f[k - 1] \o ModulesOf(genes[k])]
           M == UNION {{ModulesOf(genes[k])[1], ModulesOf(genes[k])[2]} : k \in 1..n}
<1>1. ASSUME NEW f
      PROVE  Joins(f, pieces, n) <=>
               f = [k \in 0..n |-> IF k = 0 THEN << >> ELSE f[k - 1] \o ModulesOf(genes[k])]
  <2>1. \A k \in 0..n : k # 0 => pieces[k] = ModulesOf(genes[k])
    OBVIOUS
  <2> HIDE DEF pieces
  <2> QED
    BY <2>1 DEF Joins
<1> HIDE DEF pieces
<1>2. \E f : Joins(f, pieces, n)
  BY JoinExists
<1>3. Joins(upTo, pieces, n)
  BY <1>1, <1>2
<1>4. Compile(genes) = upTo[n]
  BY DEF Compile
<1> HIDE DEF upTo
<1>5. ASSUME NEW k \in 1..n  PROVE pieces[k] \in Seq(M)
  <2>1. ModulesOf(genes[k]) \in Seq({ModulesOf(genes[k])[1], ModulesOf(genes[k])[2]})
    BY ModulesKinds
  <2> DEFINE S == {ModulesOf(genes[k])[1], ModulesOf(genes[k])[2]}
             s == ModulesOf(genes[k])
  <2>2. S \subseteq M
    OBVIOUS
  <2> HIDE DEF M, S
  <2>3. s \in Seq(S)
    BY <2>1 DEF S
  <2> HIDE DEF s
  <2>4. s \in Seq(M)
    BY <2>2, <2>3
  <2> QED
    BY <2>4 DEF pieces, s
<1>6. \A k \in 1..K : pieces[k] = ModulesOf(genes[k])
  BY DEF pieces
<1>7. Single(pieces, K)
  BY <1>6 DEF Leads, Single
<1> HIDE DEF M, n
<1>8. upTo[n] \in Seq(M) /\ Len(upTo[n]) >= K /\ \A j \in 1..K : upTo[n][j] = pieces[j][1]
  BY <1>3, <1>5, <1>7, JoinPrefix DEF n
<1> QED
  BY <1>4, <1>6, <1>8

(* The weights a genome is compiled with: there those of the gene itself.  *)
LEMMA InitialisedPrefix ==
  ASSUME NEW generation, NEW genes, Len(genes) \in Nat, NEW K \in 0..Len(genes), Leads(genes, K)
  PROVE  \A j \in 1..K : Initialised(genes, generation)[j] = <<genes[j].id, generation>>
<1> DEFINE n == Len(genes)
           piece(k) == [j \in DOMAIN ModulesOf(genes[k]) |-> <<genes[k].id, generation>>]
           pieces == [k \in 1..n |-> piece(k)]
           upTo == CHOOSE f : f = [k \in 0..n |-> IF k = 0 THEN << >>
             ELSE f[k - 1] \o [j \in DOMAIN ModulesOf(genes[k]) |-> <<genes[k].id, generation>>]]
           M == {<<genes[k].id, generation>> : k \in 1..n}
<1>1. ASSUME NEW f
      PROVE  Joins(f, pieces, n) <=>
               f = [k \in 0..n |-> IF k = 0 THEN << >>
                 ELSE f[k - 1] \o [j \in DOMAIN ModulesOf(genes[k]) |-> <<genes[k].id, generation>>]]
  <2>1. \A k \in 0..n : k # 0 => pieces[k] = piece(k)
    OBVIOUS
  <2> HIDE DEF pieces, piece
  <2>2. Joins(f, pieces, n) <=> f = [k \in 0..n |-> IF k = 0 THEN << >> ELSE f[k - 1] \o piece(k)]
    BY <2>1 DEF Joins
  <2> QED
    BY <2>2 DEF piece
<1>2. \E f : Joins(f, pieces, n)
  BY JoinExists
<1> HIDE DEF pieces
<1>3. Joins(upTo, pieces, n)
  BY <1>1, <1>2
<1>4. Initialised(genes, generation) = upTo[n]
  BY DEF Initialised
<1> HIDE DEF upTo
<1>5. ASSUME NEW k \in 1..n  PROVE pieces[k] \in Seq(M) /\ Len(pieces[k]) = Len(ModulesOf(genes[k]))
                                   /\ \A j \in DOMAIN pieces[k] : pieces[k][j] = <<genes[k].id, generation>>
  <2>1. ModulesOf(genes[k]) \in Seq({ModulesOf(genes[k])[1], ModulesOf(genes[k])[2]})
    BY ModulesKinds
  <2> DEFINE s == ModulesOf(genes[k])
             x == <<genes[k].id, generation>>
  <2>2. Len(s) \in Nat /\ DOMAIN s = 1..Len(s)
    BY <2>1
  <2>3. x \in M
    OBVIOUS
  <2> HIDE DEF s, x, M
  <2>4. [j \in DOMAIN s |-> x] \in Seq(M) /\ Len([j \in DOMAIN s |-> x]) = Len(s)
    BY <2>2, <2>3
  <2> QED
    BY <2>4 DEF pieces, s, x
<1>6. \A k \in 1..K : k \in 1..n
  OBVIOUS
<1>7. Single(pieces, K)
  BY <1>5, <1>6 DEF Leads, Single
<1> HIDE DEF M, n
<1>10. \A k \in 1..n : pieces[k] \in Seq(M)
  BY <1>5
<1>8. upTo[n] \in Seq(M) /\ Len(upTo[n]) >= K /\ \A j \in 1..K : upTo[n][j] = pieces[j][1]
  BY <1>3, <1>7, <1>10, JoinPrefix DEF n
<1>9. ASSUME NEW j \in 1..K  PROVE pieces[j][1] = <<genes[j].id, generation>>
  <2>1. pieces[j] \in Seq(M) /\ Len(pieces[j]) >= 1
    BY <1>5, <1>6, <1>7 DEF Single
  <2>2. 1 \in DOMAIN pieces[j]
    BY <2>1
  <2> QED
    BY <1>5, <1>6, <2>2
<1> QED
  BY <1>4, <1>8, <1>9

(* A list of genes, each with an identity of its own.                      *)
OwnIds(genes) ==
  /\ Len(genes) \in Nat /\ DOMAIN genes = 1..Len(genes)
  /\ \A i, j \in 1..Len(genes) : genes[i].id = genes[j].id => i = j

(* The position found for an id is that of the gene that has it.           *)
LEMMA OldIdxIs ==
  ASSUME NEW genes, OwnIds(genes)
  PROVE  /\ \A k \in 1..Len(genes) : OldIdx(genes, genes[k].id) = k
         /\ \A id : /\ OldIdx(genes, id) \in 0..Len(genes)
                    /\ OldIdx(genes, id) > 0 => genes[OldIdx(genes, id)].id = id
<1>1. ASSUME NEW k \in 1..Len(genes)  PROVE OldIdx(genes, genes[k].id) = k
  <2>1. {i \in DOMAIN genes : genes[i].id = genes[k].id} \cup {0} = {k, 0}
    BY DEF OwnIds
  <2>2. Max({k, 0}) = k
    BY DEF Max
  <2> QED
    BY <2>1, <2>2 DEF OldIdx
<1>2. ASSUME NEW id
      PROVE  /\ OldIdx(genes, id) \in 0..Len(genes)
             /\ OldIdx(genes, id) > 0 => genes[OldIdx(genes, id)].id = id
  <2>1. CASE \E k \in 1..Len(genes) : genes[k].id = id
    <3>1. PICK k \in 1..Len(genes) : genes[k].id = id
      BY <2>1
    <3>2. OldIdx(genes, id) = k
      BY <1>1, <3>1
    <3> QED
      BY <3>1, <3>2 DEF OwnIds
  <2>2. CASE ~ \E k \in 1..Len(genes) : genes[k].id = id
    <3>1. {i \in DOMAIN genes : genes[i].id = id} \cup {0} = {0}
      BY <2>2 DEF OwnIds
    <3>2. Max({0}) = 0
      BY DEF Max
    <3>3. OldIdx(genes, id) = 0
      BY <3>1, <3>2 DEF OldIdx
    <3>4. Len(genes) \in Nat
      BY DEF OwnIds
    <3> QED
      BY <3>3, <3>4
  <2> QED
    BY <2>1, <2>2
<1> QED
  BY <1>1, <1>2

(* The index new_param_idx of a gene, among and after the leading ones.    *)
LEMMA ParamIdxIs ==
  ASSUME NEW genes, OwnIds(genes), NEW K \in 0..Len(genes), Leads(genes, K),
         NEW k \in 1..Len(genes)
  PROVE  /\ ParamIdx(genes, k) \in Nat
         /\ k <= K => ParamIdx(genes, k) = k
         /\ k > K => ParamIdx(genes, k) > K
<1> DEFINE before == {j \in 1..(k - 1) : genes[j].type \in Parametric}
<1>1. \A j \in 1..K : genes[j].type \in Parametric
  BY ModulesKinds DEF Leads
<1>2. Len(genes) \in Nat /\ k - 1 \in Nat
  BY DEF OwnIds
<1>3. IsFiniteSet(1..(k - 1)) /\ Cardinality(1..(k - 1)) = k - 1
  <2> DEFINE m == k - 1
  <2>1. m \in Nat
    BY <1>2
  <2> HIDE DEF m
  <2>2. IsFiniteSet(1..m) /\ Cardinality(1..m) = m
    BY <2>1, FS_Interval
  <2> QED
    BY <2>2 DEF m
<1>4. IsFiniteSet(before) /\ Cardinality(before) \in Nat
  BY <1>3, FS_Subset, FS_CardinalityType
<1>5. ASSUME k <= K  PROVE before = 1..(k - 1)
  BY <1>1, <1>2, <1>5
<1>6. ASSUME k > K  PROVE Cardinality(before) >= K
  <2>1. 1..K \subseteq before
    BY <1>1, <1>2, <1>6
  <2>2. Cardinality(1..K) = K
    BY FS_Interval
  <2> HIDE DEF before
  <2> QED
    BY <1>4, <2>1, <2>2, FS_Subset
<1>7. ParamIdx(genes, k) = 1 + Cardinality(before)
  BY DEF ParamIdx
<1> HIDE DEF before
<1>8. CASE k <= K
  BY <1>3, <1>5, <1>7, <1>8, <1>2
<1>9. CASE k > K
  BY <1>4, <1>6, <1>7, <1>9
<1> QED
  BY <1>2, <1>8, <1>9

(* A leading gene is migrated to its own first module, from its own; only  *)
(* an attention gene that has nothing to copy is written nothing.          *)
LEMMA WritesOwn ==
  ASSUME NEW old, OwnIds(old), NEW new, OwnIds(new), NEW held, NEW generation,
         NEW k \in 1..Len(new), Leads(new, k),
         Has(old, new[k].id) => Leading(old, new[k].id)
  PROVE  LET mine == {w \in Writes(held, Compile(old), Compile(new), old, new, k, generation) :
                        w[1] = k}
             kept == Has(old, new[k].id) /\ Fits(old, new, new[k].id)
         IN  \/ kept /\ mine = {<<k, k, held[OldIdx(old, new[k].id)]>>}
             \/ ~kept /\ mine = {<<k, k, <<new[k].id, generation>> >>}
             \/ ~kept /\ mine = {}
<1> DEFINE id == new[k].id
           was == Compile(old)
           after == Compile(new)
           m == ParamIdx(new, k)
           i == OldIdx(old, id)
           identity == IF after[m][1] = "attention" THEN {} ELSE {<<m, k, <<new[k].id, generation>> >>}
           kept == Has(old, id) /\ Fits(old, new, id)
           writes == Writes(held, was, after, old, new, k, generation)
<1>1. k \in 0..Len(new) /\ Len(new) \in Nat /\ k \in Nat
  BY DEF OwnIds
<1>2. m = k
  BY <1>1, ParamIdxIs
<1>3. Len(after) \in Nat /\ k \in 1..Len(after) /\ after[k] = ModulesOf(new[k])[1]
  BY <1>1, CompiledPrefix
<1>5. i \in 0..Len(old) /\ i \in Nat /\ (Has(old, id) <=> i # 0)
  BY OldIdxIs DEF Has, OwnIds
<1>6. ASSUME i # 0  PROVE Len(was) \in Nat /\ i \in 1..Len(was) /\ was[i] = ModulesOf(old[i])[1]
  <2>1. Leads(old, i) /\ Len(old) \in Nat
    BY <1>5, <1>6 DEF Leading, Leads, OwnIds
  <2> HIDE DEF i
  <2> QED
    BY <1>5, <1>6, <2>1, CompiledPrefix
<1>7. OldIdx(new, id) = k
  BY OldIdxIs
<1>8. ASSUME i # 0  PROVE Fits(old, new, id) <=> was[i] = after[k] \/ IsWidened(was[i], after[k])
  BY <1>3, <1>6, <1>7, <1>8 DEF Fits
<1>9. Len(was) \in Nat
  <2>1. Leads(old, 0) /\ Len(old) \in Nat /\ 0 \in 0..Len(old)
    BY DEF Leads, OwnIds
  <2> QED
    BY <2>1, CompiledPrefix
<1>10. Matched(old, new, k) = i
  BY DEF Matched
<1>11. identity \in {{}, {<<k, k, <<id, generation>> >>}}
  BY <1>2
<1>12. CASE i = 0
  <2>1. writes = identity
    BY <1>2, <1>3, <1>9, <1>10, <1>12 DEF Writes
  <2>2. ~kept
    BY <1>5, <1>12
  <2>3. {w \in identity : w[1] = k} = identity
    BY <1>11
  <2> QED
    BY <1>11, <2>1, <2>2, <2>3
<1>13. CASE i # 0
  <2>1. writes = IF was[i] = after[m] /\ after[m][1] = "attention"
                 THEN {<<m, k, held[i]>>, <<m + 1, k, held[i + 1]>>}
                 ELSE IF was[i] = after[m] \/ IsWidened(was[i], after[m]) THEN {<<m, k, held[i]>>}
                 ELSE identity
    BY <1>2, <1>3, <1>6, <1>10, <1>13 DEF Writes
  <2>2. kept <=> was[i] = after[k] \/ IsWidened(was[i], after[k])
    BY <1>5, <1>8, <1>13
  <2>3. k + 1 # k
    BY <1>1
  <2> HIDE DEF writes, i, was, after, m, identity, kept
  <2>4. CASE kept
    <3>1. \/ writes = {<<k, k, held[i]>>}
          \/ writes = {<<k, k, held[i]>>, <<k + 1, k, held[i + 1]>>}
      BY <1>2, <2>1, <2>2, <2>4
    <3>2. {w \in writes : w[1] = k} = {<<k, k, held[i]>>}
      BY <2>3, <3>1
    <3> QED
      BY <2>4, <3>2 DEF writes, kept, i, was, after
  <2>5. CASE ~kept
    <3>1. writes = identity
      BY <1>2, <2>1, <2>2, <2>5
    <3>2. {w \in identity : w[1] = k} = identity
      BY <1>11
    <3> QED
      BY <1>11, <2>5, <3>1, <3>2 DEF writes, kept, was, after
  <2> QED
    BY <2>4, <2>5
<1> QED
  BY <1>12, <1>13

(* No other gene is migrated to that module.                               *)
LEMMA WritesOther ==
  ASSUME NEW old, OwnIds(old), NEW new, OwnIds(new), NEW held, NEW generation,
         NEW k \in 1..Len(new), Leads(new, k), NEW j \in 1..Len(new), j # k,
         NEW w \in Writes(held, Compile(old), Compile(new), old, new, j, generation)
  PROVE  w[1] # k
<1> DEFINE was == Compile(old)
           after == Compile(new)
           m == ParamIdx(new, j)
           i == Matched(old, new, j)
<1>1. k \in 0..Len(new) /\ Len(new) \in Nat /\ k \in Nat /\ j \in Nat
  BY DEF OwnIds
<1>2. m \in Nat /\ (j <= k => m = j) /\ (j > k => m > k)
  BY <1>1, ParamIdxIs
<1>3. i \in Nat
  BY OldIdxIs DEF Matched, OwnIds
<1>4. Len(was) \in Nat /\ Len(after) \in Nat
  <2>1. Leads(old, 0) /\ Len(old) \in Nat /\ 0 \in 0..Len(old)
    BY DEF Leads, OwnIds
  <2>2. Leads(new, 0) /\ Len(new) \in Nat /\ 0 \in 0..Len(new)
    BY DEF Leads, OwnIds
  <2> QED
    BY <2>1, <2>2, CompiledPrefix
<1> DEFINE identity == IF after[m][1] = "attention" THEN {} ELSE {<<m, j, <<new[j].id, generation>> >>}
<1> HIDE DEF was, after, m, i
<1>5. \/ w[1] = m
      \/ w[1] = m + 1 /\ after[m][1] = "attention"
  <2>1. w \in Writes(held, was, after, old, new, j, generation)
    BY DEF was, after
  <2>2. \/ m > Len(after) \/ i > Len(was)
        \/ m <= Len(after) /\ i = 0
        \/ m <= Len(after) /\ i \in 1..Len(was)
    BY <1>2, <1>3, <1>4
  <2> DEFINE all == Writes(held, was, after, old, new, j, generation)
  <2>3. CASE m > Len(after) \/ i > Len(was)
    <3>1. all = {}
      BY <1>2, <1>3, <1>4, <2>3 DEF Writes, m, i
    <3> QED
      BY <2>1, <3>1
  <2>4. CASE m <= Len(after) /\ i = 0
    <3>1. all = identity
      BY <1>2, <1>3, <1>4, <2>4 DEF Writes, m, i
    <3> QED
      BY <2>1, <3>1
  <2>5. CASE m <= Len(after) /\ i \in 1..Len(was)
    <3>1. all = IF was[i] = after[m] /\ after[m][1] = "attention"
                THEN {<<m, j, held[i]>>, <<m + 1, j, held[i + 1]>>}
                ELSE IF was[i] = after[m] \/ IsWidened(was[i], after[m]) THEN {<<m, j, held[i]>>}
                ELSE identity
      BY <1>2, <1>3, <1>4, <2>5 DEF Writes, m, i
    <3> QED
      BY <2>1, <3>1
  <2> QED
    BY <2>2, <2>3, <2>4, <2>5
<1>6. CASE j > k
  BY <1>1, <1>2, <1>5, <1>6
<1>7. CASE ~(j > k)
  <2>1. m = j /\ j < k /\ j \in 1..k
    BY <1>1, <1>2, <1>7
  <2>2. after[j] = ModulesOf(new[j])[1]
    BY <1>1, <2>1, CompiledPrefix DEF after
  <2>3. after[m][1] # "attention"
    BY <2>1, <2>2, ModulesKinds DEF Leads
  <2> QED
    BY <1>1, <1>5, <2>1, <2>3
<1> QED
  BY <1>6, <1>7

(* What a leading gene has after a migration: the weights of its first     *)
(* module in the old model where that fits, or fresh ones of its own.      *)
LEMMA MigratedGene ==
  ASSUME NEW old, OwnIds(old), NEW new, OwnIds(new), NEW held, NEW generation,
         NEW k \in 1..Len(new), Leads(new, k),
         Has(old, new[k].id) => Leading(old, new[k].id)
  PROVE  Migrate(held, old, new, generation)[k] =
           IF Has(old, new[k].id) /\ Fits(old, new, new[k].id)
           THEN held[OldIdx(old, new[k].id)] ELSE <<new[k].id, generation>>
<1> DEFINE was == Compile(old)
           after == Compile(new)
           writes(j) == Writes(held, was, after, old, new, j, generation)
           written == UNION {writes(j) : j \in DOMAIN new}
           into(m) == {w \in written : w[1] = m}
           last(m) == CHOOSE w \in into(m) : \A v \in into(m) : v[2] <= w[2]
           mine == {w \in writes(k) : w[1] = k}
           kept == Has(old, new[k].id) /\ Fits(old, new, new[k].id)
           own == held[OldIdx(old, new[k].id)]
           fresh == <<new[k].id, generation>>
           all == [m \in DOMAIN after |->
                     IF into(m) = {} THEN Initialised(new, generation)[m] ELSE last(m)[3]]
<1>1. Migrate(held, old, new, generation) = all
  BY DEF Migrate
<1>0. k \in 0..Len(new) /\ Len(new) \in Nat /\ k \in 1..k
  BY DEF OwnIds
<1>2. k \in DOMAIN after
  BY <1>0, CompiledPrefix
<1>3. DOMAIN new = 1..Len(new) /\ k \in Int
  BY DEF OwnIds
<1>4. \/ kept /\ mine = {<<k, k, own>>}
      \/ ~kept /\ mine = {<<k, k, fresh>>}
      \/ ~kept /\ mine = {}
  BY WritesOwn
<1>5. \A j \in 1..Len(new) : j # k => \A w \in writes(j) : w[1] # k
  BY WritesOther
<1>6. Initialised(new, generation)[k] = fresh
  BY <1>0, InitialisedPrefix
<1> HIDE DEF writes, kept, own, fresh, was, after
<1>7. into(k) = mine
  BY <1>3, <1>5
<1>8. all[k] = IF into(k) = {} THEN fresh ELSE last(k)[3]
  BY <1>2, <1>6
<1>9. ASSUME NEW x, into(k) = {<<k, k, x>>}  PROVE last(k)[3] = x
  <2> HIDE DEF into
  <2>1. last(k) = <<k, k, x>>
    BY <1>3, <1>9
  <2> HIDE DEF last
  <2> QED
    BY <2>1
<1> HIDE DEF all, last, into, mine
<1>10. all[k] = IF kept THEN own ELSE fresh
  <2>1. CASE kept
    <3>1. into(k) = {<<k, k, own>>}
      BY <1>4, <1>7, <2>1
    <3> QED
      BY <1>8, <1>9, <2>1, <3>1
  <2>2. CASE ~kept
    <3>1. into(k) = {} \/ into(k) = {<<k, k, fresh>>}
      BY <1>4, <1>7, <2>2
    <3> QED
      BY <1>8, <1>9, <2>2, <3>1
  <2> QED
    BY <2>1, <2>2
<1> QED
  BY <1>1, <1>10 DEF kept, own, fresh

-----------------------------------------------------------------------------
(* From which genomes on a gene is there and fits without a break, up to   *)
(* the n-th.                                                               *)
Unbroken(genomes, id, n) ==
  {i \in 1..n : \A j \in i..n : /\ Leading(genomes[j], id)
                                /\ j > i => Fits(genomes[j - 1], genomes[j], id)}

(* The count goes on where the gene still fits and else starts again.      *)
LEMMA UnbrokenStep ==
  ASSUME NEW genomes, NEW id, NEW n \in Nat, n > 1, Leading(genomes[n], id)
  PROVE  /\ Leading(genomes[n - 1], id) /\ Fits(genomes[n - 1], genomes[n], id)
            => Min(Unbroken(genomes, id, n)) = Min(Unbroken(genomes, id, n - 1))
         /\ ~(Leading(genomes[n - 1], id) /\ Fits(genomes[n - 1], genomes[n], id))
            => Min(Unbroken(genomes, id, n)) = n
<1> DEFINE A == Unbroken(genomes, id, n)
           B == Unbroken(genomes, id, n - 1)
           in(j) == Leading(genomes[j], id)
           fits(j) == Fits(genomes[j - 1], genomes[j], id)
<1>0. n - 1 \in Nat /\ n - 1 \in 1..n /\ n \in 1..n
  OBVIOUS
<1>1. A = {i \in 1..n : \A j \in i..n : in(j) /\ (j > i => fits(j))}
  BY DEF Unbroken
<1>2. B = {i \in 1..(n - 1) : \A j \in i..(n - 1) : in(j) /\ (j > i => fits(j))}
  BY DEF Unbroken
<1>3. n \in A
  <2>1. \A j \in n..n : j = n
    OBVIOUS
  <2> HIDE DEF A
  <2> QED
    BY <1>0, <1>1, <2>1
<1> HIDE DEF A, B
<1>4. ASSUME in(n - 1), fits(n)  PROVE A = B \cup {n} /\ n - 1 \in B
  <2> HIDE DEF in, fits
  <2>1. in(n)
    BY DEF in
  <2>2. ASSUME NEW i \in B  PROVE i \in A
    <3>1. i \in 1..(n - 1) /\ \A j \in i..(n - 1) : in(j) /\ (j > i => fits(j))
      BY <1>2
    <3>2. ASSUME NEW j \in i..n  PROVE in(j) /\ (j > i => fits(j))
      <4>1. j = n \/ j \in i..(n - 1)
        BY <3>1
      <4> QED
        BY <1>4, <2>1, <3>1, <4>1
    <3>3. i \in 1..n
      BY <3>1
    <3> QED
      BY <1>1, <3>2, <3>3
  <2>3. ASSUME NEW i \in A, i # n  PROVE i \in B
    <3>1. i \in 1..n /\ \A j \in i..n : in(j) /\ (j > i => fits(j))
      BY <1>1
    <3>2. i \in 1..(n - 1) /\ \A j \in i..(n - 1) : j \in i..n
      BY <2>3, <3>1
    <3> QED
      BY <1>2, <3>1, <3>2
  <2>4. n - 1 \in B
    <3>1. \A j \in (n - 1)..(n - 1) : j = n - 1 /\ ~(j > n - 1)
      OBVIOUS
    <3>2. n - 1 \in 1..(n - 1)
      BY <1>0
    <3> QED
      BY <1>2, <1>4, <3>1, <3>2
  <2> QED
    BY <1>3, <2>2, <2>3, <2>4
<1>5. ASSUME in(n - 1), fits(n)  PROVE Min(A) = Min(B)
  <2>1. B \in SUBSET Nat /\ \A i \in B : i < n
    BY <1>0, <1>2
  <2>2. B # {} /\ A = B \cup {n}
    BY <1>4, <1>5
  <2>3. PICK m \in B : \A i \in B : m <= i
    BY <2>1, <2>2, LeastNatural
  <2>4. m \in A /\ \A i \in A : m <= i
    BY <2>1, <2>2, <2>3
  <2>5. Min(A) = m
    <3>1. \A x \in A : (\A y \in A : x <= y) => x = m
      BY <2>1, <2>2, <2>4
    <3> QED
      BY <2>4, <3>1 DEF Min
  <2>6. Min(B) = m
    <3>1. \A x \in B : (\A y \in B : x <= y) => x = m
      BY <2>1, <2>3
    <3> QED
      BY <2>3, <3>1 DEF Min
  <2> QED
    BY <2>5, <2>6
<1>6. ASSUME ~(in(n - 1) /\ fits(n))  PROVE Min(A) = n
  <2>1. ASSUME NEW i \in A, i # n  PROVE FALSE
    <3> HIDE DEF in, fits
    <3>1. i \in 1..n /\ \A j \in i..n : in(j) /\ (j > i => fits(j))
      BY <1>1
    <3>2. n - 1 \in i..n /\ n \in i..n /\ n > i
      BY <2>1, <3>1
    <3> QED
      BY <1>6, <3>1, <3>2
  <2>2. A = {n}
    BY <1>3, <2>1
  <2> QED
    BY <2>2 DEF Min
<1> QED
  BY <1>5, <1>6 DEF A, B

(* The weights carried from genome to genome, as MigrateAll computes them. *)
Carries(f, genomes, n) ==
  f = [m \in 1..n |-> IF m = 1 THEN Initialised(genomes[1], 1)
                      ELSE Migrate(f[m - 1], genomes[m - 1], genomes[m], m)]

(* Such a function exists, so the recursive definition denotes one.        *)
LEMMA CarriedExists ==
  ASSUME NEW n \in Nat \ {0}, NEW genomes
  PROVE  \E f : Carries(f, genomes, n)
<1> DEFINE bad == {m \in Nat \ {0} : ~ \E f : Carries(f, genomes, m)}
<1>1. bad = {}
  <2> SUFFICES ASSUME bad # {}  PROVE FALSE
    OBVIOUS
  <2>1. bad \in SUBSET Nat
    OBVIOUS
  <2>2. PICK m \in bad : \A e \in bad : m <= e
    BY <2>1, LeastNatural
  <2>3. m \in Nat \ {0} /\ ~ \E f : Carries(f, genomes, m)
    OBVIOUS
  <2>4. m # 1
    <3>1. Carries([k \in 1..1 |-> Initialised(genomes[1], 1)], genomes, 1)
      BY DEF Carries
    <3> QED
      BY <2>3, <3>1
  <2>5. m - 1 \in Nat \ {0} /\ m - 1 \notin bad
    <3>1. m - 1 \in Nat \ {0} /\ ~(m <= m - 1)
      BY <2>3, <2>4
    <3> QED
      BY <2>2, <3>1
  <2>6. PICK f : Carries(f, genomes, m - 1)
    BY <2>5
  <2> DEFINE next(g, k) == Migrate(g[k - 1], genomes[k - 1], genomes[k], k)
             h == [k \in 1..m |-> IF k = 1 THEN Initialised(genomes[1], 1) ELSE next(f, k)]
  <2>7. \A k \in 1..m : k # 1 => k - 1 \in 1..(m - 1) /\ k - 1 \in 1..m
    BY <2>3
  <2>8. \A k \in 1..(m - 1) : h[k] = f[k]
    <3>1. \A k \in 1..(m - 1) : k \in 1..m
      BY <2>3
    <3> QED
      BY <2>6, <3>1 DEF Carries
  <2>9. \A k \in 1..m : k # 1 => next(f, k) = next(h, k)
    <3> HIDE DEF h
    <3> QED
      BY <2>7, <2>8
  <2>10. h = [k \in 1..m |-> IF k = 1 THEN Initialised(genomes[1], 1) ELSE next(h, k)]
    <3> HIDE DEF next
    <3> QED
      BY <2>9
  <2>11. Carries(h, genomes, m)
    <3> HIDE DEF h
    <3> QED
      BY <2>10 DEF Carries
  <2> HIDE DEF h
  <2> QED
    BY <2>3, <2>11
<1> QED
  BY <1>1

(* The weights are those migrated from one genome to the next.             *)
LEMMA CarriedSteps ==
  ASSUME NEW n \in Nat, n > 0, NEW genomes, Len(genomes) = n, DOMAIN genomes = 1..n
  PROVE  \E f : /\ MigrateAll(genomes) = f[n] /\ f[1] = Initialised(genomes[1], 1)
                /\ \A m \in 2..n : f[m] = Migrate(f[m - 1], genomes[m - 1], genomes[m], m)
<1> DEFINE f == CHOOSE u : u = [m \in DOMAIN genomes |->
                  IF m = 1 THEN Initialised(genomes[1], 1)
                  ELSE Migrate(u[m - 1], genomes[m - 1], genomes[m], m)]
           value(m) == IF m = 1 THEN Initialised(genomes[1], 1)
                       ELSE Migrate(f[m - 1], genomes[m - 1], genomes[m], m)
<1>1. MigrateAll(genomes) = f[n]
  BY DEF MigrateAll
<1>2. ASSUME NEW u
      PROVE  Carries(u, genomes, n) <=>
               u = [m \in DOMAIN genomes |-> IF m = 1 THEN Initialised(genomes[1], 1)
                    ELSE Migrate(u[m - 1], genomes[m - 1], genomes[m], m)]
  BY DEF Carries
<1>3. \E u : Carries(u, genomes, n)
  BY CarriedExists
<1>4. Carries(f, genomes, n)
  BY <1>2, <1>3
<1> HIDE DEF f
<1>5. f = [m \in 1..n |-> value(m)]
  BY <1>4 DEF Carries
<1>6. 1 \in 1..n /\ \A m \in 2..n : m \in 1..n /\ m # 1
  OBVIOUS
<1>7. value(1) = Initialised(genomes[1], 1)
      /\ \A m \in 2..n : value(m) = Migrate(f[m - 1], genomes[m - 1], genomes[m], m)
  BY <1>6
<1> HIDE DEF value
<1>8. \A m \in 1..n : f[m] = value(m)
  BY <1>5
<1>9. \A m \in 2..n : f[m] = Migrate(f[m - 1], genomes[m - 1], genomes[m], m)
  <2> SUFFICES ASSUME NEW m \in 2..n
               PROVE  f[m] = Migrate(f[m - 1], genomes[m - 1], genomes[m], m)
    OBVIOUS
  <2>1. f[m] = value(m)
    BY <1>6, <1>8
  <2>2. value(m) = Migrate(f[m - 1], genomes[m - 1], genomes[m], m)
    BY <1>7
  <2> QED
    BY <2>1, <2>2
<1>10. f[1] = Initialised(genomes[1], 1)
  BY <1>6, <1>7, <1>8
<1> QED
  BY <1>1, <1>9, <1>10

(* The gene is leading in each of the first n genomes that has it.         *)
Settled(genomes, id, n) == \A j \in 1..n : Has(genomes[j], id) => Leading(genomes[j], id)

(* A leading gene keeps its weights as long as it fits, whatever genomes  *)
(* follow each other: reconfigurations need not extend the one before.     *)
LEMMA GenesKeepWeights ==
  ASSUME NEW n \in Nat, n > 0, NEW genomes, Len(genomes) = n, DOMAIN genomes = 1..n,
         \A j \in 1..n : OwnIds(genomes[j])
  PROVE  LeadingKeepWeights(genomes)
<1>1. PICK f : /\ MigrateAll(genomes) = f[n] /\ f[1] = Initialised(genomes[1], 1)
               /\ \A m \in 2..n : f[m] = Migrate(f[m - 1], genomes[m - 1], genomes[m], m)
  BY CarriedSteps
<1> DEFINE kept(m) == \A k \in 1..Len(genomes[m]) :
             Settled(genomes, genomes[m][k].id, m) =>
               f[m][k] = <<genomes[m][k].id, Min(Unbroken(genomes, genomes[m][k].id, m))>>
           bad == {m \in 1..n : ~kept(m)}
<1>2. \A m \in 1..n : \A k \in 1..Len(genomes[m]) :
        LET id == genomes[m][k].id IN
          /\ Has(genomes[m], id)
          /\ Settled(genomes, id, m) => Leading(genomes[m], id) /\ Leads(genomes[m], k)
  <2> SUFFICES ASSUME NEW m \in 1..n, NEW k \in 1..Len(genomes[m])
               PROVE  LET id == genomes[m][k].id IN
                        /\ Has(genomes[m], id)
                        /\ Settled(genomes, id, m) => Leading(genomes[m], id) /\ Leads(genomes[m], k)
    OBVIOUS
  <2>1. OldIdx(genomes[m], genomes[m][k].id) = k /\ k > 0
    BY OldIdxIs DEF OwnIds
  <2>2. Has(genomes[m], genomes[m][k].id)
    BY <2>1 DEF Has
  <2>3. m \in 1..m
    OBVIOUS
  <2> QED
    BY <2>1, <2>2, <2>3 DEF Settled, Leading, Leads
<1>3. bad = {}
  <2> SUFFICES ASSUME bad # {}  PROVE FALSE
    OBVIOUS
  <2>1. bad \in SUBSET Nat
    OBVIOUS
  <2>2. PICK m \in bad : \A e \in bad : m <= e
    BY <2>1, LeastNatural
  <2>3. m \in 1..n /\ ~kept(m)
    OBVIOUS
  <2>4. PICK k \in 1..Len(genomes[m]) :
          /\ Settled(genomes, genomes[m][k].id, m)
          /\ f[m][k] # <<genomes[m][k].id, Min(Unbroken(genomes, genomes[m][k].id, m))>>
    BY <2>3
  <2> DEFINE id == genomes[m][k].id
  <2>5. Leads(genomes[m], k) /\ Leading(genomes[m], id) /\ OwnIds(genomes[m])
    BY <1>2, <2>3, <2>4
  <2>6. CASE m = 1
    <3>1. Len(genomes[1]) \in Nat /\ k \in 0..Len(genomes[1])
      BY <2>5, <2>6 DEF OwnIds
    <3>2. k \in 1..k
      BY <3>1
    <3>3. Initialised(genomes[1], 1)[k] = <<id, 1>>
      BY <2>5, <2>6, <3>1, <3>2, InitialisedPrefix
    <3>4. Unbroken(genomes, id, 1) = {1}
      <4>1. \A j \in 1..1 : j = 1 /\ ~(j > 1)
        OBVIOUS
      <4>2. Leading(genomes[1], id)
        BY <2>5, <2>6
      <4> QED
        BY <4>1, <4>2 DEF Unbroken
    <3>5. Min({1}) = 1
      BY DEF Min
    <3>6. f[1][k] = <<id, Min(Unbroken(genomes, id, 1))>>
      BY <1>1, <3>3, <3>4, <3>5
    <3> QED
      BY <2>4, <2>6, <3>6
  <2>7. CASE m # 1
    <3> DEFINE old == genomes[m - 1]
               i == OldIdx(old, id)
    <3>1. m \in 2..n /\ m - 1 \in 1..n /\ ~(m <= m - 1) /\ m \in Nat /\ m > 1
      BY <2>3, <2>7
    <3>2. kept(m - 1) /\ OwnIds(old)
      BY <2>2, <3>1
    <3>3. Settled(genomes, id, m - 1) /\ (Has(old, id) => Leading(old, id))
      <4>1. m - 1 \in 1..m /\ \A j \in 1..(m - 1) : j \in 1..m
        BY <3>1
      <4> QED
        BY <2>4, <4>1 DEF Settled
    <3>4. Leading(old, id) => Has(old, id)
      BY DEF Leading, Has
    <3>5. f[m][k] = IF Has(old, id) /\ Fits(old, genomes[m], id)
                    THEN f[m - 1][i] ELSE <<id, m>>
      <4>1. f[m] = Migrate(f[m - 1], old, genomes[m], m)
        BY <1>1, <3>1
      <4> QED
        BY <2>5, <3>2, <3>3, <4>1, MigratedGene
    <3>6. CASE Has(old, id) /\ Fits(old, genomes[m], id)
      <4>1. i \in 1..Len(old) /\ old[i].id = id
        <5>1. i \in 0..Len(old) /\ (i > 0 => old[i].id = id) /\ Len(old) \in Nat
          BY <3>2, OldIdxIs DEF OwnIds
        <5>2. i > 0
          BY <3>6 DEF Has
        <5> QED
          BY <5>1, <5>2
      <4>2. f[m - 1][i] = <<id, Min(Unbroken(genomes, id, m - 1))>>
        <5> HIDE DEF i
        <5> QED
          BY <3>2, <3>3, <4>1
      <4>3. Min(Unbroken(genomes, id, m)) = Min(Unbroken(genomes, id, m - 1))
        <5>1. Leading(genomes[m - 1], id) /\ Fits(genomes[m - 1], genomes[m], id)
          BY <3>3, <3>6
        <5> HIDE DEF id
        <5> QED
          BY <2>5, <3>1, <5>1, UnbrokenStep
      <4> QED
        BY <2>4, <3>5, <3>6, <4>2, <4>3
    <3>7. CASE ~(Has(old, id) /\ Fits(old, genomes[m], id))
      <4>1. Min(Unbroken(genomes, id, m)) = m
        <5>1. ~(Leading(genomes[m - 1], id) /\ Fits(genomes[m - 1], genomes[m], id))
          BY <3>4, <3>7
        <5> HIDE DEF id
        <5> QED
          BY <2>5, <3>1, <5>1, UnbrokenStep
      <4> QED
        BY <2>4, <3>5, <3>7, <4>1
    <3> QED
      BY <3>6, <3>7
  <2> QED
    BY <2>6, <2>7
<1>4. kept(n)
  <2>1. n \in 1..n /\ n \notin bad
    BY <1>3
  <2> QED
    BY <2>1
<1>5. DOMAIN genomes[n] = 1..Len(genomes[n])
  BY DEF OwnIds
<1>6. \A id : Since(genomes, id) = Min(Unbroken(genomes, id, n))
  BY DEF Since, Unbroken
<1>7. Last(genomes) = genomes[n]
  BY DEF Last
<1> HIDE DEF bad
<1> QED
  BY <1>1, <1>4, <1>5, <1>6, <1>7 DEF LeadingKeepWeights, Settled

-----------------------------------------------------------------------------
(* A list of genes whose different ids are all among ids.                  *)
GenesOf(genes, ids) ==
  /\ genes \in Seq(ToSet(genes))
  /\ \A i \in 1..Len(genes) : "id" \in DOMAIN genes[i] /\ genes[i].id \in ids
  /\ \A i, j \in 1..Len(genes) : genes[i].id = genes[j].id => i = j

(* Such a list has identities of its own.                                  *)
LEMMA GenesOfOwn ==
  ASSUME NEW genes, NEW ids, GenesOf(genes, ids)
  PROVE  OwnIds(genes)
<1> DEFINE T == ToSet(genes)
<1>1. genes \in Seq(T)
  BY DEF GenesOf
<1> HIDE DEF T
<1>2. Len(genes) \in Nat /\ DOMAIN genes = 1..Len(genes)
  BY <1>1
<1> QED
  BY <1>2 DEF GenesOf, OwnIds

(* A list whose genes are those of another, each with the id it had.       *)
LEMMA RenewedGenes ==
  ASSUME NEW genes, NEW ids, GenesOf(genes, ids),
         NEW new, NEW n \in Nat, new = [i \in 1..n |-> new[i]],
         NEW at \in [1..n -> 1..Len(genes)], IsInjective(at),
         \A i \in 1..n : "id" \in DOMAIN new[i] /\ new[i].id = genes[at[i]].id
  PROVE  GenesOf(new, ids)
<1>1. new \in Seq(ToSet(new)) /\ Len(new) = n
  <2> DEFINE T == ToSet(new)
  <2>1. DOMAIN new = 1..n
    OBVIOUS
  <2>2. \A i \in 1..n : new[i] \in T
    BY <2>1 DEF ToSet
  <2> HIDE DEF T
  <2>3. new \in [1..n -> T]
    BY <2>2
  <2>4. new \in Seq(T) /\ Len(new) = n
    BY <2>3
  <2> QED
    BY <2>4 DEF T
<1>2. \A i \in 1..n : new[i].id \in ids
  BY DEF GenesOf
<1>3. ASSUME NEW i \in 1..n, NEW j \in 1..n, new[i].id = new[j].id  PROVE i = j
  <2>1. genes[at[i]].id = genes[at[j]].id /\ at[i] \in 1..Len(genes) /\ at[j] \in 1..Len(genes)
    BY <1>3
  <2>2. at[i] = at[j]
    BY <2>1 DEF GenesOf
  <2> QED
    BY <2>2 DEF IsInjective
<1> QED
  BY <1>1, <1>2, <1>3 DEF GenesOf

(* What RemoveAt leaves at each place.                                     *)
LEMMA RemovedElement ==
  ASSUME NEW T, NEW s \in Seq(T), NEW p \in 0..(Len(s) - 1)
  PROVE  /\ RemoveAt(s, p + 1) \in Seq(T) /\ Len(RemoveAt(s, p + 1)) = Len(s) - 1
         /\ \A i \in 1..(Len(s) - 1) :
              RemoveAt(s, p + 1)[i] = s[IF i <= p THEN i ELSE i + 1]
<1> DEFINE n == Len(s)
           a == SubSeq(s, 1, (p + 1) - 1)
           b == SubSeq(s, (p + 1) + 1, n)
<1>1. n \in Nat /\ \A i \in 1..n : s[i] \in T
  OBVIOUS
<1>2. RemoveAt(s, p + 1) = a \o b
  BY DEF RemoveAt
<1> HIDE DEF n
<1>3. p \in Nat /\ p < n /\ (p + 1) - 1 = p /\ (p + 1) + 1 = p + 2
  BY <1>1 DEF n
<1>4. a \in Seq(T) /\ Len(a) = p /\ \A i \in 1..p : a[i] = s[i]
  <2>1. \A i \in 1..p : s[i] \in T /\ 1 + i - 1 = i /\ i \in 1..(p - 1 + 1)
    BY <1>1, <1>3
  <2>2. /\ SubSeq(s, 1, p) \in Seq(T)
        /\ Len(SubSeq(s, 1, p)) = IF 1 <= p THEN p - 1 + 1 ELSE 0
        /\ \A i \in 1..(p - 1 + 1) : SubSeq(s, 1, p)[i] = s[1 + i - 1]
    BY <1>3, <2>1, SubSeqProperties
  <2> QED
    BY <1>3, <2>1, <2>2
<1>5. b \in Seq(T) /\ Len(b) = n - p - 1 /\ \A i \in 1..(n - p - 1) : b[i] = s[p + 1 + i]
  <2>1. /\ \A i \in (p + 2)..n : s[i] \in T
        /\ \A i \in 1..(n - p - 1) : p + 2 + i - 1 = p + 1 + i /\ i \in 1..(n - (p + 2) + 1)
    BY <1>1, <1>3
  <2>2. /\ SubSeq(s, p + 2, n) \in Seq(T)
        /\ Len(SubSeq(s, p + 2, n)) = IF p + 2 <= n THEN n - (p + 2) + 1 ELSE 0
        /\ \A i \in 1..(n - (p + 2) + 1) : SubSeq(s, p + 2, n)[i] = s[p + 2 + i - 1]
    BY <1>1, <1>3, <2>1, SubSeqProperties
  <2> QED
    BY <1>1, <1>3, <2>1, <2>2
<1> HIDE DEF a, b
<1>6. /\ a \o b \in Seq(T) /\ Len(a \o b) = n - 1
      /\ \A i \in 1..(n - 1) : (a \o b)[i] = IF i <= p THEN a[i] ELSE b[i - p]
  <2>1. /\ a \o b \in Seq(T) /\ Len(a \o b) = Len(a) + Len(b)
        /\ \A i \in 1..(Len(a) + Len(b)) :
             (a \o b)[i] = IF i <= Len(a) THEN a[i] ELSE b[i - Len(a)]
    BY <1>4, <1>5, ConcatProperties
  <2>2. Len(a) + Len(b) = n - 1
    BY <1>1, <1>3, <1>4, <1>5
  <2> QED
    BY <1>4, <2>1, <2>2
<1>7. ASSUME NEW i \in 1..(n - 1)
      PROVE  (a \o b)[i] = s[IF i <= p THEN i ELSE i + 1]
  <2>1. CASE i <= p
    <3>1. i \in 1..p
      BY <1>1, <1>3, <2>1
    <3> QED
      BY <1>4, <1>6, <2>1, <3>1
  <2>2. CASE ~(i <= p)
    <3>1. i - p \in 1..(n - p - 1) /\ p + 1 + (i - p) = i + 1
      BY <1>1, <1>3, <2>2
    <3>2. b[i - p] = s[i + 1]
      BY <1>5, <3>1
    <3> QED
      BY <1>6, <2>2, <3>2
  <2> QED
    BY <2>1, <2>2
<1> QED
  BY <1>2, <1>6, <1>7 DEF n

(* What InsertAt has at each place.                                        *)
LEMMA InsertedElement ==
  ASSUME NEW T, NEW s \in Seq(T), NEW c \in 0..Len(s), NEW x \in T
  PROVE  /\ InsertAt(s, c + 1, x) \in Seq(T) /\ Len(InsertAt(s, c + 1, x)) = Len(s) + 1
         /\ InsertAt(s, c + 1, x)[c + 1] = x
         /\ \A i \in 1..(Len(s) + 1) : i # c + 1 =>
              InsertAt(s, c + 1, x)[i] = s[IF i <= c THEN i ELSE i - 1]
<1> DEFINE n == Len(s)
           a == SubSeq(s, 1, (c + 1) - 1)
           b == SubSeq(s, c + 1, n)
           l == a \o <<x>>
<1>1. n \in Nat /\ \A i \in 1..n : s[i] \in T
  OBVIOUS
<1>2. InsertAt(s, c + 1, x) = l \o b
  BY DEF InsertAt
<1> HIDE DEF n
<1>3. c \in Nat /\ c <= n /\ (c + 1) - 1 = c /\ c + 1 \in Int
  BY <1>1 DEF n
<1>4. a \in Seq(T) /\ Len(a) = c /\ \A i \in 1..c : a[i] = s[i]
  <2>1. \A i \in 1..c : s[i] \in T /\ 1 + i - 1 = i /\ i \in 1..(c - 1 + 1)
    BY <1>1, <1>3
  <2>2. /\ SubSeq(s, 1, c) \in Seq(T)
        /\ Len(SubSeq(s, 1, c)) = IF 1 <= c THEN c - 1 + 1 ELSE 0
        /\ \A i \in 1..(c - 1 + 1) : SubSeq(s, 1, c)[i] = s[1 + i - 1]
    BY <1>3, <2>1, SubSeqProperties
  <2> QED
    BY <1>3, <2>1, <2>2
<1>5. b \in Seq(T) /\ Len(b) = n - c /\ \A i \in 1..(n - c) : b[i] = s[c + i]
  <2>1. /\ \A i \in (c + 1)..n : s[i] \in T
        /\ \A i \in 1..(n - c) : c + 1 + i - 1 = c + i /\ i \in 1..(n - (c + 1) + 1)
    BY <1>1, <1>3
  <2>2. /\ SubSeq(s, c + 1, n) \in Seq(T)
        /\ Len(SubSeq(s, c + 1, n)) = IF c + 1 <= n THEN n - (c + 1) + 1 ELSE 0
        /\ \A i \in 1..(n - (c + 1) + 1) : SubSeq(s, c + 1, n)[i] = s[c + 1 + i - 1]
    BY <1>1, <1>3, <2>1, SubSeqProperties
  <2> QED
    BY <1>1, <1>3, <2>1, <2>2
<1> HIDE DEF a, b
<1>6. /\ l \in Seq(T) /\ Len(l) = c + 1 /\ l[c + 1] = x
      /\ \A i \in 1..c : l[i] = s[i]
  <2>1. <<x>> \in Seq(T) /\ Len(<<x>>) = 1 /\ <<x>>[1] = x
    OBVIOUS
  <2> DEFINE one == <<x>>
  <2> HIDE DEF one
  <2>2. one \in Seq(T) /\ Len(one) = 1 /\ one[1] = x
    BY <2>1 DEF one
  <2>3. /\ a \o one \in Seq(T) /\ Len(a \o one) = Len(a) + Len(one)
        /\ \A i \in 1..(Len(a) + Len(one)) :
             (a \o one)[i] = IF i <= Len(a) THEN a[i] ELSE one[i - Len(a)]
    BY <1>4, <2>2, ConcatProperties
  <2>4. c + 1 - c = 1 /\ ~(c + 1 <= c) /\ c + 1 \in 1..(c + 1)
        /\ \A i \in 1..c : i <= c /\ i \in 1..(c + 1)
    BY <1>3
  <2>5. a \o one \in Seq(T) /\ Len(a \o one) = c + 1 /\ (a \o one)[c + 1] = x
        /\ \A i \in 1..c : (a \o one)[i] = s[i]
    BY <1>4, <2>2, <2>3, <2>4
  <2> QED
    BY <2>5 DEF one
<1> HIDE DEF l
<1>7. /\ l \o b \in Seq(T) /\ Len(l \o b) = n + 1
      /\ \A i \in 1..(n + 1) : (l \o b)[i] = IF i <= c + 1 THEN l[i] ELSE b[i - (c + 1)]
  <2>1. /\ l \o b \in Seq(T) /\ Len(l \o b) = Len(l) + Len(b)
        /\ \A i \in 1..(Len(l) + Len(b)) :
             (l \o b)[i] = IF i <= Len(l) THEN l[i] ELSE b[i - Len(l)]
    BY <1>5, <1>6, ConcatProperties
  <2>2. Len(l) + Len(b) = n + 1
    BY <1>1, <1>3, <1>5, <1>6
  <2> QED
    BY <1>6, <2>1, <2>2
<1>8. (l \o b)[c + 1] = x
  <2>1. c + 1 \in 1..(n + 1) /\ c + 1 <= c + 1
    BY <1>1, <1>3
  <2> QED
    BY <1>6, <1>7, <2>1
<1>9. ASSUME NEW i \in 1..(n + 1), i # c + 1
      PROVE  (l \o b)[i] = s[IF i <= c THEN i ELSE i - 1]
  <2>1. CASE i <= c
    <3>1. i \in 1..c /\ i <= c + 1
      BY <1>1, <1>3, <2>1
    <3> QED
      BY <1>6, <1>7, <2>1, <3>1
  <2>2. CASE ~(i <= c)
    <3>1. i - (c + 1) \in 1..(n - c) /\ c + (i - (c + 1)) = i - 1 /\ ~(i <= c + 1)
      BY <1>1, <1>3, <1>9, <2>2
    <3>2. b[i - (c + 1)] = s[i - 1]
      BY <1>5, <3>1
    <3> QED
      BY <1>7, <2>2, <3>1, <3>2
  <2> QED
    BY <2>1, <2>2
<1> QED
  BY <1>2, <1>7, <1>8, <1>9 DEF n

(* No mutation gives two genes the same id, nor brings another id in.      *)
LEMMA AppliedGenes ==
  ASSUME NEW genes, NEW ids, GenesOf(genes, ids), NEW id, id \notin ids, NEW mutation,
         mutation.type \in MutationType,
         mutation.type = "add_layer" => mutation.position \in Nat /\ "id" \in DOMAIN mutation.gene
  PROVE  GenesOf(Apply(mutation, genes, id), ids \cup {id})
<1> DEFINE T == ToSet(genes)
           n == Len(genes)
           p == mutation.position
<1>0. genes \in Seq(T) /\ n \in Nat /\ DOMAIN genes = 1..n /\ genes = [i \in 1..n |-> genes[i]]
  <2>1. genes \in Seq(T)
    BY DEF GenesOf
  <2> HIDE DEF T
  <2> QED
    BY <2>1
<1>1. \A new : GenesOf(new, ids) => GenesOf(new, ids \cup {id})
  BY DEF GenesOf
<1>2. \A i \in 1..n : "id" \in DOMAIN genes[i]
  BY DEF GenesOf
<1> DEFINE same == [i \in 1..n |-> i]
<1>3. same \in [1..n -> 1..n] /\ IsInjective(same) /\ \A i \in 1..n : same[i] = i
  BY DEF IsInjective
<1>4. ASSUME NEW new, new = [i \in 1..n |-> new[i]],
             \A i \in 1..n : "id" \in DOMAIN new[i] /\ new[i].id = genes[i].id
      PROVE  GenesOf(new, ids)
  <2>1. \A i \in 1..n : "id" \in DOMAIN new[i] /\ new[i].id = genes[same[i]].id
    BY <1>3, <1>4
  <2> HIDE DEF same, n
  <2> QED
    BY <1>0, <1>3, <1>4, <2>1, RenewedGenes DEF n
<1> HIDE DEF same, T
<1>5. CASE mutation.type = "remove_layer"
  <2>1. Apply(mutation, genes, id) = RemoveLayer(genes, p)
    BY <1>5 DEF Apply
  <2>2. CASE ~InRange(p, genes)
    BY <1>1, <2>1, <2>2 DEF RemoveLayer
  <2>3. CASE InRange(p, genes)
    <3> DEFINE new == RemoveAt(genes, p + 1)
               at == [i \in 1..(n - 1) |-> IF i <= p THEN i ELSE i + 1]
    <3>1. p \in 0..(n - 1) /\ p \in Nat /\ n - 1 \in Nat
      BY <1>0, <2>3 DEF InRange
    <3> HIDE DEF n, p
    <3>5. at \in [1..(n - 1) -> 1..n] /\ IsInjective(at)
      <4>1. \A i \in 1..(n - 1) : at[i] = IF i <= p THEN i ELSE i + 1
        OBVIOUS
      <4>2. \A i \in 1..(n - 1) : at[i] \in 1..n
        BY <1>0, <3>1, <4>1
      <4>3. ASSUME NEW i \in 1..(n - 1), NEW j \in 1..(n - 1), at[i] = at[j]  PROVE i = j
        <5> HIDE DEF at
        <5> QED
          BY <3>1, <4>1, <4>3
      <4>4. at \in [1..(n - 1) -> 1..n]
        BY <4>2
      <4> HIDE DEF at
      <4> QED
        BY <4>3, <4>4 DEF IsInjective
    <3>6. new \in Seq(T) /\ Len(new) = n - 1 /\ \A i \in 1..(n - 1) : new[i] = genes[at[i]]
      BY <1>0, <3>1, RemovedElement DEF n
    <3>7. new = [i \in 1..(n - 1) |-> new[i]]
      <4> HIDE DEF new
      <4> QED
        BY <3>6
    <3>8. \A i \in 1..(n - 1) : "id" \in DOMAIN new[i] /\ new[i].id = genes[at[i]].id
      <4> HIDE DEF new, at
      <4> QED
        BY <1>2, <3>5, <3>6
    <3> HIDE DEF new, at
    <3>9. GenesOf(new, ids)
      BY <3>1, <3>5, <3>7, <3>8, RenewedGenes DEF n
    <3> QED
      BY <1>1, <2>1, <2>3, <3>9 DEF RemoveLayer, new, p
  <2> QED
    BY <2>2, <2>3
<1>6. CASE mutation.type = "widen_layer"
  <2> DEFINE d == mutation.dim
             next == {i \in (p + 2)..Len(genes) : genes[i].in > 0}
             widened == [genes EXCEPT ![p + 1].out = d]
             both == [widened EXCEPT ![Min(next)].in = d]
  <2>1. Apply(mutation, genes, id) = WidenLayer(genes, p, d)
    BY <1>6 DEF Apply
  <2>2. WidenLayer(genes, p, d) \in {genes, widened, both}
    <3> HIDE DEF both, widened, next, d, p
    <3>1. WidenLayer(genes, p, d) =
            CASE ~InRange(p, genes) -> genes
              [] InRange(p, genes) /\ next = {} -> widened
              [] InRange(p, genes) /\ next # {} -> both
      BY DEF WidenLayer, both, widened, next
    <3> QED
      BY <3>1
  <2>3. /\ widened = [i \in 1..n |-> widened[i]]
        /\ \A i \in 1..n : "id" \in DOMAIN widened[i] /\ widened[i].id = genes[i].id
    <3> HIDE DEF n, p, d
    <3> QED
      BY <1>0, <1>2
  <2>4. GenesOf(widened, ids)
    <3> HIDE DEF widened
    <3> QED
      BY <1>4, <2>3
  <2>5. /\ both = [i \in 1..n |-> both[i]]
        /\ \A i \in 1..n : "id" \in DOMAIN both[i] /\ both[i].id = genes[i].id
    <3> DEFINE m == Min(next)
    <3> HIDE DEF widened, m, n, d
    <3> QED
      BY <2>3 DEF m
  <2>6. GenesOf(both, ids)
    <3> HIDE DEF both
    <3> QED
      BY <1>4, <2>5
  <2> QED
    BY <1>1, <2>1, <2>2, <2>4, <2>6
<1>7. CASE mutation.type = "insert_skip"
  <2> DEFINE skipped == [genes EXCEPT ![p + 1].skip = mutation.source]
  <2>1. Apply(mutation, genes, id) \in {genes, skipped}
    BY <1>7 DEF Apply, InsertSkip
  <2>2. /\ skipped = [i \in 1..n |-> skipped[i]]
        /\ \A i \in 1..n : "id" \in DOMAIN skipped[i] /\ skipped[i].id = genes[i].id
    <3> HIDE DEF n, p
    <3> QED
      BY <1>0, <1>2
  <2>3. GenesOf(skipped, ids)
    <3> HIDE DEF skipped
    <3> QED
      BY <1>4, <2>2
  <2> QED
    BY <1>1, <2>1, <2>3
<1>8. CASE mutation.type = "swap_activation"
  <2> DEFINE swapped == [genes EXCEPT ![p + 1].activation = mutation.activation]
  <2>1. Apply(mutation, genes, id) \in {genes, swapped}
    BY <1>8 DEF Apply, SwapActivation
  <2>2. /\ swapped = [i \in 1..n |-> swapped[i]]
        /\ \A i \in 1..n : "id" \in DOMAIN swapped[i] /\ swapped[i].id = genes[i].id
    <3> HIDE DEF n, p
    <3> QED
      BY <1>0, <1>2
  <2>3. GenesOf(swapped, ids)
    <3> HIDE DEF swapped
    <3> QED
      BY <1>4, <2>2
  <2> QED
    BY <1>1, <2>1, <2>3
<1>9. CASE mutation.type = "add_layer"
  <2> DEFINE gene == [mutation.gene EXCEPT !.id = id]
             c == Min({p, n})
             new == InsertAt(genes, c + 1, gene)
             U == T \cup {gene}
  <2>1. Apply(mutation, genes, id) = new
    BY <1>9 DEF Apply, AddLayer
  <2>2. "id" \in DOMAIN gene /\ gene.id = id
    BY <1>9
  <2>3. c \in 0..n
    <3>1. p \in Nat
      BY <1>9
    <3> HIDE DEF n, p
    <3>2. CASE p <= n
      <4>1. \A x \in {p, n} : (\A y \in {p, n} : x <= y) => x = p
        BY <1>0, <3>1, <3>2
      <4>2. c = p
        BY <1>0, <3>1, <3>2, <4>1 DEF Min
      <4> QED
        BY <1>0, <3>1, <3>2, <4>2
    <3>3. CASE n <= p
      <4>1. \A x \in {p, n} : (\A y \in {p, n} : x <= y) => x = n
        BY <1>0, <3>1, <3>3
      <4>2. c = n
        BY <1>0, <3>1, <3>3, <4>1 DEF Min
      <4> QED
        BY <1>0, <4>2
    <3> QED
      BY <1>0, <3>1, <3>2, <3>3
  <2> HIDE DEF n, gene, c
  <2>5. genes \in Seq(U) /\ gene \in U
    <3>1. T \subseteq U /\ gene \in U
      OBVIOUS
    <3> HIDE DEF U
    <3> QED
      BY <1>0, <3>1
  <2> HIDE DEF U
  <2> DEFINE at(i) == IF i <= c THEN i ELSE i - 1
  <2>7. /\ new \in Seq(U) /\ Len(new) = n + 1 /\ new[c + 1] = gene
        /\ \A i \in 1..(n + 1) : i # c + 1 => new[i] = genes[at(i)]
    <3>1. c \in 0..Len(genes)
      BY <2>3 DEF n
    <3>2. /\ InsertAt(genes, c + 1, gene) \in Seq(U)
          /\ Len(InsertAt(genes, c + 1, gene)) = n + 1
          /\ InsertAt(genes, c + 1, gene)[c + 1] = gene
          /\ \A i \in 1..(n + 1) : i # c + 1 =>
               InsertAt(genes, c + 1, gene)[i] = genes[IF i <= c THEN i ELSE i - 1]
      BY <2>5, <3>1, InsertedElement DEF n
    <3> QED
      BY <3>2, Zenon
  <2> HIDE DEF new
  <2>8. ASSUME NEW i \in 1..(n + 1), i # c + 1
        PROVE  at(i) \in 1..n /\ new[i] = genes[at(i)]
    BY <1>0, <2>3, <2>7, <2>8
  <2>9. \A i \in 1..(n + 1) : i # c + 1 => new[i].id \in ids
    BY <2>8 DEF GenesOf, n
  <2>10. ASSUME NEW i \in 1..(n + 1), NEW j \in 1..(n + 1), new[i].id = new[j].id
         PROVE  i = j
    <3>1. CASE i # c + 1 /\ j # c + 1
      <4>1. at(i) \in 1..n /\ at(j) \in 1..n /\ genes[at(i)].id = genes[at(j)].id
        BY <2>8, <2>10, <3>1
      <4>2. at(i) = at(j)
        <5> HIDE DEF at
        <5> QED
          BY <4>1 DEF GenesOf, n
      <4> QED
        BY <1>0, <2>3, <3>1, <4>2
    <3>2. CASE i = c + 1 \/ j = c + 1
      <4>1. \A k \in 1..(n + 1) : k # c + 1 => new[k].id # id
        BY <2>9
      <4>2. new[c + 1].id = id
        BY <2>2, <2>7
      <4> QED
        BY <2>10, <3>2, <4>1, <4>2
    <3> QED
      BY <3>1, <3>2
  <2>11. new \in Seq(ToSet(new))
    <3>1. DOMAIN new = 1..(n + 1) /\ new = [i \in 1..(n + 1) |-> new[i]] /\ n + 1 \in Nat
      BY <1>0, <2>7
    <3> DEFINE V == ToSet(new)
    <3>2. \A i \in 1..(n + 1) : new[i] \in V
      BY <3>1 DEF ToSet
    <3> HIDE DEF V
    <3>3. new \in Seq(V)
      BY <3>1, <3>2
    <3> QED
      BY <3>3 DEF V
  <2>12. \A i \in 1..(n + 1) : "id" \in DOMAIN new[i] /\ new[i].id \in ids \cup {id}
    BY <1>2, <2>2, <2>7, <2>8, <2>9
  <2>13. GenesOf(new, ids \cup {id})
    BY <2>7, <2>10, <2>11, <2>12 DEF GenesOf
  <2> QED
    BY <2>1, <2>13
<1> QED
  BY <1>5, <1>6, <1>7, <1>8, <1>9 DEF MutationType

-----------------------------------------------------------------------------
(* The genes of a genome, as Genes computes them.                          *)
Builds(f, proposals, what, n) ==
  f = [m \in 0..n |-> IF m = 0 THEN FirstGenes
                      ELSE Apply(what[proposals[m]], f[m - 1], proposals[m])]

(* Such a function exists here as well,                                    *)
LEMMA BuiltExists ==
  ASSUME NEW n \in Nat, NEW proposals, NEW what
  PROVE  \E f : Builds(f, proposals, what, n)
<1> DEFINE bad == {m \in Nat : ~ \E f : Builds(f, proposals, what, m)}
<1>1. bad = {}
  <2> SUFFICES ASSUME bad # {}  PROVE FALSE
    OBVIOUS
  <2>1. bad \in SUBSET Nat
    OBVIOUS
  <2>2. PICK m \in bad : \A e \in bad : m <= e
    BY <2>1, LeastNatural
  <2>3. m \in Nat /\ ~ \E f : Builds(f, proposals, what, m)
    OBVIOUS
  <2>4. m # 0
    <3>1. Builds([k \in 0..0 |-> FirstGenes], proposals, what, 0)
      BY DEF Builds
    <3> QED
      BY <2>3, <3>1
  <2>5. m - 1 \in Nat /\ m - 1 \notin bad
    <3>1. m - 1 \in Nat /\ ~(m <= m - 1)
      BY <2>3, <2>4
    <3> QED
      BY <2>2, <3>1
  <2>6. PICK f : Builds(f, proposals, what, m - 1)
    BY <2>5
  <2> DEFINE next(g, k) == Apply(what[proposals[k]], g[k - 1], proposals[k])
             h == [k \in 0..m |-> IF k = 0 THEN FirstGenes ELSE next(f, k)]
  <2>7. \A k \in 0..m : k # 0 => k - 1 \in 0..(m - 1) /\ k - 1 \in 0..m
    BY <2>3
  <2>8. \A k \in 0..(m - 1) : h[k] = f[k]
    <3>1. \A k \in 0..(m - 1) : k \in 0..m
      BY <2>3
    <3> QED
      BY <2>6, <3>1 DEF Builds
  <2>9. \A k \in 0..m : k # 0 => next(f, k) = next(h, k)
    <3> HIDE DEF h
    <3> QED
      BY <2>7, <2>8
  <2>10. h = [k \in 0..m |-> IF k = 0 THEN FirstGenes ELSE next(h, k)]
    <3> HIDE DEF next
    <3> QED
      BY <2>9
  <2>11. Builds(h, proposals, what, m)
    <3> HIDE DEF h
    <3> QED
      BY <2>10 DEF Builds
  <2> HIDE DEF h
  <2> QED
    BY <2>3, <2>11
<1> QED
  BY <1>1

(* A genome of different proposals has genes of different ids.             *)
LEMMA GenesAreOwn ==
  ASSUME NEW what \in [Proposal -> Mutations], NEW proposals \in Seq(Proposal),
         IsInjective(proposals)
  PROVE  OwnIds(Genes(proposals, what))
<1> DEFINE n == Len(proposals)
           f == CHOOSE u : u = [m \in 0..n |-> IF m = 0 THEN FirstGenes
                  ELSE Apply(what[proposals[m]], u[m - 1], proposals[m])]
           value(m) == IF m = 0 THEN FirstGenes
                       ELSE Apply(what[proposals[m]], f[m - 1], proposals[m])
           first == {FirstGenes[i].id : i \in 1..Len(FirstGenes)}
           have(m) == first \cup {proposals[i] : i \in 1..m}
           bad == {m \in 0..n : ~GenesOf(f[m], have(m))}
<1>0. n \in Nat /\ DOMAIN proposals = 1..n /\ \A i \in 1..n : proposals[i] \in Proposal
  OBVIOUS
<1>1. Genes(proposals, what) = f[n]
  BY DEF Genes
<1>2. ASSUME NEW u
      PROVE  Builds(u, proposals, what, n) <=>
               u = [m \in 0..n |-> IF m = 0 THEN FirstGenes
                    ELSE Apply(what[proposals[m]], u[m - 1], proposals[m])]
  BY DEF Builds
<1>3. Builds(f, proposals, what, n)
  <2>1. \E u : Builds(u, proposals, what, n)
    BY <1>0, BuiltExists
  <2> QED
    BY <1>2, <2>1
<1> HIDE DEF f, n
<1>4. f = [m \in 0..n |-> value(m)]
  BY <1>3 DEF Builds
<1>5. 0 \in 0..n /\ \A m \in 1..n : m \in 0..n /\ m # 0
  BY <1>0
<1>6. value(0) = FirstGenes
      /\ \A m \in 1..n : value(m) = Apply(what[proposals[m]], f[m - 1], proposals[m])
  BY <1>5
<1> HIDE DEF value
<1>7. \A m \in 0..n : f[m] = value(m)
  BY <1>4
<1>8. GenesOf(f[0], have(0))
  <2>1. f[0] = FirstGenes /\ have(0) = first
    BY <1>5, <1>6, <1>7
  <2>2. GenesOf(FirstGenes, first)
    BY GenesAssumption DEF GenesOf
  <2> QED
    BY <2>1, <2>2
<1>9. ASSUME NEW m \in 1..n  PROVE have(m) = have(m - 1) \cup {proposals[m]} /\ proposals[m] \notin have(m - 1)
  <2>1. {proposals[i] : i \in 1..m} = {proposals[i] : i \in 1..(m - 1)} \cup {proposals[m]}
    <3>1. \A i \in 1..m : i = m \/ i \in 1..(m - 1)
      BY <1>0
    <3>2. m \in 1..m /\ \A i \in 1..(m - 1) : i \in 1..m
      BY <1>0
    <3> QED
      BY <3>1, <3>2
  <2>2. proposals[m] \notin first
    BY <1>0, GenesAssumption
  <2>3. ASSUME NEW i \in 1..(m - 1)  PROVE proposals[i] # proposals[m]
    <3>1. i \in 1..n /\ i # m
      BY <1>0
    <3> QED
      BY <1>0, <3>1 DEF IsInjective
  <2> HIDE DEF first
  <2> QED
    BY <2>1, <2>2, <2>3
<1>10. bad = {}
  <2> SUFFICES ASSUME bad # {}  PROVE FALSE
    OBVIOUS
  <2>1. bad \in SUBSET Nat
    BY <1>0
  <2>2. PICK m \in bad : \A e \in bad : m <= e
    BY <2>1, LeastNatural
  <2>3. m \in 0..n /\ ~GenesOf(f[m], have(m))
    OBVIOUS
  <2> HIDE DEF have
  <2>4. m \in 1..n /\ m - 1 \in 0..n /\ ~(m <= m - 1)
    <3>1. m # 0
      BY <1>8, <2>3
    <3> QED
      BY <1>0, <2>3, <3>1
  <2>5. GenesOf(f[m - 1], have(m - 1))
    BY <2>2, <2>4
  <2> DEFINE mutation == what[proposals[m]]
  <2>6. mutation \in Mutations
    BY <1>0, <2>4
  <2>7. GenesOf(Apply(mutation, f[m - 1], proposals[m]), have(m - 1) \cup {proposals[m]})
    <3>1. /\ mutation.type \in MutationType
          /\ mutation.type = "add_layer" => mutation.position \in Nat /\ "id" \in DOMAIN mutation.gene
      BY <2>6, GenesAssumption
    <3>2. proposals[m] \notin have(m - 1)
      BY <1>9, <2>4
    <3> HIDE DEF mutation
    <3> QED
      BY <2>5, <3>1, <3>2, AppliedGenes
  <2>8. f[m] = Apply(mutation, f[m - 1], proposals[m])
    <3>1. f[m] = value(m)
      BY <1>7, <2>3
    <3> QED
      BY <1>6, <2>4, <3>1
  <2>9. have(m) = have(m - 1) \cup {proposals[m]}
    BY <1>9, <2>4
  <2> HIDE DEF mutation
  <2>10. GenesOf(f[m], have(m - 1) \cup {proposals[m]})
    BY <2>7, <2>8
  <2>11. GenesOf(f[m], have(m))
    BY <2>9, <2>10
  <2> QED
    BY <2>3, <2>11
<1> HIDE DEF have
<1>11. GenesOf(f[n], have(n))
  <2>1. n \in 0..n
    BY <1>0
  <2>2. n \notin bad
    <3> HIDE DEF bad
    <3> QED
      BY <1>10
  <2> QED
    BY <2>1, <2>2
<1> QED
  BY <1>1, <1>11, GenesOfOwn

-----------------------------------------------------------------------------
(* The genes of every genome of a list, as GenesOfAll computes them.       *)
ListsGenes(f, genomes, what, n) ==
  f = [m \in 0..n |-> IF m = 0 THEN << >> ELSE Append(f[m - 1], Genes(genomes[m], what))]

(* and here.                                                               *)
LEMMA ListedExists ==
  ASSUME NEW n \in Nat, NEW genomes, NEW what
  PROVE  \E f : ListsGenes(f, genomes, what, n)
<1> DEFINE bad == {m \in Nat : ~ \E f : ListsGenes(f, genomes, what, m)}
<1>1. bad = {}
  <2> SUFFICES ASSUME bad # {}  PROVE FALSE
    OBVIOUS
  <2>1. bad \in SUBSET Nat
    OBVIOUS
  <2>2. PICK m \in bad : \A e \in bad : m <= e
    BY <2>1, LeastNatural
  <2>3. m \in Nat /\ ~ \E f : ListsGenes(f, genomes, what, m)
    OBVIOUS
  <2>4. m # 0
    <3>1. ListsGenes([k \in 0..0 |-> << >>], genomes, what, 0)
      BY DEF ListsGenes
    <3> QED
      BY <2>3, <3>1
  <2>5. m - 1 \in Nat /\ m - 1 \notin bad
    <3>1. m - 1 \in Nat /\ ~(m <= m - 1)
      BY <2>3, <2>4
    <3> QED
      BY <2>2, <3>1
  <2>6. PICK f : ListsGenes(f, genomes, what, m - 1)
    BY <2>5
  <2> DEFINE next(g, k) == Append(g[k - 1], Genes(genomes[k], what))
             h == [k \in 0..m |-> IF k = 0 THEN << >> ELSE next(f, k)]
  <2>7. \A k \in 0..m : k # 0 => k - 1 \in 0..(m - 1) /\ k - 1 \in 0..m
    BY <2>3
  <2>8. \A k \in 0..(m - 1) : h[k] = f[k]
    <3>1. \A k \in 0..(m - 1) : k \in 0..m
      BY <2>3
    <3> QED
      BY <2>6, <3>1 DEF ListsGenes
  <2>9. \A k \in 0..m : k # 0 => next(f, k) = next(h, k)
    <3> HIDE DEF h
    <3> QED
      BY <2>7, <2>8
  <2>10. h = [k \in 0..m |-> IF k = 0 THEN << >> ELSE next(h, k)]
    <3> HIDE DEF next
    <3> QED
      BY <2>9
  <2>11. ListsGenes(h, genomes, what, m)
    <3> HIDE DEF h
    <3> QED
      BY <2>10 DEF ListsGenes
  <2> HIDE DEF h
  <2> QED
    BY <2>3, <2>11
<1> QED
  BY <1>1

(* GenesOfAll gives the genes of each genome, in order.                    *)
LEMMA ListedGenes ==
  ASSUME NEW genomes, NEW what, NEW n \in Nat, Len(genomes) = n
  PROVE  /\ Len(GenesOfAll(genomes, what)) = n /\ DOMAIN GenesOfAll(genomes, what) = 1..n
         /\ \A i \in 1..n : GenesOfAll(genomes, what)[i] = Genes(genomes[i], what)
<1> DEFINE piece(m) == Genes(genomes[m], what)
           T == {piece(m) : m \in 1..n}
           f == CHOOSE u : u = [m \in 0..n |-> IF m = 0 THEN << >> ELSE Append(u[m - 1], piece(m))]
           value(m) == IF m = 0 THEN << >> ELSE Append(f[m - 1], piece(m))
           good(m) == /\ f[m] \in Seq(T) /\ Len(f[m]) = m
                      /\ \A i \in 1..m : f[m][i] = piece(i)
           bad == {m \in 0..n : ~good(m)}
<1>1. GenesOfAll(genomes, what) = f[n]
  BY DEF GenesOfAll
<1>2. ASSUME NEW u
      PROVE  ListsGenes(u, genomes, what, n) <=>
               u = [m \in 0..n |-> IF m = 0 THEN << >> ELSE Append(u[m - 1], piece(m))]
  BY DEF ListsGenes
<1>3. ListsGenes(f, genomes, what, n)
  <2>1. \E u : ListsGenes(u, genomes, what, n)
    BY ListedExists
  <2> QED
    BY <1>2, <2>1
<1> HIDE DEF f
<1>4. f = [m \in 0..n |-> value(m)]
  BY <1>3 DEF ListsGenes
<1>5. 0 \in 0..n /\ \A m \in 1..n : m \in 0..n /\ m # 0
  OBVIOUS
<1>6. value(0) = << >> /\ \A m \in 1..n : value(m) = Append(f[m - 1], piece(m))
  BY <1>5
<1>7. \A m \in 1..n : piece(m) \in T
  OBVIOUS
<1> HIDE DEF value, piece, T
<1>8. \A m \in 0..n : f[m] = value(m)
  BY <1>4
<1>9. bad = {}
  <2> SUFFICES ASSUME bad # {}  PROVE FALSE
    OBVIOUS
  <2>1. bad \in SUBSET Nat
    OBVIOUS
  <2>2. PICK m \in bad : \A e \in bad : m <= e
    BY <2>1, LeastNatural
  <2>3. m \in 0..n /\ ~good(m)
    OBVIOUS
  <2>4. m # 0
    <3>1. f[0] = << >>
      BY <1>5, <1>6, <1>8
    <3>2. good(0)
      BY <3>1
    <3> QED
      BY <2>3, <3>2
  <2>5. m \in 1..n /\ m - 1 \in 0..n /\ ~(m <= m - 1)
    BY <2>3, <2>4
  <2>6. good(m - 1)
    BY <2>2, <2>5
  <2> DEFINE s == f[m - 1]
             x == piece(m)
  <2>7. f[m] = Append(s, x)
    <3>1. f[m] = value(m)
      BY <1>8, <2>3
    <3> QED
      BY <1>6, <2>5, <3>1
  <2>8. s \in Seq(T) /\ Len(s) = m - 1 /\ x \in T /\ \A i \in 1..(m - 1) : s[i] = piece(i)
    BY <1>7, <2>5, <2>6
  <2> HIDE DEF s, x
  <2>9. Append(s, x) \in Seq(T) /\ Len(Append(s, x)) = m
        /\ Append(s, x)[m] = x /\ \A i \in 1..(m - 1) : Append(s, x)[i] = s[i]
    BY <2>5, <2>8
  <2>10. ASSUME NEW i \in 1..m  PROVE Append(s, x)[i] = piece(i)
    <3>1. i = m \/ i \in 1..(m - 1)
      BY <2>5
    <3> QED
      BY <2>8, <2>9, <3>1 DEF x
  <2> QED
    BY <2>3, <2>7, <2>9, <2>10
<1>10. good(n)
  <2>1. n \in 0..n /\ n \notin bad
    BY <1>9
  <2> QED
    BY <2>1
<1>11. DOMAIN f[n] = 1..n
  BY <1>10
<1> QED
  BY <1>1, <1>10, <1>11 DEF piece

(* Along any list of genomes of different proposals, whatever mutations    *)
(* those make, every leading gene keeps its weights.                       *)
LEMMA GenomesKeepWeights ==
  ASSUME NEW what \in [Proposal -> Mutations], NEW n \in Nat, n > 0,
         NEW genomes, Len(genomes) = n,
         \A i \in 1..n : genomes[i] \in Seq(Proposal) /\ IsInjective(genomes[i])
  PROVE  LeadingKeepWeights(GenesOfAll(genomes, what))
<1>1. \A i \in 1..n : OwnIds(GenesOfAll(genomes, what)[i])
  BY ListedGenes, GenesAreOwn
<1> QED
  BY <1>1, ListedGenes, GenesKeepWeights

-----------------------------------------------------------------------------
(* The inductive invariant: a peer only adopts genomes of different        *)
(* proposals that have all been broadcast.                                 *)
BroadcastIds == {q.id : q \in proposed}
Adoptable(g) == g \in Seq(Proposal) /\ IsInjective(g) /\ ToSet(g) \subseteq BroadcastIds

AdoptionInv ==
  /\ genome \in [Peer -> Seq(Proposal)]
  /\ history \in [Peer -> Seq(Seq(Proposal))]
  /\ \A p \in Peer :
       /\ Adoptable(genome[p])
       /\ Len(history[p]) \in 1..(Cardinality(Proposal) + 1)
       /\ history[p][1] = << >>
       /\ \A i \in 1..Len(history[p]) : Adoptable(history[p][i])
  /\ \A q \in proposed : Adoptable(q.new)

(* There are finitely many proposals.                                      *)
LEMMA ProposalsCounted == Cardinality(Proposal) \in Nat
  BY GenesAssumption, FS_CardinalityType

(* A genome stays one of different proposals with an id not yet used.      *)
LEMMA AdoptableExtended ==
  ASSUME NEW g, Adoptable(g), NEW id \in Proposal, id \notin BroadcastIds
  PROVE  Append(g, id) \in Seq(Proposal) /\ IsInjective(Append(g, id))
         /\ ToSet(Append(g, id)) \subseteq BroadcastIds \cup {id}
<1> DEFINE n == Len(g)
           h == Append(g, id)
<1>1. /\ g \in Seq(Proposal) /\ n \in Nat /\ DOMAIN g = 1..n
      /\ \A i \in 1..n : g[i] \in BroadcastIds
      /\ \A i, j \in 1..n : g[i] = g[j] => i = j
  BY DEF Adoptable, IsInjective, ToSet
<1>2. /\ h \in Seq(Proposal) /\ DOMAIN h = 1..(n + 1)
      /\ \A i \in 1..n : h[i] = g[i]
      /\ h[n + 1] = id
  BY <1>1
<1>3. \A i \in 1..(n + 1) : i \in 1..n \/ i = n + 1
  BY <1>1
<1> HIDE DEF n, h
<1>4. IsInjective(h)
  <2>1. ASSUME NEW i \in 1..(n + 1), NEW j \in 1..(n + 1), h[i] = h[j]  PROVE i = j
    BY <1>1, <1>2, <1>3, <2>1
  <2> QED
    BY <1>2, <2>1 DEF IsInjective
<1>5. ToSet(h) \subseteq BroadcastIds \cup {id}
  BY <1>1, <1>2, <1>3 DEF ToSet
<1> QED
  BY <1>2, <1>4, <1>5 DEF h

(* Proposing keeps the invariant,                                          *)
LEMMA AdoptionProposeStep ==
  ASSUME AdoptionInv, NEW p \in Peer, NEW id \in Proposal, ProposeMutation(p, id)
  PROVE  AdoptionInv'
<1> DEFINE q == [id |-> id, proposer |-> p, base |-> genome[p], new |-> Append(genome[p], id)]
<1>1. proposed' = proposed \cup {q} /\ UNCHANGED <<genome, history>> /\ id \notin BroadcastIds
  BY DEF ProposeMutation, BroadcastIds
<1>2. q.id = id /\ q.new = Append(genome[p], id)
  OBVIOUS
<1> HIDE DEF q
<1>3. BroadcastIds' = BroadcastIds \cup {id}
  BY <1>1, <1>2 DEF BroadcastIds
<1>4. \A g : Adoptable(g) => Adoptable(g)'
  BY <1>3 DEF Adoptable
<1>5. \A g : g = Append(genome[p], id) => Adoptable(g)'
  <2>1. Adoptable(genome[p])
    BY DEF AdoptionInv
  <2>2. /\ Append(genome[p], id) \in Seq(Proposal) /\ IsInjective(Append(genome[p], id))
        /\ ToSet(Append(genome[p], id)) \subseteq BroadcastIds \cup {id}
    BY <1>1, <2>1, AdoptableExtended
  <2> QED
    BY <1>3, <2>2 DEF Adoptable
<1>6. ASSUME NEW r \in proposed'  PROVE Adoptable(r.new)'
  <2>1. CASE r \in proposed
    BY <1>4, <2>1 DEF AdoptionInv
  <2>2. CASE r = q
    <3>1. r.new = Append(genome[p], id)
      BY <1>2, <2>2
    <3> QED
      BY <1>5, <3>1
  <2> QED
    BY <1>1, <2>1, <2>2
<1>7. \A r \in Peer : /\ Adoptable(genome[r])'
                      /\ \A i \in 1..Len(history[r]) : Adoptable(history[r][i])'
  <2>1. \A r \in Peer : /\ Adoptable(genome[r])
                        /\ \A i \in 1..Len(history[r]) : Adoptable(history[r][i])
    BY DEF AdoptionInv
  <2>2. genome' = genome /\ history' = history
    BY <1>1
  <2> QED
    BY <1>3, <2>1, <2>2 DEF Adoptable
<1> QED
  BY <1>1, <1>6, <1>7 DEF AdoptionInv

(* and so does adopting what was proposed, a second time too.              *)
LEMMA AdoptionTallyStep ==
  ASSUME AdoptionInv, NEW p \in Peer, NEW q \in proposed, TallyVotes(p, q)
  PROVE  AdoptionInv'
<1>1. /\ genome' = [genome EXCEPT ![p] = q.new]
      /\ history' = [history EXCEPT ![p] = Append(@, q.new)]
      /\ proposed' = proposed /\ Len(history[p]) <= Cardinality(Proposal)
  BY DEF TallyVotes
<1>2. BroadcastIds' = BroadcastIds
  BY <1>1 DEF BroadcastIds
<1>3. \A g : Adoptable(g)' <=> Adoptable(g)
  BY <1>2 DEF Adoptable
<1>4. Adoptable(q.new) /\ q.new \in Seq(Proposal)
  BY DEF AdoptionInv, Adoptable
<1> DEFINE old == history[p]
           n == Len(old)
           x == q.new
           longer == Append(old, x)
<1>5. /\ old \in Seq(Seq(Proposal)) /\ n \in 1..(Cardinality(Proposal) + 1) /\ old[1] = << >>
      /\ \A i \in 1..n : Adoptable(old[i])
  BY DEF AdoptionInv
<1>6. n \in 1..Cardinality(Proposal)
  BY <1>1, <1>5, ProposalsCounted
<1> HIDE DEF old, x
<1>7. /\ longer \in Seq(Seq(Proposal)) /\ Len(longer) = n + 1 /\ longer[n + 1] = x
      /\ \A i \in 1..n : longer[i] = old[i]
  BY <1>4, <1>5 DEF x
<1> HIDE DEF n, longer
<1>8. /\ longer \in Seq(Seq(Proposal))
      /\ Len(longer) \in 1..(Cardinality(Proposal) + 1) /\ longer[1] = << >>
      /\ \A i \in 1..Len(longer) : Adoptable(longer[i])
  <2>1. Len(longer) \in 1..(Cardinality(Proposal) + 1) /\ 1 \in 1..n
    BY <1>6, <1>7, ProposalsCounted
  <2>2. \A i \in 1..(n + 1) : i \in 1..n \/ i = n + 1
    BY <1>6, ProposalsCounted
  <2>3. ASSUME NEW i \in 1..Len(longer)  PROVE Adoptable(longer[i])
    BY <1>4, <1>5, <1>7, <2>2 DEF x
  <2> QED
    BY <1>5, <1>7, <2>1, <2>3
<1>9. history' = [history EXCEPT ![p] = longer]
  BY <1>1 DEF longer, old, x
<1>10. history \in [Peer -> Seq(Seq(Proposal))] /\ genome \in [Peer -> Seq(Proposal)]
  BY DEF AdoptionInv
<1>11. history' \in [Peer -> Seq(Seq(Proposal))] /\ genome' \in [Peer -> Seq(Proposal)]
  BY <1>1, <1>4, <1>8, <1>9, <1>10
<1>12. ASSUME NEW r \in Peer
       PROVE  /\ Adoptable(genome'[r])
              /\ Len(history'[r]) \in 1..(Cardinality(Proposal) + 1)
              /\ history'[r][1] = << >>
              /\ \A i \in 1..Len(history'[r]) : Adoptable(history'[r][i])
  <2>1. CASE r = p
    <3>1. history'[r] = longer /\ genome'[r] = q.new
      BY <1>1, <1>9, <1>10, <2>1
    <3> QED
      BY <1>4, <1>8, <3>1
  <2>2. CASE r # p
    <3>1. history'[r] = history[r] /\ genome'[r] = genome[r]
      BY <1>1, <1>10, <2>2
    <3> QED
      BY <3>1 DEF AdoptionInv
  <2> QED
    BY <2>1, <2>2
<1>13. \A r \in proposed' : Adoptable(r.new)
  BY <1>1 DEF AdoptionInv
<1>14. \A r \in Peer :
         /\ Adoptable(genome[r])'
         /\ (Len(history[r]) \in 1..(Cardinality(Proposal) + 1))'
         /\ (history[r][1] = << >>)'
         /\ \A i \in 1..Len(history'[r]) : Adoptable(history[r][i])'
  BY <1>2, <1>12 DEF Adoptable
<1>15. \A r \in proposed' : Adoptable(r.new)'
  BY <1>2, <1>13 DEF Adoptable
<1> QED
  BY <1>11, <1>14, <1>15 DEF AdoptionInv

(* The other steps leave all this alone.                                   *)
LEMMA AdoptionUnchanged ==
  ASSUME AdoptionInv, UNCHANGED <<genome, history, proposed>>
  PROVE  AdoptionInv'
BY DEF AdoptionInv, Adoptable, BroadcastIds

(* Every list a peer can have adopted is among those TLC enumerates.       *)
LEMMA AdoptedIsKeeping ==
  ASSUME AdoptionInv, NEW p \in Peer
  PROVE  history[p] \in KeepingHistories
<1> DEFINE h == history[p]
           n == Len(h)
           g == [i \in 1..(n - 1) |-> h[i + 1]]
<1>1. /\ h \in Seq(Seq(Proposal)) /\ n \in 1..(Cardinality(Proposal) + 1) /\ h[1] = << >>
      /\ \A i \in 1..n : Adoptable(h[i])
  BY DEF AdoptionInv
<1> HIDE DEF h
<1>2. n \in Nat /\ n - 1 \in 0..Cardinality(Proposal) /\ n > 0 /\ DOMAIN h = 1..n
  BY <1>1, ProposalsCounted
<1>3. ASSUME NEW i \in 1..n  PROVE h[i] \in Genomes
  <2> DEFINE s == h[i]
  <2>1. s \in Seq(Proposal) /\ IsInjective(s)
    BY <1>1 DEF Adoptable
  <2> HIDE DEF s
  <2>2. Len(s) \in 0..Cardinality(Proposal)
    <3>1. IsFiniteSet(ToSet(s)) /\ Cardinality(ToSet(s)) = Len(s)
      BY <2>1, LengthOfInjective
    <3>2. ToSet(s) \subseteq Proposal
      BY <2>1 DEF ToSet
    <3>3. Cardinality(ToSet(s)) <= Cardinality(Proposal)
      BY <3>2, GenesAssumption, FS_Subset
    <3> QED
      BY <2>1, <3>1, <3>3, ProposalsCounted
  <2>3. s \in [1..Len(s) -> Proposal]
    BY <2>1
  <2>4. s \in SeqOf(Proposal, Cardinality(Proposal))
    BY <2>2, <2>3 DEF SeqOf
  <2>5. s \in Genomes
    BY <2>1, <2>4 DEF Genomes
  <2> QED
    BY <2>5 DEF s
<1>4. g \in SeqOf(Genomes, Cardinality(Proposal))
  <2>1. \A i \in 1..(n - 1) : i + 1 \in 1..n
    BY <1>2
  <2> DEFINE m == n - 1
  <2>2. g \in [1..m -> Genomes]
    BY <1>3, <2>1
  <2> HIDE DEF g, m
  <2>3. m \in 0..Cardinality(Proposal)
    BY <1>2 DEF m
  <2> QED
    BY <2>2, <2>3 DEF SeqOf
<1>5. h = << << >> >> \o g
  <2> DEFINE S == Seq(Proposal)
             one == << << >> >>
  <2>1. one \in Seq(S) /\ Len(one) = 1 /\ one[1] = << >>
    OBVIOUS
  <2>2. g \in Seq(S) /\ Len(g) = n - 1 /\ \A i \in 1..(n - 1) : g[i] = h[i + 1]
    <3>1. \A i \in 1..(n - 1) : i + 1 \in 1..n /\ h[i + 1] \in S
      BY <1>1, <1>2
    <3>2. n - 1 \in Nat
      BY <1>2
    <3> QED
      BY <3>1, <3>2
  <2> HIDE DEF S, one, g, n
  <2>3. /\ one \o g \in Seq(S) /\ Len(one \o g) = Len(one) + Len(g)
        /\ \A i \in 1..(Len(one) + Len(g)) :
             (one \o g)[i] = IF i <= Len(one) THEN one[i] ELSE g[i - Len(one)]
    <3>1. one \in Seq(S) /\ g \in Seq(S)
      BY <2>1, <2>2
    <3> QED
      BY <3>1, ConcatProperties, Zenon
  <2>4. Len(one) + Len(g) = n
    BY <1>2, <2>1, <2>2
  <2>5. ASSUME NEW i \in 1..n  PROVE h[i] = (one \o g)[i]
    <3>1. CASE i = 1
      BY <1>1, <2>1, <2>3, <2>4, <3>1
    <3>2. CASE i # 1
      <4>1. i - 1 \in 1..(n - 1) /\ (i - 1) + 1 = i /\ ~(i <= 1)
        BY <1>2, <3>2
      <4>2. g[i - 1] = h[i]
        BY <2>2, <4>1
      <4> QED
        BY <2>1, <2>3, <2>4, <4>1, <4>2
    <3> QED
      BY <3>1, <3>2
  <2>6. h \in Seq(S) /\ Len(h) = n
    BY <1>1 DEF S, n
  <2>7. h = one \o g
    BY <2>3, <2>4, <2>5, <2>6, SeqEqual
  <2> QED
    BY <2>7 DEF one
<1>6. ASSUME NEW what \in [Proposal -> Mutations]
      PROVE  LeadingKeepWeights(GenesOfAll(h, what))
  <2>1. \A i \in 1..n : h[i] \in Seq(Proposal) /\ IsInjective(h[i])
    BY <1>1 DEF Adoptable
  <2> QED
    BY <1>2, <2>1, GenomesKeepWeights
<1> HIDE DEF g
<1> QED
  BY <1>4, <1>5, <1>6 DEF KeepingHistories, h

(* Whatever a peer adopts, in whatever order and however often, migration  *)
(* never gives a leading gene another's weights nor drops its own: every   *)
(* gene up to the first that does not compile to exactly one module, that  *)
(* one included. Of later genes MatchingLayersKeepWeights is refuted.      *)
THEOREM LeadingGenesKept == EvolutionSpec => []LeadingGenesKeepWeights
<1>1. EvolutionInit => AdoptionInv
  <2> SUFFICES ASSUME EvolutionInit  PROVE AdoptionInv
    OBVIOUS
  <2>1. Adoptable(<< >>)
    BY DEF Adoptable, IsInjective, ToSet
  <2>2. \A p \in Peer : genome[p] = << >> /\ history[p] = << << >> >>
    BY DEF EvolutionInit
  <2>3. /\ Len(<< << >> >>) = 1 /\ << << >> >>[1] = << >>
        /\ \A i \in 1..1 : i = 1
    OBVIOUS
  <2>4. genome \in [Peer -> Seq(Proposal)] /\ history \in [Peer -> Seq(Seq(Proposal))]
    BY DEF EvolutionInit
  <2>5. 1 \in 1..(Cardinality(Proposal) + 1)
    BY ProposalsCounted
  <2>6. proposed = {}
    BY DEF EvolutionInit
  <2>7. ASSUME NEW p \in Peer
        PROVE  /\ Adoptable(genome[p])
               /\ Len(history[p]) \in 1..(Cardinality(Proposal) + 1)
               /\ history[p][1] = << >>
               /\ \A i \in 1..Len(history[p]) : Adoptable(history[p][i])
    BY <2>1, <2>2, <2>3, <2>5
  <2> QED
    BY <2>4, <2>6, <2>7 DEF AdoptionInv
<1>2. AdoptionInv /\ [EvolutionNext]_evolutionVars => AdoptionInv'
  <2> SUFFICES ASSUME AdoptionInv, [EvolutionNext]_evolutionVars  PROVE AdoptionInv'
    OBVIOUS
  <2>1. ASSUME NEW p \in Peer, NEW id \in Proposal, ProposeMutation(p, id)  PROVE AdoptionInv'
    BY <2>1, AdoptionProposeStep
  <2>2. ASSUME NEW p \in Peer, NEW q \in proposed, ReceiveProposal(p, q)  PROVE AdoptionInv'
    BY <2>2, AdoptionUnchanged DEF ReceiveProposal
  <2>3. ASSUME NEW p \in Peer, NEW v \in sent, ReceiveVote(p, v)  PROVE AdoptionInv'
    BY <2>3, AdoptionUnchanged DEF ReceiveVote
  <2>4. ASSUME NEW p \in Peer, NEW q \in proposed, TallyVotes(p, q)  PROVE AdoptionInv'
    BY <2>4, AdoptionTallyStep
  <2>5. ASSUME UNCHANGED evolutionVars  PROVE AdoptionInv'
    BY <2>5, AdoptionUnchanged DEF evolutionVars
  <2> QED
    BY <2>1, <2>2, <2>3, <2>4, <2>5 DEF EvolutionNext
<1>3. AdoptionInv => LeadingGenesKeepWeights
  BY AdoptedIsKeeping DEF LeadingGenesKeepWeights
<1> QED
  BY <1>1, <1>2, <1>3, PTL DEF EvolutionSpec

-----------------------------------------------------------------------------
(* The layers of a tree, each made of the one before.                      *)
Layering(f, leaves, n) ==
  f = [k \in 0..n |-> IF k = 0 THEN leaves ELSE NextLayer(f[k - 1])]

LEMMA LayersExist ==
  ASSUME NEW n \in Nat, NEW leaves
  PROVE  \E f : Layering(f, leaves, n)
<1> DEFINE bad == {m \in Nat : ~ \E f : Layering(f, leaves, m)}
<1>1. bad = {}
  <2> SUFFICES ASSUME bad # {}  PROVE FALSE
    OBVIOUS
  <2>1. bad \in SUBSET Nat
    OBVIOUS
  <2>2. PICK m \in bad : \A e \in bad : m <= e
    BY <2>1, LeastNatural
  <2>3. m \in Nat /\ ~ \E f : Layering(f, leaves, m)
    OBVIOUS
  <2>4. m # 0
    <3>1. Layering([k \in 0..0 |-> leaves], leaves, 0)
      BY DEF Layering
    <3> QED
      BY <2>3, <3>1
  <2>5. m - 1 \in Nat /\ m - 1 \notin bad
    <3>1. m - 1 \in Nat /\ ~(m <= m - 1)
      BY <2>3, <2>4
    <3> QED
      BY <2>2, <3>1
  <2>6. PICK f : Layering(f, leaves, m - 1)
    BY <2>5
  <2> DEFINE next(g, k) == NextLayer(g[k - 1])
             h == [k \in 0..m |-> IF k = 0 THEN leaves ELSE next(f, k)]
  <2>7. \A k \in 0..m : k # 0 => k - 1 \in 0..(m - 1) /\ k - 1 \in 0..m
    BY <2>3
  <2>8. \A k \in 0..(m - 1) : h[k] = f[k]
    <3>1. \A k \in 0..(m - 1) : k \in 0..m
      BY <2>3
    <3> QED
      BY <2>6, <3>1 DEF Layering
  <2>9. \A k \in 0..m : k # 0 => next(f, k) = next(h, k)
    <3> HIDE DEF h
    <3> QED
      BY <2>7, <2>8
  <2>10. h = [k \in 0..m |-> IF k = 0 THEN leaves ELSE next(h, k)]
    <3> HIDE DEF next
    <3> QED
      BY <2>9
  <2>11. Layering(h, leaves, m)
    <3> HIDE DEF h
    <3> QED
      BY <2>10 DEF Layering
  <2> HIDE DEF h
  <2> QED
    BY <2>3, <2>11
<1> QED
  BY <1>1

LEMMA LayerSteps ==
  ASSUME NEW n \in Nat, NEW leaves, NEW f, Layering(f, leaves, n)
  PROVE  f[0] = leaves /\ \A k \in 1..n : f[k] = NextLayer(f[k - 1])
<1> DEFINE value(k) == IF k = 0 THEN leaves ELSE NextLayer(f[k - 1])
<1>1. f = [k \in 0..n |-> value(k)]
  BY DEF Layering
<1>2. 0 \in 0..n /\ \A k \in 1..n : k \in 0..n /\ k # 0
  OBVIOUS
<1>3. value(0) = leaves /\ \A k \in 1..n : value(k) = NextLayer(f[k - 1])
  BY <1>2
<1> HIDE DEF value
<1>4. \A k \in 0..n : f[k] = value(k)
  BY <1>1
<1>5. ASSUME NEW k \in 1..n  PROVE f[k] = NextLayer(f[k - 1])
  <2>1. f[k] = value(k)
    BY <1>2, <1>4
  <2>2. value(k) = NextLayer(f[k - 1])
    BY <1>3
  <2> QED
    BY <2>1, <2>2
<1> QED
  BY <1>2, <1>3, <1>4, <1>5

(* A node is d turns above the leaf its left children lead to.             *)
LeftDepth(t, d) ==
  \E f : /\ f[0] = t /\ f[d][1] = "leaf"
         /\ \A i \in 1..d : f[i - 1][1] = "node" /\ f[i] = f[i - 1][2]

LEMMA LeftDepthOfLeaf ==
  ASSUME NEW name, NEW data
  PROVE  LeftDepth(Leaf(name, data), 0)
<1> DEFINE f == [i \in 0..0 |-> Leaf(name, data)]
<1>1. f[0] = Leaf(name, data) /\ f[0][1] = "leaf"
  BY DEF Leaf
<1>2. \A i \in 1..0 : FALSE
  OBVIOUS
<1> HIDE DEF f
<1> QED
  BY <1>1, <1>2 DEF LeftDepth

LEMMA LeftDepthOfPair ==
  ASSUME NEW l, NEW r, NEW d \in Nat, LeftDepth(l, d)
  PROVE  LeftDepth(Pair(l, r), d + 1)
<1>1. PICK f : /\ f[0] = l /\ f[d][1] = "leaf"
               /\ \A i \in 1..d : f[i - 1][1] = "node" /\ f[i] = f[i - 1][2]
  BY DEF LeftDepth
<1> DEFINE g == [i \in 0..(d + 1) |-> IF i = 0 THEN Pair(l, r) ELSE f[i - 1]]
<1>2. g[0] = Pair(l, r) /\ \A i \in 1..(d + 1) : g[i] = f[i - 1]
  OBVIOUS
<1>3. Pair(l, r)[1] = "node" /\ Pair(l, r)[2] = l
  BY DEF Pair
<1> HIDE DEF g
<1>4. g[d + 1][1] = "leaf"
  <2>1. d + 1 \in 1..(d + 1) /\ (d + 1) - 1 = d
    OBVIOUS
  <2> QED
    BY <1>1, <1>2, <2>1
<1>5. ASSUME NEW i \in 1..(d + 1)  PROVE g[i - 1][1] = "node" /\ g[i] = g[i - 1][2]
  <2>1. CASE i = 1
    <3>1. g[1] = f[0] /\ g[0] = Pair(l, r)
      <4>1. 1 \in 1..(d + 1) /\ 1 - 1 = 0
        OBVIOUS
      <4> QED
        BY <1>2, <4>1
    <3> QED
      BY <1>1, <1>3, <2>1, <3>1
  <2>2. CASE i # 1
    <3>1. i - 1 \in 1..d /\ i - 1 \in 1..(d + 1)
      BY <2>2
    <3>2. g[i] = f[i - 1] /\ g[i - 1] = f[(i - 1) - 1]
      BY <1>2, <3>1
    <3> QED
      BY <1>1, <3>1, <3>2
  <2> QED
    BY <2>1, <2>2
<1> QED
  BY <1>2, <1>4, <1>5 DEF LeftDepth

LEMMA LeftDepthIsOne ==
  ASSUME NEW t, NEW c \in Nat, NEW d \in Nat, LeftDepth(t, c), LeftDepth(t, d)
  PROVE  c = d
<1> SUFFICES ASSUME NEW a \in Nat, NEW b \in Nat, LeftDepth(t, a), LeftDepth(t, b), a < b
             PROVE  FALSE
  <2>1. ~(c < d) /\ ~(d < c)
    OBVIOUS
  <2> QED
    BY <2>1
<1>1. PICK f : /\ f[0] = t /\ f[a][1] = "leaf"
               /\ \A i \in 1..a : f[i - 1][1] = "node" /\ f[i] = f[i - 1][2]
  BY DEF LeftDepth
<1>2. PICK g : /\ g[0] = t /\ g[b][1] = "leaf"
               /\ \A i \in 1..b : g[i - 1][1] = "node" /\ g[i] = g[i - 1][2]
  BY DEF LeftDepth
<1> DEFINE bad == {i \in 0..a : f[i] # g[i]}
<1>3. bad = {}
  <2> SUFFICES ASSUME bad # {}  PROVE FALSE
    OBVIOUS
  <2>1. bad \in SUBSET Nat
    OBVIOUS
  <2>2. PICK m \in bad : \A e \in bad : m <= e
    BY <2>1, LeastNatural
  <2>3. m \in 0..a /\ f[m] # g[m]
    OBVIOUS
  <2>4. m # 0
    BY <1>1, <1>2, <2>3
  <2>5. m \in 1..a /\ m \in 1..b /\ m - 1 \in 0..a /\ ~(m <= m - 1)
    BY <2>3, <2>4
  <2>6. f[m - 1] = g[m - 1]
    BY <2>2, <2>5
  <2> QED
    BY <1>1, <1>2, <2>3, <2>5, <2>6
<1>4. f[a] = g[a]
  <2>1. a \in 0..a
    OBVIOUS
  <2> QED
    BY <1>3, <2>1
<1>5. g[a][1] = "node"
  <2>1. a + 1 \in 1..b /\ (a + 1) - 1 = a
    OBVIOUS
  <2> QED
    BY <1>2, <2>1
<1> QED
  BY <1>1, <1>4, <1>5

LEMMA LeftDepthShows ==
  ASSUME NEW t, NEW d \in Nat, LeftDepth(t, d)
  PROVE  t[1] \in {"leaf", "node"}
<1>1. PICK f : /\ f[0] = t /\ f[d][1] = "leaf"
               /\ \A i \in 1..d : f[i - 1][1] = "node" /\ f[i] = f[i - 1][2]
  BY DEF LeftDepth
<1>2. CASE d = 0
  BY <1>1, <1>2
<1>3. CASE d # 0
  <2>1. 1 \in 1..d /\ 1 - 1 = 0
    BY <1>3
  <2> QED
    BY <1>1, <2>1
<1> QED
  BY <1>2, <1>3

-----------------------------------------------------------------------------
(* The next layer has half as many nodes, rounded up.                      *)
LEMMA Halves ==
  ASSUME NEW n \in Nat
  PROVE  (n + 1) \div 2 \in Nat /\ (2 * ((n + 1) \div 2) = n \/ 2 * ((n + 1) \div 2) = n + 1)
OBVIOUS

LEMMA NextLayerIs ==
  ASSUME NEW layer, NEW n \in Nat, Len(layer) = n, NEW h \in Nat, h = (n + 1) \div 2
  PROVE  /\ Len(NextLayer(layer)) = h
         /\ NextLayer(layer) = [i \in 1..h |-> NextLayer(layer)[i]]
         /\ \A i \in 1..h : NextLayer(layer)[i] =
              IF 2 * i <= n THEN Pair(layer[2 * i - 1], layer[2 * i]) ELSE layer[2 * i - 1]
<1> DEFINE value(i) == IF 2 * i <= n THEN Pair(layer[2 * i - 1], layer[2 * i]) ELSE layer[2 * i - 1]
           T == {value(i) : i \in 1..h}
           s == [i \in 1..h |-> value(i)]
<1>1. NextLayer(layer) = s
  BY DEF NextLayer
<1>2. \A i \in 1..h : value(i) \in T
  OBVIOUS
<1> HIDE DEF value, T
<1>3. s \in [1..h -> T]
  BY <1>2
<1>4. s \in Seq(T) /\ Len(s) = h
  BY <1>3
<1>5. \A i \in 1..h : s[i] = value(i)
  OBVIOUS
<1>6. s = [i \in 1..h |-> s[i]]
  BY <1>3
<1> HIDE DEF s
<1> QED
  BY <1>1, <1>4, <1>5, <1>6 DEF value

(* The d-th layer above the leaves: all its nodes but the last, which may  *)
(* have been promoted, are d turns above their first leaf.                 *)
Grown(layer, d) ==
  /\ Len(layer) \in Nat \ {0} /\ layer = [i \in 1..Len(layer) |-> layer[i]]
  /\ \A i \in 1..(Len(layer) - 1) : LeftDepth(layer[i], d)
  /\ \E e \in 0..d : LeftDepth(layer[Len(layer)], e)

LEMMA GrownNext ==
  ASSUME NEW layer, NEW d \in Nat, Grown(layer, d)
  PROVE  Grown(NextLayer(layer), d + 1)
<1> DEFINE n == Len(layer)
           h == (n + 1) \div 2
           next == NextLayer(layer)
<1>0. n \in Nat /\ n > 0
  BY DEF Grown
<1>1. n \in Nat /\ n > 0 /\ h \in Nat /\ (2 * h = n \/ 2 * h = n + 1)
  <2> HIDE DEF n
  <2>1. h \in Nat /\ (2 * h = n \/ 2 * h = n + 1)
    BY <1>0, Halves
  <2> QED
    BY <1>0, <2>1
<1>2. /\ Len(next) = h /\ next = [i \in 1..h |-> next[i]]
      /\ \A i \in 1..h : next[i] = IF 2 * i <= n THEN Pair(layer[2 * i - 1], layer[2 * i])
                                   ELSE layer[2 * i - 1]
  BY <1>1, NextLayerIs
<1>3. ASSUME NEW i \in 1..h, 2 * i <= n  PROVE LeftDepth(next[i], d + 1)
  <2>1. 2 * i - 1 \in 1..(n - 1)
    BY <1>1, <1>3
  <2>2. LeftDepth(layer[2 * i - 1], d)
    BY <2>1 DEF Grown
  <2>3. next[i] = Pair(layer[2 * i - 1], layer[2 * i])
    BY <1>2, <1>3
  <2> QED
    BY <2>2, <2>3, LeftDepthOfPair
<1>4. h > 0
  BY <1>1
<1> HIDE DEF h, next
<1>5. \A i \in 1..(h - 1) : LeftDepth(next[i], d + 1)
  <2>1. \A i \in 1..(h - 1) : i \in 1..h /\ 2 * i <= n
    BY <1>1
  <2> QED
    BY <1>3, <2>1
<1>6. \E e \in 0..(d + 1) : LeftDepth(next[h], e)
  <2>1. h \in 1..h /\ d + 1 \in 0..(d + 1)
    BY <1>1, <1>4
  <2>2. CASE 2 * h <= n
    BY <1>3, <2>1, <2>2
  <2>3. CASE ~(2 * h <= n)
    <3>1. 2 * h - 1 = n
      BY <1>1, <2>3
    <3>2. next[h] = layer[n]
      BY <1>2, <2>1, <2>3, <3>1
    <3>3. PICK e \in 0..d : LeftDepth(layer[n], e)
      BY DEF Grown
    <3>4. e \in 0..(d + 1)
      OBVIOUS
    <3> QED
      BY <3>2, <3>3, <3>4
  <2> QED
    BY <2>2, <2>3
<1>7. Len(next) = h /\ next = [i \in 1..h |-> next[i]] /\ h \in Nat \ {0}
  BY <1>1, <1>2, <1>4
<1> HIDE DEF n
<1>8. Grown(next, d + 1)
  BY <1>5, <1>6, <1>7 DEF Grown
<1> QED
  BY <1>8 DEF next

(* From a layer one can tell the one below, an odd node included: what was *)
(* promoted is less deep than what was combined.                           *)
LEMMA NextLayerTells ==
  ASSUME NEW a, NEW b, NEW d \in Nat, Grown(a, d), Grown(b, d), NextLayer(a) = NextLayer(b)
  PROVE  Len(a) = Len(b) /\ a = b
<1> DEFINE h(s) == (Len(s) + 1) \div 2
           next(s) == NextLayer(s)
<1>1. ASSUME NEW s, Grown(s, d)
      PROVE  /\ Len(s) \in Nat /\ Len(s) > 0 /\ h(s) \in Nat
             /\ 2 * h(s) = Len(s) \/ 2 * h(s) = Len(s) + 1
             /\ Len(next(s)) = h(s)
             /\ \A i \in 1..h(s) : next(s)[i] =
                  IF 2 * i <= Len(s) THEN Pair(s[2 * i - 1], s[2 * i]) ELSE s[2 * i - 1]
  <2>1. Len(s) \in Nat /\ Len(s) > 0
    BY <1>1 DEF Grown
  <2>2. h(s) \in Nat /\ (2 * h(s) = Len(s) \/ 2 * h(s) = Len(s) + 1)
    <3> DEFINE n == Len(s)
    <3> HIDE DEF n
    <3>1. (n + 1) \div 2 \in Nat /\ (2 * ((n + 1) \div 2) = n \/ 2 * ((n + 1) \div 2) = n + 1)
      <4>1. n \in Nat
        BY <2>1 DEF n
      <4> QED
        BY <4>1, Halves
    <3> QED
      BY <3>1 DEF n
  <2> QED
    BY <2>1, <2>2, NextLayerIs
<1> HIDE DEF h, next
<1>2. h(a) = h(b) /\ next(a) = next(b)
  BY <1>1 DEF next
<1>3. ASSUME NEW s, NEW t, Grown(s, d), Grown(t, d), h(s) = h(t), next(s) = next(t)
      PROVE  ~(2 * h(s) = Len(s) + 1 /\ 2 * h(t) = Len(t))
  <2> SUFFICES ASSUME 2 * h(s) = Len(s) + 1, 2 * h(t) = Len(t)  PROVE FALSE
    OBVIOUS
  <2>1. h(s) \in 1..h(s) /\ ~(2 * h(s) <= Len(s)) /\ 2 * h(s) - 1 = Len(s)
    BY <1>1, <1>3
  <2>2. h(t) \in 1..h(t) /\ 2 * h(t) <= Len(t) /\ 2 * h(t) - 1 \in 1..(Len(t) - 1)
    BY <1>1, <1>3
  <2>3. next(s)[h(s)] = s[Len(s)]
    BY <1>1, <1>3, <2>1
  <2>4. next(t)[h(t)] = Pair(t[2 * h(t) - 1], t[2 * h(t)])
    BY <1>1, <1>3, <2>2
  <2>5. PICK e \in 0..d : LeftDepth(s[Len(s)], e)
    BY <1>3 DEF Grown
  <2>6. LeftDepth(next(t)[h(t)], d + 1)
    <3>1. LeftDepth(t[2 * h(t) - 1], d)
      BY <1>3, <2>2 DEF Grown
    <3> QED
      BY <2>4, <3>1, LeftDepthOfPair
  <2>7. LeftDepth(s[Len(s)], d + 1)
    BY <1>3, <2>3, <2>6
  <2>8. e \in Nat /\ d + 1 \in Nat /\ e # d + 1
    OBVIOUS
  <2> QED
    BY <2>5, <2>7, <2>8, LeftDepthIsOne
<1>4. Len(a) = Len(b)
  <2>1. ~(2 * h(a) = Len(a) + 1 /\ 2 * h(b) = Len(b))
    BY <1>2, <1>3
  <2>2. ~(2 * h(b) = Len(b) + 1 /\ 2 * h(a) = Len(a))
    BY <1>2, <1>3
  <2>3. /\ Len(a) \in Nat /\ h(a) \in Nat /\ (2 * h(a) = Len(a) \/ 2 * h(a) = Len(a) + 1)
        /\ Len(b) \in Nat /\ h(b) \in Nat /\ (2 * h(b) = Len(b) \/ 2 * h(b) = Len(b) + 1)
    BY <1>1
  <2> QED
    BY <1>2, <2>1, <2>2, <2>3
<1> DEFINE n == Len(a)
<1>5. ASSUME NEW i \in 1..h(a)
      PROVE  /\ 2 * i <= n => a[2 * i - 1] = b[2 * i - 1] /\ a[2 * i] = b[2 * i]
             /\ ~(2 * i <= n) => a[2 * i - 1] = b[2 * i - 1]
  <2>1. next(a)[i] = next(b)[i]
    BY <1>2
  <2>2. next(a)[i] = IF 2 * i <= n THEN Pair(a[2 * i - 1], a[2 * i]) ELSE a[2 * i - 1]
    BY <1>1
  <2>3. next(b)[i] = IF 2 * i <= n THEN Pair(b[2 * i - 1], b[2 * i]) ELSE b[2 * i - 1]
    BY <1>1, <1>2, <1>4
  <2>4. CASE 2 * i <= n
    <3>1. Pair(a[2 * i - 1], a[2 * i]) = Pair(b[2 * i - 1], b[2 * i])
      BY <2>1, <2>2, <2>3, <2>4
    <3> QED
      BY <2>4, <3>1 DEF Pair
  <2>5. CASE ~(2 * i <= n)
    BY <2>1, <2>2, <2>3, <2>5
  <2> QED
    BY <2>4, <2>5
<1>6. ASSUME NEW j \in 1..n  PROVE a[j] = b[j]
  <2>1. n \in Nat /\ h(a) \in Nat /\ (2 * h(a) = n \/ 2 * h(a) = n + 1)
    BY <1>1
  <2>2. PICK i \in 1..h(a) : j = 2 * i \/ j = 2 * i - 1
    <3> DEFINE i == (j + 1) \div 2
    <3>1. j \in Nat /\ j > 0 /\ j <= n
      BY <2>1
    <3>2. i \in Nat /\ (2 * i = j \/ 2 * i = j + 1)
      BY <3>1, Halves
    <3> HIDE DEF i
    <3>3. i \in 1..h(a) /\ (j = 2 * i \/ j = 2 * i - 1)
      BY <2>1, <3>1, <3>2
    <3> QED
      BY <3>3
  <2>3. j = 2 * i => 2 * i <= n
    BY <2>1
  <2> QED
    BY <1>5, <2>2, <2>3
<1>7. /\ a = [j \in 1..n |-> a[j]] /\ b = [j \in 1..n |-> b[j]]
  BY <1>4 DEF Grown
<1> HIDE DEF n
<1>8. a = b
  BY <1>6, <1>7
<1> QED
  BY <1>4, <1>8

-----------------------------------------------------------------------------
LEMMA TreeLayersGrow ==
  ASSUME NEW n \in Nat, NEW leaves, Grown(leaves, 0), NEW f, Layering(f, leaves, n)
  PROVE  \A k \in 0..n : Grown(f[k], k)
<1> DEFINE bad == {k \in 0..n : ~Grown(f[k], k)}
<1>1. f[0] = leaves /\ \A k \in 1..n : f[k] = NextLayer(f[k - 1])
  BY LayerSteps
<1>2. bad = {}
  <2> SUFFICES ASSUME bad # {}  PROVE FALSE
    OBVIOUS
  <2>1. bad \in SUBSET Nat
    OBVIOUS
  <2>2. PICK m \in bad : \A e \in bad : m <= e
    BY <2>1, LeastNatural
  <2>3. m \in 0..n /\ ~Grown(f[m], m)
    OBVIOUS
  <2>4. m # 0
    BY <1>1, <2>3
  <2>5. m \in 1..n /\ m - 1 \in Nat /\ m - 1 \in 0..n /\ ~(m <= m - 1) /\ (m - 1) + 1 = m
    BY <2>3, <2>4
  <2>6. Grown(f[m - 1], m - 1)
    BY <2>2, <2>5
  <2>7. Grown(NextLayer(f[m - 1]), (m - 1) + 1)
    BY <2>5, <2>6, GrownNext
  <2> QED
    BY <1>1, <2>3, <2>5, <2>7
<1> QED
  BY <1>2

(* A layer is shorter than the one below, until one node is left.          *)
LEMMA LayersShrink ==
  ASSUME NEW n \in Nat, NEW leaves, Grown(leaves, 0), NEW f, Layering(f, leaves, n)
  PROVE  \A k \in 0..n : Len(f[k]) = 1 \/ Len(f[k]) <= Len(leaves) - k
<1> DEFINE small(k) == Len(f[k]) = 1 \/ Len(f[k]) <= Len(leaves) - k
           bad == {k \in 0..n : ~small(k)}
<1>1. f[0] = leaves /\ \A k \in 1..n : f[k] = NextLayer(f[k - 1])
  BY LayerSteps
<1>2. ASSUME NEW k \in 0..n  PROVE Len(f[k]) \in Nat /\ Len(f[k]) > 0
  <2>1. Grown(f[k], k)
    BY TreeLayersGrow
  <2> QED
    BY <2>1 DEF Grown
<1>3. Len(leaves) \in Nat
  BY DEF Grown
<1>4. bad = {}
  <2> SUFFICES ASSUME bad # {}  PROVE FALSE
    OBVIOUS
  <2>1. bad \in SUBSET Nat
    OBVIOUS
  <2>2. PICK m \in bad : \A e \in bad : m <= e
    BY <2>1, LeastNatural
  <2>3. m \in 0..n /\ ~small(m)
    OBVIOUS
  <2>4. m # 0
    BY <1>1, <1>3, <2>3
  <2>5. m \in 1..n /\ m - 1 \in 0..n /\ ~(m <= m - 1)
    BY <2>3, <2>4
  <2>6. small(m - 1)
    <3> HIDE DEF small
    <3> QED
      BY <2>2, <2>5
  <2> DEFINE l == Len(f[m - 1])
             h == (l + 1) \div 2
  <2>7. l \in Nat /\ l > 0
    BY <1>2, <2>5
  <2>8. h \in Nat /\ (2 * h = l \/ 2 * h = l + 1)
    <3> HIDE DEF l
    <3> QED
      BY <2>7, Halves
  <2>9. Len(f[m]) = h
    <3>1. Len(NextLayer(f[m - 1])) = h
      BY <2>7, <2>8, NextLayerIs
    <3> QED
      BY <1>1, <2>5, <3>1
  <2>10. l = 1 \/ l <= Len(leaves) - (m - 1)
    BY <2>6
  <2> HIDE DEF l, h
  <2>11. h = 1 \/ h <= l - 1
    BY <2>7, <2>8
  <2>12. l = 1 => h = 1
    BY <2>7, <2>8
  <2>13. h = 1 \/ h <= Len(leaves) - m
    BY <1>3, <2>3, <2>7, <2>8, <2>10, <2>11, <2>12
  <2> QED
    BY <2>3, <2>9, <2>13
<1> HIDE DEF small
<1>5. \A k \in 0..n : small(k)
  BY <1>4
<1> QED
  BY <1>5 DEF small

LEMMA NextOfOne ==
  ASSUME NEW layer, Len(layer) = 1
  PROVE  NextLayer(layer)[1] = layer[1] /\ Len(NextLayer(layer)) = 1
<1>1. 1 \in Nat /\ 1 = (1 + 1) \div 2 /\ 1 \in 1..1 /\ ~(2 * 1 <= 1) /\ 2 * 1 - 1 = 1
  OBVIOUS
<1>2. /\ Len(NextLayer(layer)) = 1
      /\ \A i \in 1..1 : NextLayer(layer)[i] =
           IF 2 * i <= 1 THEN Pair(layer[2 * i - 1], layer[2 * i]) ELSE layer[2 * i - 1]
  BY <1>1, NextLayerIs
<1> QED
  BY <1>1, <1>2

(* Whatever layers are added above the root, it stays.                     *)
LEMMA RootStays ==
  ASSUME NEW n \in Nat, NEW m \in 0..n, NEW leaves, NEW f, Layering(f, leaves, n),
         Len(f[m]) = 1
  PROVE  Len(f[n]) = 1 /\ f[n][1] = f[m][1]
<1> DEFINE same(k) == Len(f[k]) = 1 /\ f[k][1] = f[m][1]
           bad == {k \in m..n : ~same(k)}
<1>1. f[0] = leaves /\ \A k \in 1..n : f[k] = NextLayer(f[k - 1])
  BY LayerSteps
<1>2. bad = {}
  <2> SUFFICES ASSUME bad # {}  PROVE FALSE
    OBVIOUS
  <2>1. bad \in SUBSET Nat
    OBVIOUS
  <2>2. PICK k \in bad : \A e \in bad : k <= e
    BY <2>1, LeastNatural
  <2>3. k \in m..n /\ ~same(k)
    OBVIOUS
  <2>4. k # m
    BY <2>3
  <2>5. k \in 1..n /\ k - 1 \in m..n /\ ~(k <= k - 1)
    BY <2>3, <2>4
  <2>6. same(k - 1)
    <3> HIDE DEF same
    <3> QED
      BY <2>2, <2>5
  <2>7. f[k] = NextLayer(f[k - 1])
    BY <1>1, <2>5
  <2> QED
    BY <2>3, <2>6, <2>7, NextOfOne
<1>3. n \in m..n
  OBVIOUS
<1> HIDE DEF same
<1>4. same(n)
  BY <1>2, <1>3
<1> QED
  BY <1>4 DEF same

(* layers are what the leaves make them, however many are looked at.       *)
LEMMA LayersAgree ==
  ASSUME NEW n \in Nat, NEW m \in 0..n, NEW leaves, NEW f, NEW g,
         Layering(f, leaves, n), Layering(g, leaves, m)
  PROVE  \A k \in 0..m : f[k] = g[k]
<1> DEFINE bad == {k \in 0..m : f[k] # g[k]}
<1>1. f[0] = leaves /\ \A k \in 1..n : f[k] = NextLayer(f[k - 1])
  BY LayerSteps
<1>2. g[0] = leaves /\ \A k \in 1..m : g[k] = NextLayer(g[k - 1])
  BY LayerSteps
<1>3. bad = {}
  <2> SUFFICES ASSUME bad # {}  PROVE FALSE
    OBVIOUS
  <2>1. bad \in SUBSET Nat
    OBVIOUS
  <2>2. PICK k \in bad : \A e \in bad : k <= e
    BY <2>1, LeastNatural
  <2>3. k \in 0..m /\ f[k] # g[k]
    OBVIOUS
  <2>4. k # 0
    BY <1>1, <1>2, <2>3
  <2>5. k \in 1..m /\ k \in 1..n /\ k - 1 \in 0..m /\ ~(k <= k - 1)
    BY <2>3, <2>4
  <2>6. f[k - 1] = g[k - 1]
    BY <2>2, <2>5
  <2> QED
    BY <1>1, <1>2, <2>3, <2>5, <2>6
<1> QED
  BY <1>3

(* The root of a list of leaves is alone in any layer high enough.         *)
LEMMA RootOfLayers ==
  ASSUME NEW leaves, Grown(leaves, 0), leaves # <<>>,
         NEW n \in Nat, Len(leaves) <= n, NEW f, Layering(f, leaves, n)
  PROVE  Len(f[n]) = 1 /\ MerkleRoot(leaves) = f[n][1]
<1> DEFINE m == Len(leaves)
           layers == CHOOSE g : g = [k \in 0..m |-> IF k = 0 THEN leaves ELSE NextLayer(g[k - 1])]
<1>1. m \in Nat /\ m \in 0..n /\ m \in 0..m
  BY DEF Grown
<1>2. Layering(layers, leaves, m)
  <2>0. PICK g : Layering(g, leaves, m)
    BY <1>1, LayersExist
  <2>1. g = [k \in 0..m |-> IF k = 0 THEN leaves ELSE NextLayer(g[k - 1])]
    BY <2>0 DEF Layering
  <2> QED
    BY <2>1, Zenon DEF Layering
<1>3. MerkleRoot(leaves) = layers[m][1]
  BY DEF MerkleRoot
<1> HIDE DEF m, layers
<1>4. f[m] = layers[m]
  BY <1>1, <1>2, LayersAgree
<1>5. Len(f[m]) = 1
  <2>1. Len(f[m]) = 1 \/ Len(f[m]) <= Len(leaves) - m
    BY <1>1, LayersShrink
  <2>2. Len(f[m]) \in Nat /\ Len(f[m]) > 0
    <3>1. Grown(f[m], m)
      BY <1>1, TreeLayersGrow
    <3> QED
      BY <3>1 DEF Grown
  <2> QED
    BY <1>1, <2>1, <2>2 DEF m
<1> QED
  BY <1>1, <1>3, <1>4, <1>5, RootStays

LeafList(l) ==
  /\ Len(l) \in Nat /\ l = [i \in 1..Len(l) |-> l[i]]
  /\ \A i \in 1..Len(l) : LeftDepth(l[i], 0)

LEMMA LeafListGrown ==
  ASSUME NEW l, LeafList(l)
  PROVE  /\ Len(l) \in Nat
         /\ Len(l) = 0 => l = <<>>
         /\ l # <<>> => Grown(l, 0)
<1>1. Len(l) \in Nat /\ l = [i \in 1..Len(l) |-> l[i]]
  BY DEF LeafList
<1>2. ASSUME Len(l) = 0  PROVE l = <<>>
  <2>1. l = [i \in 1..0 |-> l[i]]
    BY <1>1, <1>2
  <2>2. 1..0 = {}
    OBVIOUS
  <2> QED
    BY <2>1, <2>2
<1>3. ASSUME l # <<>>  PROVE Grown(l, 0)
  <2>1. Len(l) \in Nat \ {0}
    BY <1>1, <1>2, <1>3
  <2>2. Len(l) \in 1..Len(l) /\ 0 \in 0..0
    BY <2>1
  <2>3. \A i \in 1..Len(l) : LeftDepth(l[i], 0)
    BY DEF LeafList
  <2>4. \A i \in 1..(Len(l) - 1) : i \in 1..Len(l)
    BY <2>1
  <2>5. \E e \in 0..0 : LeftDepth(l[Len(l)], e)
    BY <2>2, <2>3
  <2> QED
    BY <1>1, <2>1, <2>3, <2>4, <2>5 DEF Grown
<1> QED
  BY <1>1, <1>2, <1>3

LEMMA RootIsNode ==
  ASSUME NEW l, LeafList(l), l # <<>>
  PROVE  MerkleRoot(l) # ZeroRoot
<1>1. Grown(l, 0) /\ Len(l) \in Nat
  BY LeafListGrown
<1>2. PICK f : Layering(f, l, Len(l))
  BY <1>1, LayersExist
<1>3. Len(f[Len(l)]) = 1 /\ MerkleRoot(l) = f[Len(l)][1]
  <2> DEFINE n == Len(l)
  <2>1. n \in Nat /\ Len(l) <= n
    BY <1>1
  <2>2. Layering(f, l, n)
    BY <1>2
  <2> HIDE DEF n
  <2>3. Len(f[n]) = 1 /\ MerkleRoot(l) = f[n][1]
    BY <1>1, <2>1, <2>2, RootOfLayers
  <2> QED
    BY <2>3 DEF n
<1>4. Grown(f[Len(l)], Len(l))
  <2>1. Len(l) \in 0..Len(l)
    BY <1>1
  <2> QED
    BY <1>1, <1>2, <2>1, TreeLayersGrow
<1>5. PICK e \in 0..Len(l) : LeftDepth(f[Len(l)][Len(f[Len(l)])], e)
  BY <1>4 DEF Grown
<1>6. LeftDepth(MerkleRoot(l), e) /\ e \in Nat
  BY <1>1, <1>3, <1>5
<1>7. MerkleRoot(l)[1] \in {"leaf", "node"}
  BY <1>6, LeftDepthShows
<1>8. ZeroRoot[1] = "zero"
  BY DEF ZeroRoot
<1> QED
  BY <1>7, <1>8

(* Lists of leaves with one root are one list: neither their lengths nor   *)
(* an odd node promoted can make two look alike.                           *)
LEMMA RootsTell ==
  ASSUME NEW a, NEW b, LeafList(a), LeafList(b), MerkleRoot(a) = MerkleRoot(b)
  PROVE  a = b
<1>0. MerkleRoot(<<>>) = ZeroRoot
  BY DEF MerkleRoot
<1>1. a = <<>> <=> b = <<>>
  BY <1>0, RootIsNode
<1> SUFFICES ASSUME a # <<>>, b # <<>>  PROVE a = b
  BY <1>1
<1>2. /\ Grown(a, 0) /\ Len(a) \in Nat
      /\ Grown(b, 0) /\ Len(b) \in Nat
  BY LeafListGrown
<1> DEFINE n == Len(a) + Len(b)
<1>3. n \in Nat /\ Len(a) <= n /\ Len(b) <= n
  BY <1>2
<1> HIDE DEF n
<1>4. PICK f : Layering(f, a, n)
  BY <1>3, LayersExist
<1>5. PICK g : Layering(g, b, n)
  BY <1>3, LayersExist
<1>6. f[0] = a /\ \A k \in 1..n : f[k] = NextLayer(f[k - 1])
  BY <1>3, <1>4, LayerSteps
<1>7. g[0] = b /\ \A k \in 1..n : g[k] = NextLayer(g[k - 1])
  BY <1>3, <1>5, LayerSteps
<1>8. \A k \in 0..n : Grown(f[k], k) /\ Grown(g[k], k)
  BY <1>2, <1>3, <1>4, <1>5, TreeLayersGrow
<1>9. f[n] = g[n]
  <2>1. Len(f[n]) = 1 /\ MerkleRoot(a) = f[n][1]
    BY <1>2, <1>3, <1>4, RootOfLayers
  <2>2. Len(g[n]) = 1 /\ MerkleRoot(b) = g[n][1]
    BY <1>2, <1>3, <1>5, RootOfLayers
  <2>3. n \in 0..n
    BY <1>3
  <2>4. f[n] = [i \in 1..Len(f[n]) |-> f[n][i]] /\ g[n] = [i \in 1..Len(g[n]) |-> g[n][i]]
    <3>1. Grown(f[n], n) /\ Grown(g[n], n)
      BY <1>8, <2>3
    <3> QED
      BY <3>1 DEF Grown
  <2>5. \A i \in 1..1 : i = 1
    OBVIOUS
  <2>6. \A i \in 1..1 : f[n][i] = g[n][i]
    BY <2>1, <2>2, <2>5
  <2> QED
    BY <2>1, <2>2, <2>4, <2>6
<1> DEFINE bad == {k \in 0..n : f[n - k] # g[n - k]}
<1>10. bad = {}
  <2> SUFFICES ASSUME bad # {}  PROVE FALSE
    OBVIOUS
  <2>1. bad \in SUBSET Nat
    OBVIOUS
  <2>2. PICK k \in bad : \A e \in bad : k <= e
    BY <2>1, LeastNatural
  <2>3. k \in 0..n /\ f[n - k] # g[n - k]
    OBVIOUS
  <2>4. k # 0
    <3>1. n - 0 = n
      BY <1>3
    <3> QED
      BY <1>9, <2>3, <3>1
  <2> DEFINE d == n - k
  <2>5. k - 1 \in 0..n /\ ~(k <= k - 1) /\ n - (k - 1) = d + 1 /\ d \in Nat /\ d \in 0..n
        /\ d + 1 \in 1..n /\ (d + 1) - 1 = d
    BY <1>3, <2>3, <2>4
  <2>6. f[d + 1] = g[d + 1]
    <3>1. k - 1 \notin bad
      BY <2>2, <2>5
    <3> QED
      BY <2>5, <3>1
  <2>7. f[d] # g[d]
    BY <2>3
  <2> HIDE DEF d
  <2>8. NextLayer(f[d]) = NextLayer(g[d])
    BY <1>6, <1>7, <2>5, <2>6
  <2>9. Grown(f[d], d) /\ Grown(g[d], d)
    BY <1>8, <2>5
  <2>10. f[d] = g[d]
    BY <2>5, <2>8, <2>9, NextLayerTells
  <2> QED
    BY <2>7, <2>10
<1>11. f[0] = g[0]
  <2>1. n \in 0..n /\ n - n = 0
    BY <1>3
  <2>2. f[n - n] = g[n - n]
    BY <1>10, <2>1
  <2> QED
    BY <2>1, <2>2
<1> QED
  BY <1>6, <1>7, <1>11

(* The root over names tells both the names and what they name.            *)
SameNamed(names, others, data, found) ==
  /\ Len(names) = Len(others)
  /\ \A i \in 1..Len(names) : names[i] = others[i] /\ data[names[i]] = found[names[i]]

LEMMA NamedRootsTell ==
  ASSUME NEW S, NEW T, NEW names \in Seq(S), NEW others \in Seq(T), NEW data, NEW found,
         NamedRoot(names, data) = NamedRoot(others, found)
  PROVE  SameNamed(names, others, data, found)
<1> DEFINE list(s, d) == [i \in 1..Len(s) |-> Leaf(s[i], d[s[i]])]
<1>1. ASSUME NEW U, NEW s \in Seq(U), NEW d
      PROVE  /\ LeafList(list(s, d)) /\ Len(list(s, d)) = Len(s)
             /\ \A i \in 1..Len(s) : list(s, d)[i] = Leaf(s[i], d[s[i]])
  <2> DEFINE n == Len(s)
             leaf(i) == Leaf(s[i], d[s[i]])
             V == {leaf(i) : i \in 1..n}
             l == [i \in 1..n |-> leaf(i)]
  <2>1. n \in Nat
    OBVIOUS
  <2>2. \A i \in 1..n : leaf(i) \in V
    OBVIOUS
  <2>3. \A i \in 1..n : LeftDepth(leaf(i), 0)
    BY LeftDepthOfLeaf
  <2> HIDE DEF n, leaf, V
  <2>4. l \in [1..n -> V]
    BY <2>2
  <2>5. Len(l) = n /\ \A i \in 1..n : l[i] = leaf(i)
    BY <2>1, <2>4
  <2>6. l = [i \in 1..n |-> l[i]]
    BY <2>4
  <2> HIDE DEF l
  <2>7. LeafList(l)
    BY <2>1, <2>3, <2>5, <2>6 DEF LeafList
  <2> QED
    BY <2>5, <2>7 DEF l, n, leaf
<1>2. MerkleRoot(list(names, data)) = MerkleRoot(list(others, found))
  BY DEF NamedRoot
<1> DEFINE a == list(names, data)
           b == list(others, found)
<1>3. /\ LeafList(a) /\ Len(a) = Len(names)
      /\ \A i \in 1..Len(names) : a[i] = Leaf(names[i], data[names[i]])
  BY <1>1
<1>4. /\ LeafList(b) /\ Len(b) = Len(others)
      /\ \A i \in 1..Len(others) : b[i] = Leaf(others[i], found[others[i]])
  BY <1>1
<1>5. MerkleRoot(a) = MerkleRoot(b)
  BY <1>2
<1> HIDE DEF a, b, list
<1>6. a = b
  BY <1>3, <1>4, <1>5, RootsTell
<1>7. Len(names) = Len(others)
  BY <1>3, <1>4, <1>6
<1>8. ASSUME NEW i \in 1..Len(names)
      PROVE  names[i] = others[i] /\ data[names[i]] = found[names[i]]
  <2>1. Leaf(names[i], data[names[i]]) = Leaf(others[i], found[others[i]])
    BY <1>3, <1>4, <1>6, <1>7
  <2> QED
    BY <2>1 DEF Leaf
<1> QED
  BY <1>7, <1>8 DEF SameNamed

-----------------------------------------------------------------------------
LEMMA MoreTimes ==
  ASSUME NEW a \in Nat, NEW b \in Nat, NEW w \in Nat, a < b
  PROVE  a * w + w <= b * w
<1> DEFINE c == b - a - 1
<1>1. c \in Nat /\ b = a + (1 + c)
  OBVIOUS
<1> HIDE DEF c
<1>2. (a + (1 + c)) * w = a * w + (w + c * w)
  BY <1>1
<1>3. c * w \in Nat /\ a * w \in Nat
  BY <1>1
<1> QED
  BY <1>1, <1>2, <1>3

(* At each place of the order by magnitude there is a cell.                *)
LEMMA PlaceTaken ==
  ASSUME NEW cells \in Seq(Int), NEW k \in 1..Len(cells)
  PROVE  \E i \in DOMAIN cells : Cardinality(Ahead(cells, i)) = k - 1
<1> DEFINE n == Len(cells)
           mag(i) == Magnitude(cells[i])
           v == [i \in 1..n |-> i - mag(i) * (n + 1)]
<1>1. n \in Nat /\ DOMAIN cells = 1..n /\ \A i \in 1..n : cells[i] \in Int
  OBVIOUS
<1>2. \A i \in 1..n : mag(i) \in Nat
  BY <1>1 DEF Magnitude
<1>3. IsFiniteSet(1..n) /\ Cardinality(1..n) = n
  <2> HIDE DEF n
  <2> QED
    BY <1>1, FS_Interval
<1> HIDE DEF mag
<1>4. v \in [1..n -> Int] /\ \A i \in 1..n : v[i] = i - mag(i) * (n + 1)
  <2>1. \A i \in 1..n : i - mag(i) * (n + 1) \in Int
    BY <1>1, <1>2
  <2> QED
    BY <2>1
<1> HIDE DEF v
<1>5. ASSUME NEW i \in 1..n, NEW j \in 1..n
      PROVE  v[j] < v[i] <=> mag(j) > mag(i) \/ (mag(j) = mag(i) /\ j < i)
  <2>1. /\ mag(i) \in Nat /\ mag(j) \in Nat /\ n + 1 \in Nat
        /\ i \in Int /\ j \in Int /\ i - j <= n /\ j - i <= n
    BY <1>1, <1>2
  <2>2. v[i] = i - mag(i) * (n + 1) /\ v[j] = j - mag(j) * (n + 1)
    BY <1>4
  <2>3. mag(i) * (n + 1) \in Int /\ mag(j) * (n + 1) \in Int
    BY <2>1
  <2> DEFINE p == mag(i) * (n + 1)
             q == mag(j) * (n + 1)
  <2>7. mag(i) < mag(j) => p + (n + 1) <= q
    BY <2>1, MoreTimes
  <2>8. mag(j) < mag(i) => q + (n + 1) <= p
    BY <2>1, MoreTimes
  <2>9. v[i] = i - p /\ v[j] = j - q /\ p \in Int /\ q \in Int /\ n \in Nat
    BY <1>1, <2>2, <2>3
  <2> HIDE DEF p, q, n
  <2>4. CASE mag(j) > mag(i)
    <3>1. p + (n + 1) <= q
      BY <2>1, <2>4, <2>7
    <3>2. v[j] < v[i]
      BY <2>1, <2>9, <3>1
    <3> QED
      BY <2>4, <3>2
  <2>5. CASE mag(i) > mag(j)
    <3>1. q + (n + 1) <= p
      BY <2>1, <2>5, <2>8
    <3>2. ~(v[j] < v[i])
      BY <2>1, <2>9, <3>1
    <3> QED
      BY <2>1, <2>5, <3>2
  <2>6. CASE mag(i) = mag(j)
    BY <2>1, <2>2, <2>3, <2>6
  <2> QED
    BY <2>1, <2>4, <2>5, <2>6
<1>6. PICK i \in 1..n : Cardinality(Lower(1..n, v, i)) < k /\ k <= Count(1..n, v, i)
  BY <1>3, <1>4, OrderStatistic
<1> DEFINE L == Lower(1..n, v, i)
<1>7. L \in SUBSET (1..n) /\ i \notin L
  BY <1>4 DEF Lower
<1>8. \A j \in 1..n : v[j] <= v[i] <=> j \in L \/ j = i
  <2>1. ASSUME NEW j \in 1..n, v[j] <= v[i], ~(v[j] < v[i])  PROVE j = i
    <3>1. ~(v[i] < v[j]) /\ v[i] \in Int /\ v[j] \in Int
      BY <1>4, <2>1
    <3>0. /\ v[j] < v[i] <=> mag(j) > mag(i) \/ (mag(j) = mag(i) /\ j < i)
          /\ v[i] < v[j] <=> mag(i) > mag(j) \/ (mag(i) = mag(j) /\ i < j)
      BY <1>5
    <3>2. ~(mag(j) > mag(i)) /\ ~(mag(i) > mag(j))
      BY <2>1, <3>0, <3>1
    <3>3. mag(i) = mag(j)
      BY <1>2, <3>2
    <3> QED
      BY <1>1, <2>1, <3>0, <3>1, <3>3
  <2>2. \A j \in 1..n : j \in L <=> v[j] < v[i]
    BY DEF Lower
  <2> HIDE DEF L
  <2>3. \A j \in 1..n : v[j] \in Int /\ v[i] \in Int
    BY <1>4
  <2> QED
    BY <2>1, <2>2, <2>3
<1>9. Ahead(cells, i) = L
  <2>1. Ahead(cells, i) = {j \in 1..n : mag(j) > mag(i) \/ (mag(j) = mag(i) /\ j < i)}
    BY <1>1, Zenon DEF Ahead, mag
  <2> QED
    BY <1>5, <2>1 DEF Lower
<1> HIDE DEF L
<1>10. IsFiniteSet(L) /\ Cardinality(L) \in Nat
  BY <1>3, <1>7, FS_Subset, FS_CardinalityType
<1>11. {j \in 1..n : v[j] <= v[i]} = L \cup {i}
  BY <1>7, <1>8
<1>12. Count(1..n, v, i) = Cardinality(L) + 1
  BY <1>7, <1>10, <1>11, FS_AddElement DEF Count
<1>13. Cardinality(L) < k /\ k <= Cardinality(L) + 1 /\ k \in Nat
  BY <1>6, <1>12 DEF L
<1>14. Cardinality(Ahead(cells, i)) = k - 1
  BY <1>9, <1>10, <1>13
<1> QED
  BY <1>1, <1>14

LEMMA TopIndicesAre ==
  ASSUME NEW cells \in Seq(Int), Keep <= Len(cells)
  PROVE  /\ Len(TopIndices(cells)) = Keep /\ DOMAIN TopIndices(cells) = 1..Keep
         /\ \A k \in 1..Keep : TopIndices(cells)[k] \in 1..Len(cells)
         /\ \A k, l \in 1..Keep : TopIndices(cells)[k] = TopIndices(cells)[l] => k = l
         /\ TopIndices(cells) \in Seq(Nat)
<1> DEFINE D == DOMAIN cells
           t == TopIndices(cells)
           pick(k) == CHOOSE i \in D : Cardinality(Ahead(cells, i)) = k - 1
<1>1. Keep \in Nat /\ D = 1..Len(cells) /\ Len(cells) \in Nat
  BY WireAssumption
<1>2. t = [k \in 1..Keep |-> pick(k)]
  BY DEF TopIndices
<1>3. ASSUME NEW k \in 1..Keep
      PROVE  pick(k) \in D /\ Cardinality(Ahead(cells, pick(k))) = k - 1
  <2>1. k \in 1..Len(cells)
    BY <1>1
  <2>2. \E i \in D : Cardinality(Ahead(cells, i)) = k - 1
    BY <2>1, PlaceTaken
  <2> QED
    BY <2>2
<1> HIDE DEF pick, t
<1>4. t \in [1..Keep -> D]
  BY <1>2, <1>3
<1>5. \A k \in 1..Keep : t[k] = pick(k)
  BY <1>2
<1>6. ASSUME NEW k \in 1..Keep, NEW l \in 1..Keep, t[k] = t[l]  PROVE k = l
  <2>1. k - 1 = l - 1
    BY <1>3, <1>5, <1>6
  <2> QED
    BY <2>1
<1>7. t \in Seq(Nat) /\ Len(t) = Keep
  <2>1. \A k \in 1..Keep : t[k] \in Nat
    BY <1>1, <1>4
  <2>2. t \in [1..Keep -> Nat]
    BY <1>4, <2>1
  <2> QED
    BY <1>1, <2>2
<1>8. DOMAIN t = 1..Keep /\ \A k \in 1..Keep : t[k] \in 1..Len(cells)
  BY <1>1, <1>4
<1> QED
  BY <1>6, <1>7, <1>8 DEF t

LEMMA SparseIs ==
  ASSUME NEW cells \in Seq(Int)
  PROVE  /\ DOMAIN Sparse(cells) = 1..Len(cells) /\ Len(Sparse(cells)) = Len(cells)
         /\ \A i \in 1..Len(cells) :
              Sparse(cells)[i] = IF i \in ToSet(TopIndices(cells)) THEN cells[i] ELSE 0
<1> DEFINE n == Len(cells)
           kept(i) == IF i \in ToSet(TopIndices(cells)) THEN cells[i] ELSE 0
           s == [i \in 1..n |-> kept(i)]
<1>1. n \in Nat /\ \A i \in 1..n : kept(i) \in Int
  OBVIOUS
<1>2. Sparse(cells) = s
  BY DEF Sparse
<1> HIDE DEF n, kept
<1>3. s \in [1..n -> Int]
  BY <1>1
<1>4. DOMAIN s = 1..n /\ Len(s) = n /\ \A i \in 1..n : s[i] = kept(i)
  BY <1>1, <1>3
<1> HIDE DEF s
<1> QED
  BY <1>2, <1>4 DEF n, kept

Half16(s) == [i \in DOMAIN s |-> Half(s[i])]

LEMMA HalvesAre ==
  ASSUME NEW s, NEW n \in Nat, DOMAIN s = 1..n
  PROVE  DOMAIN Half16(s) = 1..n /\ Len(Half16(s)) = n /\ \A i \in 1..n : Half16(s)[i] = Half(s[i])
<1> DEFINE half(i) == Half(s[i])
           T == {half(i) : i \in 1..n}
           h == [i \in 1..n |-> half(i)]
<1>1. Half16(s) = h
  BY DEF Half16
<1>2. \A i \in 1..n : half(i) \in T
  OBVIOUS
<1> HIDE DEF half, T
<1>3. h \in [1..n -> T]
  BY <1>2
<1>4. DOMAIN h = 1..n /\ Len(h) = n /\ \A i \in 1..n : h[i] = half(i)
  BY <1>3
<1> HIDE DEF h
<1> QED
  BY <1>1, <1>4 DEF half

(* The receiver sees of a tensor what its sender's compressor keeps.       *)
Seen(c, t) ==
  IF c # "none" THEN Decompress(c, Compress(c, t), t.shape)
  ELSE Reshaped(t.shape, AsFloat32(Compress(c, t)))

LEMMA TensorIs ==
  ASSUME NEW t \in Tensors
  PROVE  /\ t = [shape |-> t.shape, cells |-> t.cells] /\ t.cells \in Seq(Int)
         /\ Len(t.cells) = Numel(t.shape) /\ Keep <= Len(t.cells)
         /\ Len(t.cells) \in Nat /\ DOMAIN t.cells = 1..Len(t.cells)
BY TensorsAssumption

LEMMA NoneSeen ==
  ASSUME NEW t \in Tensors
  PROVE  Seen("none", t) = Lossy("none", t)
<1>1. Compress("none", t) = [width |-> 4, cells |-> t.cells]
  BY DEF Compress
<1>2. AsFloat32(Compress("none", t)) = t.cells
  BY <1>1 DEF AsFloat32
<1>3. Seen("none", t) = [shape |-> t.shape, cells |-> t.cells]
  BY <1>2, TensorIs DEF Seen, Reshaped
<1>4. Lossy("none", t) = [t EXCEPT !.cells = [i \in DOMAIN t.cells |-> t.cells[i]]]
  BY DEF Lossy
<1>5. [i \in DOMAIN t.cells |-> t.cells[i]] = t.cells
  BY TensorIs
<1> QED
  BY <1>3, <1>4, <1>5, TensorIs

LEMMA HalfSeen ==
  ASSUME NEW t \in Tensors
  PROVE  /\ Seen("fp16", t) = Lossy("fp16", t)
         /\ Seen("chain", t) = Lossy("chain", t)
<1> DEFINE n == Len(t.cells)
           half == Half16(t.cells)
           sparse == Sparse(t.cells)
           chain == Half16(sparse)
<1>1. /\ t = [shape |-> t.shape, cells |-> t.cells] /\ t.cells \in Seq(Int)
      /\ n = Numel(t.shape) /\ n \in Nat /\ DOMAIN t.cells = 1..n
  BY TensorIs
<1>2. DOMAIN half = 1..n /\ Len(half) = n
  BY <1>1, HalvesAre
<1>3. DOMAIN sparse = 1..n
  BY <1>1, SparseIs
<1>4. DOMAIN chain = 1..n /\ Len(chain) = n
  <2> HIDE DEF sparse, n
  <2> QED
    BY <1>1, <1>3, HalvesAre
<1>5. Compress("fp16", t) = [width |-> 2, cells |-> half]
  BY DEF Compress, Half16
<1>6. Compress("chain", t) = [width |-> 2, cells |-> chain]
  BY DEF Compress, Half16
<1>7. Lossy("fp16", t) = [t EXCEPT !.cells = half]
  BY DEF Lossy, Half16
<1>8. Lossy("chain", t) = [t EXCEPT !.cells = chain]
  <2>1. Lossy("chain", t) = [t EXCEPT !.cells = [i \in DOMAIN t.cells |-> Half(sparse[i])]]
    BY DEF Lossy
  <2>2. [i \in DOMAIN t.cells |-> Half(sparse[i])] = chain
    BY <1>1, <1>3 DEF Half16
  <2> QED
    BY <2>1, <2>2
<1> HIDE DEF half, sparse, chain, n
<1>9. Seen("fp16", t) = [shape |-> t.shape, cells |-> half]
  BY <1>1, <1>2, <1>5 DEF Seen, Decompress, Reshaped
<1>10. Seen("chain", t) = [shape |-> t.shape, cells |-> chain]
  BY <1>1, <1>4, <1>6 DEF Seen, Decompress, Reshaped
<1> QED
  BY <1>1, <1>7, <1>8, <1>9, <1>10

LEMMA TopSeen ==
  ASSUME NEW t \in Tensors
  PROVE  Seen("topk", t) = Lossy("topk", t)
<1> DEFINE n == Len(t.cells)
           top == TopIndices(t.cells)
           values == [i \in DOMAIN top |-> t.cells[top[i]]]
           floats == top \o values
           place(i) == {j \in 1..Keep : floats[j] = i}
           back == [i \in 1..n |-> IF place(i) = {} THEN 0 ELSE floats[Keep + Max(place(i))]]
           sparse == Sparse(t.cells)
<1>1. /\ t = [shape |-> t.shape, cells |-> t.cells] /\ t.cells \in Seq(Int)
      /\ n = Numel(t.shape) /\ n \in Nat /\ DOMAIN t.cells = 1..n /\ Keep <= n /\ Keep \in Nat
  BY TensorIs, WireAssumption
<1>2. /\ Len(top) = Keep /\ DOMAIN top = 1..Keep /\ top \in Seq(Nat)
      /\ \A k \in 1..Keep : top[k] \in 1..n
      /\ \A k, l \in 1..Keep : top[k] = top[l] => k = l
  BY <1>1, TopIndicesAre
<1> HIDE DEF top
<1>3. values \in Seq(Int) /\ Len(values) = Keep /\ \A k \in 1..Keep : values[k] = t.cells[top[k]]
  <2>1. values \in [1..Keep -> Int]
    BY <1>1, <1>2
  <2>2. \A k \in 1..Keep : values[k] = t.cells[top[k]]
    BY <1>2
  <2> HIDE DEF values
  <2>3. values \in Seq(Int) /\ Len(values) = Keep
    BY <1>1, <2>1
  <2> QED
    BY <2>2, <2>3
<1> HIDE DEF values
<1>4. /\ Len(floats) = 2 * Keep
      /\ \A k \in 1..Keep : floats[k] = top[k] /\ floats[Keep + k] = t.cells[top[k]]
  <2>1. top \in Seq(Int)
    BY <1>2
  <2>2. /\ Len(floats) = Len(top) + Len(values)
        /\ \A k \in 1..(Len(top) + Len(values)) :
             floats[k] = IF k <= Len(top) THEN top[k] ELSE values[k - Len(top)]
    BY <1>3, <2>1, ConcatProperties
  <2>3. \A k \in 1..Keep : /\ k \in 1..(Keep + Keep) /\ k <= Keep
                           /\ Keep + k \in 1..(Keep + Keep) /\ ~(Keep + k <= Keep)
                           /\ (Keep + k) - Keep = k
    BY <1>1
  <2> QED
    BY <1>1, <1>2, <1>3, <2>2, <2>3
<1>5. Compress("topk", t) = [width |-> 4, cells |-> floats]
  BY DEF Compress, top, values
<1> HIDE DEF floats
<1>6. ASSUME NEW i \in 1..n  PROVE back[i] = sparse[i]
  <2>1. sparse[i] = IF i \in ToSet(top) THEN t.cells[i] ELSE 0
    BY <1>1, SparseIs DEF top
  <2>2. ToSet(top) = {top[k] : k \in 1..Keep}
    BY <1>2 DEF ToSet
  <2>3. CASE i \in ToSet(top)
    <3>1. PICK k \in 1..Keep : i = top[k]
      BY <2>2, <2>3
    <3>2. place(i) = {k}
      BY <1>2, <1>4, <3>1
    <3>3. Max({k}) = k
      BY DEF Max
    <3>4. back[i] = floats[Keep + k]
      BY <3>2, <3>3
    <3> QED
      BY <1>4, <2>1, <2>3, <3>1, <3>4
  <2>4. CASE i \notin ToSet(top)
    <3>1. place(i) = {}
      BY <1>4, <2>2, <2>4
    <3> QED
      BY <2>1, <2>4, <3>1
  <2> QED
    BY <2>3, <2>4
<1>7. back = sparse /\ Len(back) = n
  <2>1. sparse = [i \in 1..n |-> sparse[i]]
    BY DEF Sparse
  <2>2. back = [i \in 1..n |-> back[i]]
    OBVIOUS
  <2>3. Len(sparse) = n
    BY <1>1, SparseIs
  <2> HIDE DEF back, sparse
  <2>4. back = sparse
    BY <1>6, <2>1, <2>2
  <2> QED
    BY <2>3, <2>4
<1>8. Decompress("topk", Compress("topk", t), t.shape) = Reshaped(t.shape, back)
  <2> HIDE DEF place, back, sparse, n
  <2>3. Compress("topk", t).width = 4 /\ Compress("topk", t).cells = floats
    BY <1>5
  <2>1. AsFloat32(Compress("topk", t)) = floats
    BY <2>3 DEF AsFloat32
  <2> USE DEF place, back, n
  <2>2. ~(Len(floats) # 2 * Keep \/ \E j \in 1..Keep : floats[j] \notin 1..Numel(t.shape))
    BY <1>1, <1>2, <1>4
  <2> HIDE DEF n
  <2> QED
    BY <1>1, <2>1, <2>2 DEF Decompress
<1> HIDE DEF back
<1>9. Seen("topk", t) = [shape |-> t.shape, cells |-> sparse]
  BY <1>1, <1>7, <1>8 DEF Seen, Reshaped
<1>10. Lossy("topk", t) = [t EXCEPT !.cells = sparse]
  <2>1. Lossy("topk", t) = [t EXCEPT !.cells = [i \in DOMAIN t.cells |-> sparse[i]]]
    BY DEF Lossy
  <2>2. [i \in DOMAIN t.cells |-> sparse[i]] = sparse
    BY <1>1 DEF Sparse
  <2> QED
    BY <2>1, <2>2
<1> HIDE DEF sparse
<1> QED
  BY <1>1, <1>9, <1>10

LEMMA SeenIsLossy ==
  ASSUME NEW t \in Tensors, NEW c \in Compressors
  PROVE  Seen(c, t) = Lossy(c, t)
BY WireAssumption, NoneSeen, HalfSeen, TopSeen

-----------------------------------------------------------------------------
(* What the sender has.                                                    *)
Sender ==
  /\ DOMAIN gradients \in SUBSET Names /\ gradients \in [DOMAIN gradients -> Tensors]
  /\ compressor \in Compressors

SentNames == InOrder(DOMAIN gradients)
SentData == [n \in DOMAIN gradients |-> Compress(compressor, gradients[n])]

(* A message that comes from Encoded, but for one field.                   *)
Received(m, field) ==
  /\ m.state = "sent"
  /\ field # "root" => m.merkle_root = NamedRoot(SentNames, SentData)
  /\ field = "root" =>
       m.merkle_root = ZeroRoot /\ DOMAIN m.params = 1..Len(SentNames)
  /\ field # "flags" => m.compressed = (compressor # "none")
  /\ field # "metadata" => m.metadata = [n \in DOMAIN gradients |-> gradients[n].shape]
  /\ \E k \in 0..Len(SentNames) : DOMAIN m.params = 1..k
  /\ field # "shape" =>
       \A i \in DOMAIN m.params : m.params[i].shape = gradients[SentNames[i]].shape

LEMMA SentNamesAre ==
  ASSUME Sender
  PROVE  /\ SentNames \in Seq(DOMAIN gradients) /\ Len(SentNames) \in Nat
         /\ DOMAIN SentNames = 1..Len(SentNames)
         /\ \A i \in 1..Len(SentNames) : SentNames[i] \in DOMAIN gradients
         /\ \A i, j \in 1..Len(SentNames) : SentNames[i] = SentNames[j] => i = j
         /\ \A n \in DOMAIN gradients : \E i \in 1..Len(SentNames) : SentNames[i] = n
<1> DEFINE D == DOMAIN gradients
           size == Cardinality(D)
           s == SentNames
<1>1. D \in SUBSET Int /\ IsFiniteSet(D)
  BY WireAssumption, FS_Subset DEF Sender
<1> HIDE DEF D, s
<1>2. s = InOrder(D)
  BY DEF s, SentNames, D
<1>3. /\ size \in Nat /\ s \in [1..size -> D]
      /\ \A k, l \in 1..size : k < l => s[k] < s[l]
      /\ \A n \in D : \E k \in 1..size : s[k] = n
  BY <1>1, <1>2, InOrderIsOrder
<1> HIDE DEF size
<1>4. s \in Seq(D) /\ Len(s) = size /\ DOMAIN s = 1..size
  BY <1>3
<1>5. ASSUME NEW i \in 1..size, NEW j \in 1..size, s[i] = s[j]  PROVE i = j
  <2>1. s[i] \in Int
    BY <1>1, <1>3
  <2>2. ~(i < j) /\ ~(j < i)
    BY <1>3, <1>5, <2>1
  <2> QED
    BY <1>3, <2>2
<1> QED
  BY <1>3, <1>4, <1>5 DEF s, D

Passes(m) ==
  Verifies(m.merkle_root, [i \in DOMAIN m.params |-> m.params[i].name],
           [n \in DOMAIN ReadData(m.params) |-> ReadData(m.params)[n].data])

(* What passes the check is what was hashed.                               *)
LEMMA VerifiedIsSent ==
  ASSUME Sender, NEW m, NEW field, Received(m, field), Passes(m)
  PROVE  /\ DOMAIN m.params = 1..Len(SentNames)
         /\ \A i \in 1..Len(SentNames) :
              /\ m.params[i].name = SentNames[i]
              /\ ReadData(m.params)[SentNames[i]] = m.params[i]
         /\ DOMAIN ReadData(m.params) = DOMAIN gradients
         /\ [n \in DOMAIN ReadData(m.params) |-> ReadData(m.params)[n].data] = SentData
<1> DEFINE size == Len(SentNames)
           names == [i \in DOMAIN m.params |-> m.params[i].name]
           read == ReadData(m.params)
           raw == [n \in DOMAIN read |-> read[n].data]
           T == {m.params[i].name : i \in DOMAIN m.params}
<1>1. /\ SentNames \in Seq(DOMAIN gradients) /\ size \in Nat
      /\ \A i \in 1..size : SentNames[i] \in DOMAIN gradients
      /\ \A i, j \in 1..size : SentNames[i] = SentNames[j] => i = j
      /\ \A n \in DOMAIN gradients : \E i \in 1..size : SentNames[i] = n
  BY SentNamesAre
<1>2. PICK k \in 0..size : DOMAIN m.params = 1..k
  BY DEF Received
<1>3. names \in Seq(T) /\ Len(names) = k /\ k \in Nat
      /\ \A i \in 1..k : names[i] = m.params[i].name
  <2>1. names \in [1..k -> T] /\ \A i \in 1..k : names[i] = m.params[i].name
    BY <1>2
  <2>2. k \in Nat
    BY <1>1, <1>2
  <2> HIDE DEF names, T
  <2>3. names \in Seq(T) /\ Len(names) = k
    BY <2>1, <2>2
  <2> QED
    BY <2>1, <2>2, <2>3
<1>4. NamedRoot(names, raw) = m.merkle_root
  BY DEF Passes, Verifies
<1> HIDE DEF names, raw, size, T
<1>5. NamedRoot(names, raw) = NamedRoot(SentNames, SentData)
  <2>1. CASE field # "root"
    BY <1>4, <2>1 DEF Received
  <2>2. CASE field = "root"
    <3>1. NamedRoot(<<>>, SentData) = ZeroRoot
      <4>1. [i \in 1..Len(<<>>) |-> Leaf(<<>>[i], SentData[<<>>[i]])] = <<>>
        OBVIOUS
      <4> QED
        BY <4>1 DEF NamedRoot, MerkleRoot
    <3>2. NamedRoot(names, raw) = NamedRoot(<<>>, SentData) /\ DOMAIN m.params = 1..size
      BY <1>4, <2>2, <3>1 DEF Received, size
    <3>3. Len(names) = Len(<<>>)
      <4>1. <<>> \in Seq(DOMAIN gradients)
        OBVIOUS
      <4>2. SameNamed(names, <<>>, raw, SentData)
        BY <1>3, <3>2, <4>1, NamedRootsTell
      <4> QED
        BY <4>2 DEF SameNamed
    <3>4. k = 0 /\ size = 0
      <4>1. k = 0
        BY <1>3, <3>3
      <4>2. 1..size = {}
        <5>1. 1..0 = {}
          OBVIOUS
        <5> QED
          BY <1>2, <3>2, <4>1, <5>1
      <4>3. ~(size > 0)
        <5>1. 1 \notin 1..size
          BY <4>2
        <5> QED
          BY <1>1, <5>1
      <4> QED
        BY <1>1, <4>1, <4>3
    <3>5. SentNames = <<>> /\ names = <<>>
      BY <1>1, <1>3, <3>4 DEF size
    <3> QED
      BY <3>2, <3>5
  <2> QED
    BY <2>1, <2>2
<1>6. /\ Len(names) = Len(SentNames)
      /\ \A i \in 1..Len(names) : names[i] = SentNames[i] /\ raw[names[i]] = SentData[names[i]]
  <2>1. SameNamed(names, SentNames, raw, SentData)
    BY <1>1, <1>3, <1>5, NamedRootsTell
  <2> QED
    BY <2>1 DEF SameNamed
<1>7. k = size
  BY <1>3, <1>6 DEF size
<1>8. ASSUME NEW i \in 1..size
      PROVE  m.params[i].name = SentNames[i] /\ raw[SentNames[i]] = SentData[SentNames[i]]
  <2>1. i \in 1..Len(names) /\ i \in 1..k
    BY <1>3, <1>7
  <2>2. names[i] = SentNames[i] /\ raw[names[i]] = SentData[names[i]]
    BY <1>6, <2>1
  <2> QED
    BY <1>3, <2>1, <2>2
<1>9. DOMAIN read = DOMAIN gradients
  <2>1. DOMAIN read = {m.params[i].name : i \in 1..size}
    BY <1>2, <1>7 DEF ReadData
  <2>3. DOMAIN read = {SentNames[i] : i \in 1..size}
    BY <1>8, <2>1
  <2> HIDE DEF read
  <2>2. \A n : n \in DOMAIN read <=> n \in DOMAIN gradients
    BY <1>1, <2>3
  <2> QED
    BY <2>2
<1>10. ASSUME NEW i \in 1..size  PROVE read[SentNames[i]] = m.params[i]
  <2> DEFINE n == SentNames[i]
             at == {j \in DOMAIN m.params : m.params[j].name = n}
  <2>1. at = {i}
    <3>1. \A j \in 1..size : m.params[j].name = n <=> j = i
      BY <1>1, <1>8
    <3>2. DOMAIN m.params = 1..size
      BY <1>2, <1>7
    <3> QED
      BY <3>1, <3>2
  <2>2. Max({i}) = i
    <3>1. i \in Int
      BY <1>1
    <3> QED
      BY <3>1 DEF Max
  <2>3. n \in {m.params[j].name : j \in DOMAIN m.params}
    BY <1>2, <1>7, <1>8
  <2>4. read[n] = m.params[Max(at)]
    <3> HIDE DEF n
    <3> QED
      BY <2>3 DEF ReadData
  <2> QED
    BY <2>1, <2>2, <2>4
<1>11. raw = SentData
  <2>1. raw = [n \in DOMAIN gradients |-> raw[n]] /\ SentData = [n \in DOMAIN gradients |-> SentData[n]]
    BY <1>9 DEF raw, SentData
  <2> HIDE DEF read
  <2>2. ASSUME NEW n \in DOMAIN gradients  PROVE raw[n] = SentData[n]
    <3>1. PICK i \in 1..size : SentNames[i] = n
      BY <1>1
    <3> QED
      BY <1>8, <3>1
  <2> QED
    BY <2>1, <2>2
<1> QED
  BY <1>2, <1>7, <1>8, <1>9, <1>10, <1>11 DEF size, raw

Keeps(result, field) ==
  result.state = "decoded" =>
    /\ result.raw = SentData
    /\ result.by = compressor /\ field \notin {"flags", "shape", "metadata"} =>
         result.gradients = [n \in DOMAIN gradients |-> Lossy(compressor, gradients[n])]

LEMMA ResultKeeps ==
  ASSUME Sender, NEW m, NEW field, Received(m, field), NEW c \in {compressor, "none"}
  PROVE  Keeps(Result(m, c), field)
<1> DEFINE read == ReadData(m.params)
           raw == [n \in DOMAIN read |-> read[n].data]
           value(n) == IF m.compressed /\ c # "none" THEN Decompress(c, raw[n], m.metadata[n])
                       ELSE Reshaped(read[n].shape, AsFloat32(raw[n]))
           values == [n \in DOMAIN read |-> value(n)]
           result == [state |-> "decoded", by |-> c, raw |-> raw, gradients |-> values]
<1>1. Result(m, c) = Raised \/ (Passes(m) /\ Result(m, c) = result)
  BY DEF Result, Passes
<1>2. CASE Result(m, c) = Raised
  <2>1. Result(m, c).state = "raised"
    BY <1>2 DEF Raised
  <2> QED
    BY <2>1 DEF Keeps
<1>3. CASE Passes(m) /\ Result(m, c) = result
  <2> DEFINE size == Len(SentNames)
  <2>1. /\ DOMAIN m.params = 1..size
        /\ \A i \in 1..size : read[SentNames[i]] = m.params[i]
        /\ DOMAIN read = DOMAIN gradients
        /\ raw = SentData
    BY <1>3, VerifiedIsSent
  <2>2. /\ \A n \in DOMAIN gradients : \E i \in 1..size : SentNames[i] = n
    BY SentNamesAre
  <2> HIDE DEF read, raw, size
  <2>3. ASSUME NEW n \in DOMAIN gradients, c = compressor, field \notin {"flags", "shape", "metadata"}
        PROVE  value(n) = Lossy(compressor, gradients[n])
    <3>1. raw[n] = Compress(c, gradients[n]) /\ c \in Compressors /\ gradients[n] \in Tensors
      BY <2>1, <2>3 DEF SentData, Sender
    <3>2. m.compressed = (c # "none") /\ m.metadata[n] = gradients[n].shape
      BY <2>3 DEF Received
    <3>3. read[n].shape = gradients[n].shape
      <4>1. PICK i \in 1..size : SentNames[i] = n
        BY <2>2
      <4>2. m.params[i].shape = gradients[SentNames[i]].shape
        BY <2>1, <2>3 DEF Received
      <4> QED
        BY <2>1, <4>1, <4>2
    <3>4. value(n) = Seen(c, gradients[n])
      BY <3>1, <3>2, <3>3 DEF Seen
    <3> QED
      BY <2>3, <3>1, <3>4, SeenIsLossy
  <2>4. result.raw = SentData /\ result.by = c /\ result.gradients = values
    BY <2>1
  <2>5. ASSUME c = compressor, field \notin {"flags", "shape", "metadata"}
        PROVE  values = [n \in DOMAIN gradients |-> Lossy(compressor, gradients[n])]
    <3> HIDE DEF value
    <3> QED
      BY <2>1, <2>3, <2>5
  <2> HIDE DEF result, values
  <2> QED
    BY <1>3, <2>4, <2>5 DEF Keeps
<1> QED
  BY <1>1, <1>2, <1>3

-----------------------------------------------------------------------------
(* What is under way is what was encoded, but for the damaged field.       *)
MessageInv ==
  /\ Sender
  /\ damaged = "none" => message \in {NoMessage, Encoded}
  /\ message = NoMessage => (damaged = "none" /\ decoded = NoMessage)
  /\ message = NoMessage \/ Received(message, damaged)
  /\ decoded = NoMessage \/ Keeps(decoded, damaged)

SentParams ==
  [i \in 1..Len(SentNames) |->
     [name |-> SentNames[i], shape |-> gradients[SentNames[i]].shape, data |-> SentData[SentNames[i]]]]

LEMMA EncodedIs ==
  Encoded = [state |-> "sent", magic |-> TRUE, version |-> 1, compressed |-> (compressor # "none"),
             merkle_root |-> NamedRoot(SentNames, SentData), params |-> SentParams,
             metadata |-> [n \in DOMAIN gradients |-> gradients[n].shape]]
BY DEF Encoded, SentNames, SentData, SentParams

LEMMA EncodedReceived ==
  ASSUME Sender
  PROVE  Received(Encoded, "none")
<1>1. Len(SentNames) \in 0..Len(SentNames)
  BY SentNamesAre
<1>2. /\ Encoded.state = "sent" /\ Encoded.merkle_root = NamedRoot(SentNames, SentData)
      /\ Encoded.compressed = (compressor # "none")
      /\ Encoded.metadata = [n \in DOMAIN gradients |-> gradients[n].shape]
      /\ Encoded.params = SentParams
  BY EncodedIs
<1>3. DOMAIN SentParams = 1..Len(SentNames)
  BY DEF SentParams
<1>4. \A i \in 1..Len(SentNames) : SentParams[i].shape = gradients[SentNames[i]].shape
  BY DEF SentParams
<1> QED
  BY <1>1, <1>2, <1>3, <1>4 DEF Received

LEMMA DamagedReceived ==
  ASSUME MessageInv, Damage
  PROVE  Received(message', damaged')
<1>1. /\ damaged = "none" /\ message = Encoded /\ message # NoMessage
      /\ UNCHANGED <<gradients, compressor, decoded>>
  BY DEF Damage, MessageInv
<1>2. Received(message, "none") /\ Sender
  BY <1>1 DEF MessageInv
<1> DEFINE m == message
           p == SentParams
           size == Len(SentNames)
           becomes(field, value) == damaged' = field /\ message' = value
<1>3. m = [state |-> "sent", magic |-> TRUE, version |-> 1, compressed |-> (compressor # "none"),
             merkle_root |-> NamedRoot(SentNames, SentData), params |-> p,
             metadata |-> [n \in DOMAIN gradients |-> gradients[n].shape]]
  BY <1>1, EncodedIs
<1>4. /\ size \in Nat /\ size \in 0..size /\ DOMAIN p = 1..size
      /\ \A i \in 1..size : /\ p[i] = [name |-> p[i].name, shape |-> p[i].shape, data |-> p[i].data]
                            /\ p[i].shape = gradients[SentNames[i]].shape
  BY <1>2, SentNamesAre DEF SentParams
<1>5. \A k \in 0..size : \A i \in 1..k : i \in 1..size
  BY <1>4
<1>6. ASSUME NEW value, NEW field, becomes(field, value), value.state = "sent",
             field # "root" => value.merkle_root = NamedRoot(SentNames, SentData),
             field # "flags" => value.compressed = (compressor # "none"),
             field # "metadata" => value.metadata = [n \in DOMAIN gradients |-> gradients[n].shape],
             field = "root" => value.merkle_root = ZeroRoot /\ DOMAIN value.params = 1..size,
             \E k \in 0..size : DOMAIN value.params = 1..k,
             field # "shape" => \A i \in DOMAIN value.params : value.params[i].shape = p[i].shape
      PROVE  Received(message', damaged')
  <2>1. \A i \in DOMAIN value.params : i \in 1..size
    BY <1>5, <1>6
  <2>2. field # "shape" =>
          \A i \in DOMAIN value.params : value.params[i].shape = gradients[SentNames[i]].shape
    BY <1>4, <1>6, <2>1
  <2> QED
    BY <1>6, <2>2 DEF Received
<1> HIDE DEF p
<1>7. /\ m.state = "sent" /\ m.merkle_root = NamedRoot(SentNames, SentData) /\ m.compressed = (compressor # "none")
      /\ m.metadata = [n \in DOMAIN gradients |-> gradients[n].shape] /\ m.params = p
      /\ DOMAIN m.params = 1..size
  BY <1>3, <1>4
<1> DEFINE whole(v) == /\ v.state = m.state /\ v.merkle_root = m.merkle_root /\ v.compressed = m.compressed
                       /\ v.metadata = m.metadata
<1>8. ASSUME NEW value, NEW field, field # "root", becomes(field, value), whole(value),
             \E k \in 0..size : DOMAIN value.params = 1..k,
             field # "shape" => \A i \in DOMAIN value.params : value.params[i].shape = p[i].shape
      PROVE  Received(message', damaged')
  <2>1. whole(value) /\ field # "root"
    BY <1>8
  <2> HIDE DEF size
  <2> QED
    BY <1>6, <1>7, <1>8, <2>1
<1>9. ASSUME NEW value, whole(value), value.params = p, NEW field, field # "root", becomes(field, value)
      PROVE  Received(message', damaged')
  <2>1. \E k \in 0..size : DOMAIN value.params = 1..k
    BY <1>4, <1>9
  <2>2. \A i \in DOMAIN value.params : value.params[i].shape = p[i].shape
    BY <1>9
  <2> HIDE DEF becomes, size, whole
  <2> QED
    BY <1>8, <1>9, <2>1, <2>2
<1> HIDE DEF size
<1>10. ASSUME NEW value, becomes("header", value),
              value = [m EXCEPT !.magic = FALSE] \/ value = [m EXCEPT !.version = 2]
       PROVE  Received(message', damaged')
  <2>1. whole(value) /\ value.params = p
    BY <1>3, <1>10
  <2> HIDE DEF whole, becomes
  <2> QED
    BY <1>9, <1>10, <2>1
<1>11. CASE becomes("root", [m EXCEPT !.merkle_root = ZeroRoot])
  <2> DEFINE value == [m EXCEPT !.merkle_root = ZeroRoot]
  <2>1. /\ value.merkle_root = ZeroRoot /\ value.params = p
        /\ value.compressed = m.compressed /\ value.metadata = m.metadata /\ value.state = m.state
    BY <1>3
  <2>2. becomes("root", value)
    BY <1>11
  <2> HIDE DEF value, becomes
  <2>3. \E k \in 0..size : DOMAIN value.params = 1..k
    BY <1>4, <2>1
  <2>4. \A i \in DOMAIN value.params : value.params[i].shape = p[i].shape
    BY <2>1
  <2>5. DOMAIN value.params = 1..size
    BY <1>4, <2>1
  <2> QED
    BY <1>6, <1>7, <2>1, <2>2, <2>3, <2>4, <2>5
<1>12. CASE becomes("flags", [m EXCEPT !.compressed = ~@])
  <2> DEFINE value == [m EXCEPT !.compressed = ~@]
  <2>1. /\ value.merkle_root = m.merkle_root /\ value.params = p /\ value.metadata = m.metadata
        /\ value.state = m.state
    BY <1>3
  <2>2. becomes("flags", value)
    BY <1>12
  <2> HIDE DEF value, becomes
  <2>3. \E k \in 0..size : DOMAIN value.params = 1..k
    BY <1>4, <2>1
  <2>4. \A i \in DOMAIN value.params : value.params[i].shape = p[i].shape
    BY <2>1
  <2> QED
    BY <1>6, <1>7, <2>1, <2>2, <2>3, <2>4
<1>13. CASE becomes("count", [m EXCEPT !.params = Front(@)]) /\ m.params # <<>>
  <2> DEFINE value == [m EXCEPT !.params = Front(@)]
  <2>1. whole(value) /\ value.params = Front(p) /\ p # <<>>
    BY <1>3, <1>7, <1>13
  <2>2. becomes("count", value)
    BY <1>13
  <2> HIDE DEF value, becomes, whole
  <2>3. size # 0 /\ DOMAIN Front(p) = 1..(size - 1) /\ \A i \in 1..(size - 1) : Front(p)[i] = p[i]
    <3> DEFINE T == {p[i] : i \in 1..size}
    <3>1. p = [i \in 1..size |-> p[i]]
      BY DEF p, SentParams, size
    <3>2. p \in [1..size -> T]
      BY <3>1
    <3> HIDE DEF T
    <3>3. p \in Seq(T) /\ Len(p) = size
      BY <1>4, <3>2
    <3>4. size # 0
      BY <1>4, <2>1, <3>3
    <3>5. /\ SubSeq(p, 1, size - 1) \in Seq(T) /\ Len(SubSeq(p, 1, size - 1)) = size - 1
          /\ \A i \in 1..(size - 1) : SubSeq(p, 1, size - 1)[i] = p[i]
      <4>1. 1 \in 1..size + 1 /\ size - 1 \in 0..size
        BY <1>4, <3>4
      <4> QED
        BY <1>4, <3>3, <3>4, <4>1, SubSeqProperties
    <3> QED
      BY <1>4, <3>3, <3>4, <3>5 DEF Front
  <2>4. \E k \in 0..size : DOMAIN value.params = 1..k
    <3>1. size - 1 \in 0..size
      BY <1>4, <2>3
    <3> QED
      BY <2>1, <2>3, <3>1
  <2>5. \A i \in DOMAIN value.params : value.params[i].shape = p[i].shape
    BY <2>1, <2>3
  <2> QED
    BY <1>8, <2>1, <2>2, <2>4, <2>5
<1>14. ASSUME NEW n \in DOMAIN m.metadata, NEW s \in Shapes,
              becomes("metadata", [m EXCEPT !.metadata[n] = s])
       PROVE  Received(message', damaged')
  <2> DEFINE value == [m EXCEPT !.metadata[n] = s]
  <2>1. /\ value.merkle_root = m.merkle_root /\ value.params = p /\ value.compressed = m.compressed
        /\ value.state = m.state
    BY <1>3
  <2>2. becomes("metadata", value)
    BY <1>14
  <2> HIDE DEF value, becomes
  <2>3. \E k \in 0..size : DOMAIN value.params = 1..k
    BY <1>4, <2>1
  <2>4. \A i \in DOMAIN value.params : value.params[i].shape = p[i].shape
    BY <2>1
  <2> QED
    BY <1>6, <1>7, <2>1, <2>2, <2>3, <2>4
<1>15. ASSUME NEW i \in DOMAIN m.params, NEW entry, NEW field, field \in {"name", "shape", "data"},
              field # "shape" => entry.shape = p[i].shape,
              becomes(field, [m EXCEPT !.params[i] = entry])
       PROVE  Received(message', damaged')
  <2> DEFINE value == [m EXCEPT !.params[i] = entry]
  <2>1. whole(value) /\ value.params = [p EXCEPT ![i] = entry]
    BY <1>3, <1>7
  <2>2. becomes(field, value) /\ field # "root"
    BY <1>15
  <2> HIDE DEF value, becomes, whole
  <2>3. \E k \in 0..size : DOMAIN value.params = 1..k
    BY <1>4, <2>1
  <2>4. field # "shape" => \A j \in DOMAIN value.params : value.params[j].shape = p[j].shape
    BY <1>15, <2>1
  <2> QED
    BY <1>8, <2>1, <2>2, <2>3, <2>4
<1>16. ASSUME NEW i \in DOMAIN m.params,
              \/ \E n \in Names : becomes("name", [m EXCEPT !.params[i].name = n])
              \/ \E s \in Shapes : becomes("shape", [m EXCEPT !.params[i].shape = s])
              \/ becomes("data", [m EXCEPT !.params[i].data.cells = Reverse(@)])
              \/ becomes("data", [m EXCEPT !.params[i].data.cells = Front(@)])
       PROVE  Received(message', damaged')
  <2>1. /\ i \in DOMAIN m.params /\ m.params[i] = p[i]
        /\ p[i] = [name |-> p[i].name, shape |-> p[i].shape, data |-> p[i].data]
    BY <1>4, <1>7, <1>16
  <2>2. ASSUME NEW n, becomes("name", [m EXCEPT !.params[i].name = n])
        PROVE  Received(message', damaged')
    <3> DEFINE entry == [p[i] EXCEPT !.name = n]
    <3>1. entry.shape = p[i].shape
      BY <2>1
    <3>2. [m EXCEPT !.params[i].name = n] = [m EXCEPT !.params[i] = entry]
      BY <2>1
    <3> HIDE DEF entry
    <3> QED
      BY <1>15, <2>2, <3>1, <3>2
  <2>3. ASSUME NEW s, becomes("shape", [m EXCEPT !.params[i].shape = s])
        PROVE  Received(message', damaged')
    <3> DEFINE entry == [p[i] EXCEPT !.shape = s]
    <3>2. [m EXCEPT !.params[i].shape = s] = [m EXCEPT !.params[i] = entry]
      BY <2>1
    <3> HIDE DEF entry
    <3> QED
      BY <1>15, <2>3, <3>2
  <2>4. ASSUME NEW cells, becomes("data", [m EXCEPT !.params[i].data.cells = cells])
        PROVE  Received(message', damaged')
    <3> DEFINE entry == [p[i] EXCEPT !.data.cells = cells]
    <3>1. entry.shape = p[i].shape
      BY <2>1
    <3>2. [m EXCEPT !.params[i].data.cells = cells] = [m EXCEPT !.params[i] = entry]
      BY <2>1
    <3> HIDE DEF entry
    <3> QED
      BY <1>15, <2>4, <3>1, <3>2
  <2> HIDE DEF becomes
  <2> QED
    BY <1>16, <2>2, <2>3, <2>4
<1>17. \/ \E value : becomes("header", value) /\ (value = [m EXCEPT !.magic = FALSE] \/ value = [m EXCEPT !.version = 2])
       \/ becomes("root", [m EXCEPT !.merkle_root = ZeroRoot])
       \/ becomes("flags", [m EXCEPT !.compressed = ~@])
       \/ becomes("count", [m EXCEPT !.params = Front(@)]) /\ m.params # <<>>
       \/ \E n \in DOMAIN m.metadata, s \in Shapes : becomes("metadata", [m EXCEPT !.metadata[n] = s])
       \/ \E i \in DOMAIN m.params :
            \/ \E n \in Names : becomes("name", [m EXCEPT !.params[i].name = n])
            \/ \E s \in Shapes : becomes("shape", [m EXCEPT !.params[i].shape = s])
            \/ becomes("data", [m EXCEPT !.params[i].data.cells = Reverse(@)])
            \/ becomes("data", [m EXCEPT !.params[i].data.cells = Front(@)])
  BY Zenon DEF Damage
<1> HIDE DEF becomes, m
<1> QED
  BY <1>10, <1>11, <1>12, <1>13, <1>14, <1>16, <1>17

LEMMA MessageInvInit ==
  ASSUME WireInit
  PROVE  MessageInv
<1>1. PICK ns \in SUBSET Names : gradients \in [ns -> Tensors]
  BY DEF WireInit
<1>2. Sender
  BY <1>1 DEF WireInit, Sender
<1> QED
  BY <1>2 DEF WireInit, MessageInv

LEMMA MessageInvStep ==
  ASSUME MessageInv, [WireNext]_wireVars
  PROVE  MessageInv'
<1>1. /\ Sender /\ (damaged = "none" => message \in {NoMessage, Encoded})
      /\ message = NoMessage => (damaged = "none" /\ decoded = NoMessage)
      /\ message = NoMessage \/ Received(message, damaged)
      /\ decoded = NoMessage \/ Keeps(decoded, damaged)
  BY DEF MessageInv
<1>2. UNCHANGED <<gradients, compressor>>
  BY DEF WireNext, Encode, Damage, Decode, wireVars
<1>3. SentNames' = SentNames /\ SentData' = SentData
  BY <1>2 DEF SentNames, SentData
<1>4. Sender' /\ Encoded' = Encoded
  <2>1. Sender'
    BY <1>1, <1>2 DEF Sender
  <2>2. Encoded' = Encoded
    BY <1>2 DEF Encoded
  <2> QED
    BY <2>1, <2>2
<1>5. ASSUME Received(message', damaged')  PROVE Received(message, damaged)'
  BY <1>2, <1>3, <1>5 DEF Received
<1>6. ASSUME Keeps(decoded', damaged')  PROVE Keeps(decoded, damaged)'
  BY <1>2, <1>3, <1>6 DEF Keeps
<1>7. CASE Encode
  <2>1. UNCHANGED <<damaged, decoded>> /\ message = NoMessage /\ message' = Encoded
    BY <1>7 DEF Encode
  <2>2. Received(message, damaged)'
    <3>1. Received(Encoded, "none")
      BY <1>1, EncodedReceived
    <3>2. Received(message', damaged')
      BY <1>1, <2>1, <3>1
    <3> QED
      BY <1>5, <3>2
  <2>3. message' # NoMessage
    <3>1. Encoded.state = "sent"
      BY EncodedIs
    <3>2. NoMessage.state = "none"
      BY DEF NoMessage
    <3> QED
      BY <2>1, <3>1, <3>2
  <2> QED
    BY <1>1, <1>4, <2>1, <2>2, <2>3 DEF MessageInv, NoMessage
<1>8. CASE Damage
  <2>1. /\ decoded = NoMessage /\ decoded' = NoMessage
        /\ Received(message', damaged') /\ damaged' # "none"
    BY <1>8, DamagedReceived DEF Damage, NoMessage
  <2>2. message' # NoMessage
    <3>1. message'.state = "sent" /\ NoMessage.state = "none"
      BY <2>1 DEF Received, NoMessage
    <3> QED
      BY <3>1
  <2> QED
    BY <1>4, <1>5, <2>1, <2>2 DEF MessageInv, NoMessage
<1>9. CASE Decode
  <2>1. /\ message # NoMessage /\ UNCHANGED <<message, damaged>>
        /\ \E c \in {compressor, "none"} : decoded' = Result(message, c)
    BY <1>9 DEF Decode
  <2>2. Keeps(decoded', damaged') /\ Received(message', damaged')
    BY <1>1, <2>1, ResultKeeps
  <2> QED
    BY <1>1, <1>4, <1>5, <1>6, <2>1, <2>2 DEF MessageInv
<1>10. CASE UNCHANGED wireVars
  BY <1>1, <1>2, <1>3, <1>4, <1>10 DEF wireVars, MessageInv, Received, Keeps
<1> QED
  BY <1>7, <1>8, <1>9, <1>10 DEF WireNext

(* Whatever single field is damaged on its way, what decodes is what was   *)
(* sent: the names and the bytes always, because no two lists of named     *)
(* bytes have one root, and, where no field beside the root was damaged,   *)
(* the sender's gradients less what its compressor drops.                  *)
THEOREM MessagesVerified == WireSpec => []DecodedAsEncoded
<1>1. WireInit => MessageInv
  BY MessageInvInit
<1>2. MessageInv /\ [WireNext]_wireVars => MessageInv'
  BY MessageInvStep
<1>3. MessageInv => DecodedAsEncoded
  <2>1. ASSUME decoded = NoMessage  PROVE decoded.state # "decoded"
    BY <2>1 DEF NoMessage
  <2> QED
    BY <2>1 DEF MessageInv, Keeps, DecodedAsEncoded, SentData
<1> QED
  BY <1>1, <1>2, <1>3, PTL DEF WireSpec
=============================================================================
