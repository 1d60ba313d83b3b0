------------------------ MODULE PackageManagerProofs ------------------------
(***************************************************************************)
(* Proofs about the import cache and the package manager, for any number   *)
(* of processes, source files, contents and packages.  The manager only    *)
(* takes the steps of the cache, so what holds of the cache in all its     *)
(* behaviours holds under the manager as well.                             *)
(***************************************************************************)
EXTENDS PackageManager, TLAPS

-----------------------------------------------------------------------------
(* The cache.                                                              *)

(* A copy is made of a source file, under the hash of some content.        *)
TasksOK ==
  \A p \in Procs :
    task[p].step \in {"copy", "copying"} =>
      task[p].path \in Paths /\ task[p].sha \in Contents

CacheInv == TypeOK /\ TasksOK

LEMMA GotoFacts ==
  ASSUME TypeOK, NEW p \in Procs, NEW step \in Steps, Goto(p, step)
  PROVE  /\ task' \in [Procs -> Task]
         /\ task'[p] = [task[p] EXCEPT !.step = step]
         /\ task'[p].step = step
         /\ task'[p].path = task[p].path /\ task'[p].sha = task[p].sha
         /\ task'[p].drop = task[p].drop
         /\ \A q \in Procs \ {p} : task'[q] = task[q]
BY DEF TypeOK, Task, Goto

LEMMA AtFacts ==
  ASSUME NEW step \in Steps
  PROVE  At(step) \in Task /\ At(step).step = step
BY DEF At, Task

LEMMA FinishFacts ==
  ASSUME TypeOK, NEW p \in Procs, Finish(p)
  PROVE  /\ task' \in [Procs -> Task]
         /\ task'[p].step = "idle"
         /\ \A q \in Procs \ {p} : task'[q] = task[q]
<1>1. At("idle") \in Task /\ At("idle").step = "idle"
  BY AtFacts DEF Steps
<1>2. QED  BY <1>1 DEF TypeOK, Finish

LEMMA AfterSaveFacts ==
  ASSUME TypeOK, NEW p \in Procs, AfterSave(p)
  PROVE  /\ task' \in [Procs -> Task]
         /\ task'[p].step \in {"unlink", "idle"}
         /\ \A q \in Procs \ {p} : task'[q] = task[q]
<1>1. CASE Goto(p, "unlink")
  BY <1>1, GotoFacts DEF Steps
<1>2. CASE Finish(p)
  BY <1>2, FinishFacts
<1>3. QED  BY <1>1, <1>2 DEF AfterSave

(* What a process is doing after a step of its own.                        *)
LEMMA NewTask ==
  ASSUME TypeOK, NEW p \in Procs, NEW t \in Task,
         task' = [task EXCEPT ![p] = t]
  PROVE  /\ task' \in [Procs -> Task]
         /\ task'[p] = t
         /\ \A q \in Procs \ {p} : task'[q] = task[q]
BY DEF TypeOK

LEMMA StartKeeps ==
  ASSUME CacheInv, NEW p \in Procs, Start(p)
  PROVE  CacheInv'
<1>1. TypeOK  BY DEF CacheInv
<1>2. (IF disk = Torn THEN EmptyIndex ELSE disk) \in Index
  BY <1>1 DEF TypeOK, Index, EmptyIndex
<1>3. mem' \in [Procs -> Index]
  BY <1>1, <1>2 DEF Start, TypeOK
<1>4. /\ task' \in [Procs -> Task] /\ task'[p].step = "idle"
      /\ \A q \in Procs \ {p} : task'[q] = task[q]
  BY <1>1, FinishFacts DEF Start
<1>5. TypeOK'  BY <1>1, <1>3, <1>4 DEF Start, TypeOK
<1>6. TasksOK'  BY <1>4 DEF CacheInv, TasksOK
<1>7. QED  BY <1>5, <1>6 DEF CacheInv

LEMMA StoreHashKeeps ==
  ASSUME CacheInv, NEW p \in Procs, NEW x \in Paths, StoreHash(p, x)
  PROVE  /\ CacheInv'
         /\ task'[p].step = "copy" /\ task'[p].path = x
         /\ \A q \in Procs \ {p} : task'[q] = task[q]
<1> DEFINE t == [step |-> "copy", path |-> x, sha |-> source[x], drop |-> FALSE]
<1>1. TypeOK  BY DEF CacheInv
<1>2. source[x] \in Contents  BY <1>1 DEF TypeOK
<1>3. t \in Task /\ t.step = "copy" /\ t.path = x /\ t.sha = source[x]
  BY <1>2 DEF Task, Steps
<1>4. task' = [task EXCEPT ![p] = t]  BY DEF StoreHash
<1> HIDE DEF t
<1>5. /\ task' \in [Procs -> Task] /\ task'[p] = t
      /\ \A q \in Procs \ {p} : task'[q] = task[q]
  BY <1>1, <1>3, <1>4, NewTask
<1>6. TypeOK'  BY <1>1, <1>5 DEF StoreHash, TypeOK
<1>7. TasksOK'  BY <1>2, <1>3, <1>5 DEF CacheInv, TasksOK
<1>8. QED  BY <1>3, <1>5, <1>6, <1>7 DEF CacheInv

LEMMA StoreStepKeeps ==
  ASSUME CacheInv, NEW p \in Procs,
         CopyBegin(p) \/ CopyEnd(p) \/ CopyFails(p)
  PROVE  CacheInv'
<1>1. TypeOK  BY DEF CacheInv
<1>2. CASE CopyBegin(p)
  <2>1. copy' \in [Contents -> Contents \cup {Nothing, Torn}]
    BY <1>1, <1>2 DEF CopyBegin, TypeOK
  <2>2. /\ task' \in [Procs -> Task]
        /\ task'[p].path = task[p].path /\ task'[p].sha = task[p].sha
        /\ \A q \in Procs \ {p} : task'[q] = task[q]
    BY <1>1, <1>2, GotoFacts DEF CopyBegin, Steps
  <2>3. TypeOK'  BY <1>1, <1>2, <2>1, <2>2 DEF CopyBegin, TypeOK
  <2>4. TasksOK'  BY <1>2, <2>2 DEF CopyBegin, CacheInv, TasksOK
  <2>5. QED  BY <2>3, <2>4 DEF CacheInv
<1>3. CASE CopyEnd(p)
  <2>1. task[p].path \in Paths /\ task[p].sha \in Contents
    BY <1>3 DEF CopyEnd, CacheInv, TasksOK
  <2>2. copy' \in [Contents -> Contents \cup {Nothing, Torn}]
    BY <1>1, <1>3, <2>1 DEF CopyEnd, TypeOK
  <2>3. mem' \in [Procs -> Index]
    BY <1>1, <1>3, <2>1 DEF CopyEnd, TypeOK, Index
  <2>4. /\ task' \in [Procs -> Task] /\ task'[p].step = "save"
        /\ \A q \in Procs \ {p} : task'[q] = task[q]
    BY <1>1, <1>3, GotoFacts DEF CopyEnd, Steps
  <2>5. TypeOK'  BY <1>1, <1>3, <2>2, <2>3, <2>4 DEF CopyEnd, TypeOK
  <2>6. TasksOK'  BY <2>4 DEF CacheInv, TasksOK
  <2>7. QED  BY <2>5, <2>6 DEF CacheInv
<1>4. CASE CopyFails(p)
  <2>1. /\ task' \in [Procs -> Task] /\ task'[p].step = "idle"
        /\ \A q \in Procs \ {p} : task'[q] = task[q]
    BY <1>1, <1>4, FinishFacts DEF CopyFails
  <2>2. TypeOK'  BY <1>1, <1>4, <2>1 DEF CopyFails, TypeOK
  <2>3. TasksOK'  BY <2>1 DEF CacheInv, TasksOK
  <2>4. QED  BY <2>2, <2>3 DEF CacheInv
<1>5. QED  BY <1>2, <1>3, <1>4

LEMMA SaveKeeps ==
  ASSUME CacheInv, NEW p \in Procs, Save(p)
  PROVE  CacheInv'
<1>1. TypeOK  BY DEF CacheInv
<1>2. /\ task' \in [Procs -> Task]
      /\ task'[p].step \in {"saving", "unlink", "idle"}
      /\ \A q \in Procs \ {p} : task'[q] = task[q]
  BY <1>1, GotoFacts, FinishFacts, AfterSaveFacts
  DEF Save, SaveBegin, SaveFails, SaveEnd, SaveUnnoticed, Steps
<1>3. disk' \in Index \cup {Torn}
  BY <1>1 DEF Save, SaveBegin, SaveFails, SaveEnd, SaveUnnoticed, TypeOK
<1>4. UNCHANGED <<source, copy, mem, cut>>
  BY DEF Save, SaveBegin, SaveFails, SaveEnd, SaveUnnoticed
<1>5. TypeOK'  BY <1>1, <1>2, <1>3, <1>4 DEF TypeOK
<1>6. TasksOK'  BY <1>2 DEF CacheInv, TasksOK
<1>7. QED  BY <1>5, <1>6 DEF CacheInv

LEMMA InvalidateEraseKeeps ==
  ASSUME CacheInv, NEW p \in Procs, NEW x \in Paths, InvalidateErase(p, x)
  PROVE  /\ CacheInv'
         /\ task'[p].step = "save"
         /\ \A q \in Procs \ {p} : task'[q] = task[q]
<1> DEFINE t == [step |-> "save", path |-> x, sha |-> mem[p][x], drop |-> TRUE]
<1>1. TypeOK  BY DEF CacheInv
<1>2. mem[p][x] \in Contents \cup {Nothing}  BY <1>1 DEF TypeOK, Index
<1>3. t \in Task /\ t.step = "save"  BY <1>2 DEF Task, Steps
<1>4. task' = [task EXCEPT ![p] = t]  BY DEF InvalidateErase
<1> HIDE DEF t
<1>5. /\ task' \in [Procs -> Task] /\ task'[p] = t
      /\ \A q \in Procs \ {p} : task'[q] = task[q]
  BY <1>1, <1>3, <1>4, NewTask
<1>6. mem' \in [Procs -> Index]
  BY <1>1 DEF InvalidateErase, TypeOK, Index
<1>7. TypeOK'  BY <1>1, <1>5, <1>6 DEF InvalidateErase, TypeOK
<1>8. TasksOK'  BY <1>3, <1>5 DEF CacheInv, TasksOK
<1>9. QED  BY <1>3, <1>5, <1>7, <1>8 DEF CacheInv

LEMMA UnlinkKeeps ==
  ASSUME CacheInv, NEW p \in Procs, Unlink(p)
  PROVE  CacheInv'
<1>1. TypeOK  BY DEF CacheInv
<1>2. copy' \in [Contents -> Contents \cup {Nothing, Torn}]
  BY <1>1 DEF Unlink, TypeOK
<1>3. /\ task' \in [Procs -> Task] /\ task'[p].step = "idle"
      /\ \A q \in Procs \ {p} : task'[q] = task[q]
  BY <1>1, FinishFacts DEF Unlink
<1>4. TypeOK'  BY <1>1, <1>2, <1>3 DEF Unlink, TypeOK
<1>5. TasksOK'  BY <1>3 DEF CacheInv, TasksOK
<1>6. QED  BY <1>4, <1>5 DEF CacheInv

LEMMA ClearKeeps ==
  ASSUME CacheInv, NEW p \in Procs, Clear(p)
  PROVE  CacheInv'
<1>1. TypeOK  BY DEF CacheInv
<1>2. CASE ClearBegin(p)
  <2>1. At("clearing") \in Task /\ At("clearing").step = "clearing"
    BY AtFacts DEF Steps
  <2>2. /\ task' \in [Procs -> Task] /\ task'[p].step = "clearing"
        /\ \A q \in Procs \ {p} : task'[q] = task[q]
    BY <1>1, <1>2, <2>1, NewTask DEF ClearBegin
  <2>3. TypeOK'  BY <1>1, <1>2, <2>2 DEF ClearBegin, TypeOK
  <2>4. TasksOK'  BY <2>2 DEF CacheInv, TasksOK
  <2>5. QED  BY <2>3, <2>4 DEF CacheInv
<1>3. CASE ClearCopy(p)
  <2>1. copy' \in [Contents -> Contents \cup {Nothing, Torn}]
    BY <1>1, <1>3 DEF ClearCopy, TypeOK
  <2>2. TypeOK' /\ task' = task
    BY <1>1, <1>3, <2>1 DEF ClearCopy, TypeOK
  <2>3. QED  BY <2>2 DEF CacheInv, TasksOK
<1>4. CASE ClearEnd(p)
  <2>1. mem' \in [Procs -> Index] /\ disk' = Torn
    BY <1>1, <1>4 DEF ClearEnd, TypeOK, Index, EmptyIndex
  <2>2. /\ task' \in [Procs -> Task] /\ task'[p].step = "idle"
        /\ \A q \in Procs \ {p} : task'[q] = task[q]
    BY <1>1, <1>4, FinishFacts DEF ClearEnd
  <2>3. TypeOK'  BY <1>1, <1>4, <2>1, <2>2 DEF ClearEnd, TypeOK
  <2>4. TasksOK'  BY <2>2 DEF CacheInv, TasksOK
  <2>5. QED  BY <2>3, <2>4 DEF CacheInv
<1>5. QED  BY <1>2, <1>3, <1>4 DEF Clear

LEMMA CrashKeeps ==
  ASSUME CacheInv, NEW p \in Procs, Crash(p)
  PROVE  /\ CacheInv'
         /\ task'[p].step = "down" /\ mem'[p] = EmptyIndex
         /\ \A q \in Procs \ {p} : task'[q] = task[q]
<1>1. TypeOK  BY DEF CacheInv
<1>2. At("down") \in Task /\ At("down").step = "down"  BY AtFacts DEF Steps
<1>3. /\ task' \in [Procs -> Task] /\ task'[p].step = "down"
      /\ \A q \in Procs \ {p} : task'[q] = task[q]
  BY <1>1, <1>2, NewTask DEF Crash
<1>4. mem' \in [Procs -> Index] /\ mem'[p] = EmptyIndex
  BY <1>1 DEF Crash, TypeOK, Index, EmptyIndex
<1>5. cut' \in BOOLEAN  BY <1>1 DEF Crash, TypeOK
<1>6. TypeOK'  BY <1>1, <1>3, <1>4, <1>5 DEF Crash, TypeOK
<1>7. TasksOK'  BY <1>3 DEF CacheInv, TasksOK
<1>8. QED  BY <1>3, <1>4, <1>6, <1>7 DEF CacheInv

LEMMA EditKeeps ==
  ASSUME CacheInv, NEW x \in Paths, Edit(x)
  PROVE  CacheInv'
<1>1. source' \in [Paths -> Contents]  BY DEF CacheInv, TypeOK, Edit
<1>2. QED  BY <1>1 DEF CacheInv, TypeOK, TasksOK, Edit

LEMMA InitCacheInv == Init => CacheInv
<1> SUFFICES ASSUME Init PROVE CacheInv
  OBVIOUS
<1>1. At("down") \in Task /\ At("down").step = "down"  BY AtFacts DEF Steps
<1>2. EmptyIndex \in Index  BY DEF EmptyIndex, Index
<1>3. TypeOK  BY <1>1, <1>2 DEF Init, TypeOK
<1>4. TasksOK  BY <1>1 DEF Init, TasksOK
<1>5. QED  BY <1>3, <1>4 DEF CacheInv

LEMMA NextCacheInv == CacheInv /\ [Next]_vars => CacheInv'
<1> SUFFICES ASSUME CacheInv, [Next]_vars PROVE CacheInv'
  OBVIOUS
<1>1. ASSUME NEW p \in Procs, Store(p) PROVE CacheInv'
  BY <1>1, StoreHashKeeps, StoreStepKeeps DEF Store, Resolve
<1>2. ASSUME NEW p \in Procs, Invalidate(p) PROVE CacheInv'
  BY <1>2, InvalidateEraseKeeps, UnlinkKeeps DEF Invalidate
<1>3. CASE UNCHANGED vars
  BY <1>3 DEF vars, CacheInv, TypeOK, TasksOK
<1>4. QED
  BY <1>1, <1>2, <1>3, StartKeeps, SaveKeeps, ClearKeeps, CrashKeeps, EditKeeps
  DEF Next

-----------------------------------------------------------------------------
(* What the cache does for one process that has it for itself.             *)

OneProcess == \A p, q \in Procs : p = q

(* The index on disk follows the map before a copy is removed: it is cut   *)
(* short while it is written, and after that it is the map or still cut.   *)
SavedFirst ==
  \A p \in Procs :
    /\ task[p].step = "saving" => disk = Torn
    /\ task[p].step = "unlink" => disk \in {Torn, mem[p]}

CopiesInv == CacheInv /\ SavedFirst /\ EntriesHaveCopies

LEMMA EmptyIndexFacts ==
  /\ EmptyIndex \in Index
  /\ \A x \in Paths : EmptyIndex[x] = Nothing
BY DEF EmptyIndex, Index

(* An index that only takes entries there were, while no copy goes.        *)
LEMMA CopiesStay ==
  ASSUME TypeOK, EntriesHaveCopies, NoClear' => NoClear,
         \A t \in Contents : copy[t] # Nothing => copy'[t] # Nothing,
         disk' \in {Torn, disk} \/ \E p \in Procs : disk' = mem[p],
         \A p \in Procs, x \in Paths :
           \/ mem'[p][x] \in {mem[p][x], Nothing}
           \/ disk # Torn /\ mem'[p][x] = disk[x]
  PROVE  EntriesHaveCopies'
<1> USE DEF EntriesHaveCopies
<1>1. ASSUME NoClear', NEW p \in Procs, NEW x \in Paths, mem[p][x] # Nothing
      PROVE  copy'[mem[p][x]] # Nothing
  <2>1. mem[p][x] \in Contents  BY <1>1 DEF TypeOK, Index
  <2>2. copy[mem[p][x]] # Nothing  BY <1>1 DEF KnownEntriesHaveCopies
  <2>3. QED  BY <2>1, <2>2
<1>2. ASSUME NoClear', disk # Torn, NEW x \in Paths, disk[x] # Nothing
      PROVE  copy'[disk[x]] # Nothing
  <2>1. disk[x] \in Contents  BY <1>2 DEF TypeOK, Index
  <2>2. copy[disk[x]] # Nothing  BY <1>2 DEF SavedEntriesHaveCopies
  <2>3. QED  BY <2>1, <2>2
<1>3. KnownEntriesHaveCopies'
  <2> SUFFICES ASSUME NoClear', NEW p \in Procs, NEW x \in Paths,
                      mem'[p][x] # Nothing
               PROVE  copy'[mem'[p][x]] # Nothing
    BY DEF KnownEntriesHaveCopies
  <2>1. CASE mem'[p][x] = mem[p][x]  BY <1>1, <2>1
  <2>2. CASE disk # Torn /\ mem'[p][x] = disk[x]  BY <1>2, <2>2
  <2>3. QED  BY <2>1, <2>2
<1>4. SavedEntriesHaveCopies'
  <2> SUFFICES ASSUME NoClear', disk' # Torn, NEW x \in Paths,
                      disk'[x] # Nothing
               PROVE  copy'[disk'[x]] # Nothing
    BY DEF SavedEntriesHaveCopies
  <2>1. CASE disk' = disk  BY <1>2, <2>1
  <2>2. CASE \E p \in Procs : disk' = mem[p]  BY <1>1, <2>2
  <2>3. QED  BY <2>1, <2>2
<1>5. QED  BY <1>3, <1>4

(* A step of the only process that leaves the clear() it is in, if any.    *)
LEMMA StillNoClear ==
  ASSUME OneProcess, NEW p \in Procs, task[p].step # "clearing", cut' = cut
  PROVE  NoClear' => NoClear
BY DEF OneProcess, NoClear

(* CopyEnd enters the copy it has just made.                               *)
LEMMA CopyEndCopies ==
  ASSUME OneProcess, CopiesInv, NEW p \in Procs, CopyEnd(p)
  PROVE  EntriesHaveCopies'
<1> DEFINE s == task[p].sha
           y == task[p].path
<1>t. TypeOK /\ EntriesHaveCopies  BY DEF CopiesInv, CacheInv
<1>1. y \in Paths /\ s \in Contents
  BY DEF CopyEnd, CopiesInv, CacheInv, TasksOK
<1>2. /\ copy' = [copy EXCEPT ![s] = source[y]]
      /\ mem' = [mem EXCEPT ![p][y] = s]
      /\ UNCHANGED <<disk, cut>> /\ task[p].step = "copying"
  BY DEF CopyEnd
<1> HIDE DEF s, y
<1>3. /\ copy'[s] # Nothing
      /\ \A t \in Contents : copy[t] # Nothing => copy'[t] # Nothing
  BY <1>t, <1>1, <1>2, NothingAssumption DEF TypeOK
<1>4. NoClear' => NoClear  BY <1>2, StillNoClear
<1>5. ASSUME NoClear', NEW q \in Procs, NEW x \in Paths, mem'[q][x] # Nothing
      PROVE  copy'[mem'[q][x]] # Nothing
  <2>1. mem'[q][x] = s \/ mem'[q][x] = mem[q][x]
    BY <1>t, <1>1, <1>2 DEF TypeOK, Index
  <2>2. CASE mem'[q][x] = mem[q][x]
    <3>1. mem[q][x] \in Contents  BY <1>t, <1>5, <2>2 DEF TypeOK, Index
    <3>2. copy[mem[q][x]] # Nothing
      BY <1>t, <1>4, <1>5, <2>2 DEF EntriesHaveCopies, KnownEntriesHaveCopies
    <3>3. QED  BY <1>3, <2>2, <3>1, <3>2
  <2>3. QED  BY <1>3, <2>1, <2>2
<1>6. ASSUME NoClear', disk' # Torn, NEW x \in Paths, disk'[x] # Nothing
      PROVE  copy'[disk'[x]] # Nothing
  <2>1. disk[x] \in Contents  BY <1>t, <1>2, <1>6 DEF TypeOK, Index
  <2>2. copy[disk[x]] # Nothing
    BY <1>t, <1>2, <1>4, <1>6 DEF EntriesHaveCopies, SavedEntriesHaveCopies
  <2>3. QED  BY <1>2, <1>3, <2>1, <2>2
<1>7. QED
  BY <1>5, <1>6
  DEF EntriesHaveCopies, KnownEntriesHaveCopies, SavedEntriesHaveCopies

(* Unlink removes a copy that neither the map nor the saved index names.   *)
LEMMA UnlinkCopies ==
  ASSUME OneProcess, CopiesInv, NEW p \in Procs, Unlink(p)
  PROVE  EntriesHaveCopies'
<1> DEFINE s == task[p].sha
<1>t. TypeOK /\ EntriesHaveCopies /\ SavedFirst  BY DEF CopiesInv, CacheInv
<1>1. /\ copy' = [copy EXCEPT ![s] =
                     IF \E x \in Paths : mem[p][x] = s THEN @ ELSE Nothing]
      /\ UNCHANGED <<disk, mem, cut>> /\ task[p].step = "unlink"
  BY DEF Unlink
<1> HIDE DEF s
<1>2. NoClear' => NoClear  BY <1>1, StillNoClear
<1>3. \A x \in Paths : mem[p][x] \in Contents =>
                         copy'[mem[p][x]] = copy[mem[p][x]]
  <2>1. ASSUME NEW x \in Paths, mem[p][x] \in Contents
        PROVE  copy'[mem[p][x]] = copy[mem[p][x]]
    <3>1. CASE mem[p][x] = s
      <4>1. copy' = [copy EXCEPT ![s] = copy[s]]  BY <1>1, <3>1
      <4>2. QED  BY <1>t, <2>1, <3>1, <4>1 DEF TypeOK
    <3>2. CASE mem[p][x] # s  BY <1>t, <1>1, <2>1, <3>2 DEF TypeOK
    <3>3. QED  BY <3>1, <3>2
  <2>2. QED  BY <2>1
<1>4. ASSUME NoClear', NEW x \in Paths, mem[p][x] # Nothing
      PROVE  copy'[mem[p][x]] # Nothing
  <2>1. mem[p][x] \in Contents  BY <1>t, <1>4 DEF TypeOK, Index
  <2>2. copy[mem[p][x]] # Nothing
    BY <1>t, <1>2, <1>4 DEF EntriesHaveCopies, KnownEntriesHaveCopies
  <2>3. QED  BY <1>3, <2>1, <2>2
<1>5. disk' \in {Torn, mem[p]}  BY <1>t, <1>1 DEF SavedFirst
<1>6. \A q \in Procs : mem'[q] = mem[p]  BY <1>1 DEF OneProcess
<1>7. QED
  BY <1>4, <1>5, <1>6
  DEF EntriesHaveCopies, KnownEntriesHaveCopies, SavedEntriesHaveCopies

LEMMA StepCopies ==
  ASSUME OneProcess, CopiesInv, NEW p \in Procs,
         Start(p) \/ Store(p) \/ Save(p) \/ Invalidate(p) \/ Clear(p)
         \/ Crash(p)
  PROVE  EntriesHaveCopies'
<1>t. TypeOK /\ EntriesHaveCopies  BY DEF CopiesInv, CacheInv
<1> DEFINE NoneGoes ==
             \A t \in Contents : copy[t] # Nothing => copy'[t] # Nothing
           NoneNew ==
             \A q \in Procs, x \in Paths :
               \/ mem'[q][x] \in {mem[q][x], Nothing}
               \/ disk # Torn /\ mem'[q][x] = disk[x]
<1>1. ASSUME task[p].step # "clearing", cut' = cut, NoneGoes, NoneNew,
             disk' \in {Torn, disk, mem[p]}
      PROVE  EntriesHaveCopies'
  BY <1>t, <1>1, StillNoClear, CopiesStay
<1>2. CASE Start(p)
  <2>1. /\ mem' = [mem EXCEPT ![p] = IF disk = Torn THEN EmptyIndex ELSE disk]
        /\ UNCHANGED <<copy, disk, cut>> /\ task[p].step = "down"
    BY <1>2 DEF Start
  <2>2. NoneNew  BY <1>t, <2>1, EmptyIndexFacts DEF TypeOK
  <2>3. QED  BY <1>1, <2>1, <2>2
<1>3. CASE Store(p) /\ ~CopyEnd(p)
  <2>1. /\ UNCHANGED <<mem, disk, cut>> /\ task[p].step # "clearing"
        /\ UNCHANGED copy \/ copy' = [copy EXCEPT ![task[p].sha] = Torn]
    BY <1>3 DEF Store, Resolve, StoreHash, Idle, CopyBegin, CopyFails
  <2>2. NoneGoes  BY <1>t, <2>1, TornAssumption DEF TypeOK
  <2>3. QED  BY <1>1, <2>1, <2>2
<1>4. CASE Save(p)
  BY <1>1, <1>4 DEF Save, SaveBegin, SaveFails, SaveEnd, SaveUnnoticed
<1>5. ASSUME NEW y \in Paths, InvalidateErase(p, y) PROVE EntriesHaveCopies'
  <2>1. /\ mem' = [mem EXCEPT ![p][y] = Nothing]
        /\ UNCHANGED <<copy, disk, cut>> /\ task[p].step = "idle"
    BY <1>5 DEF InvalidateErase, Idle
  <2>2. NoneNew  BY <1>t, <2>1 DEF TypeOK, Index
  <2>3. QED  BY <1>1, <2>1, <2>2
<1>6. CASE ClearBegin(p) \/ ClearCopy(p)
  <2>1. task'[p].step = "clearing"
    BY <1>t, <1>6, AtFacts DEF ClearBegin, ClearCopy, TypeOK, Steps
  <2>2. ~NoClear'  BY <2>1 DEF NoClear
  <2>3. QED
    BY <2>2
    DEF EntriesHaveCopies, KnownEntriesHaveCopies, SavedEntriesHaveCopies
<1>7. CASE ClearEnd(p)
  <2>1. disk' = Torn /\ mem'[p] = EmptyIndex
    BY <1>t, <1>7 DEF ClearEnd, TypeOK
  <2>2. \A q \in Procs, x \in Paths : mem'[q][x] = Nothing
    BY <2>1, EmptyIndexFacts DEF OneProcess
  <2>3. QED
    BY <2>1, <2>2
    DEF EntriesHaveCopies, KnownEntriesHaveCopies, SavedEntriesHaveCopies
<1>8. CASE Crash(p)
  <2>1. /\ mem' = [mem EXCEPT ![p] = EmptyIndex]
        /\ cut' = (cut \/ task[p].step = "clearing")
        /\ UNCHANGED <<copy, disk>>
    BY <1>8 DEF Crash
  <2>2. NoClear' => NoClear  BY <2>1 DEF NoClear, OneProcess
  <2>3. NoneNew  BY <1>t, <2>1, EmptyIndexFacts DEF TypeOK
  <2>4. QED  BY <1>t, <2>1, <2>2, <2>3, CopiesStay
<1>9. QED
  BY <1>2, <1>3, <1>4, <1>5, <1>6, <1>7, <1>8, CopyEndCopies, UnlinkCopies
  DEF Store, Invalidate, Clear

LEMMA StepSavedFirst ==
  ASSUME OneProcess, CopiesInv, NEW p \in Procs,
         Start(p) \/ Store(p) \/ Save(p) \/ Invalidate(p) \/ Clear(p)
         \/ Crash(p)
  PROVE  SavedFirst'
<1>t. TypeOK /\ SavedFirst  BY DEF CopiesInv, CacheInv
<1>1. ASSUME task'[p].step = "saving" => disk' = Torn,
             task'[p].step = "unlink" => disk' \in {Torn, mem'[p]}
      PROVE  SavedFirst'
  BY <1>1 DEF SavedFirst, OneProcess
<1>2. ASSUME task'[p].step \notin {"saving", "unlink"} PROVE SavedFirst'
  BY <1>1, <1>2
<1>3. CASE Start(p)
  <2>1. task'[p].step = "idle"  BY <1>t, <1>3, FinishFacts DEF Start
  <2>2. QED  BY <1>2, <2>1
<1>4. CASE Store(p)
  <2>1. ASSUME NEW x \in Paths, StoreHash(p, x) PROVE SavedFirst'
    BY <1>2, <2>1, StoreHashKeeps DEF CopiesInv
  <2>2. CASE CopyBegin(p) \/ CopyEnd(p) \/ CopyFails(p)
    <3>1. task'[p].step \in {"copying", "save", "idle"}
      BY <1>t, <2>2, GotoFacts, FinishFacts
      DEF CopyBegin, CopyEnd, CopyFails, Steps
    <3>2. QED  BY <1>2, <3>1
  <2>3. QED  BY <1>4, <2>1, <2>2 DEF Store, Resolve
<1>5. CASE SaveBegin(p)
  <2>1. task'[p].step = "saving" /\ disk' = Torn
    BY <1>t, <1>5, GotoFacts DEF SaveBegin, Steps
  <2>2. QED  BY <1>1, <2>1
<1>6. CASE SaveFails(p)
  <2>1. task'[p].step = "idle"  BY <1>t, <1>6, FinishFacts DEF SaveFails
  <2>2. QED  BY <1>2, <2>1
<1>7. CASE SaveEnd(p) \/ SaveUnnoticed(p)
  <2>1. task'[p].step \in {"unlink", "idle"}
    BY <1>t, <1>7, AfterSaveFacts DEF SaveEnd, SaveUnnoticed
  <2>2. disk' \in {Torn, mem[p]} /\ mem' = mem
    BY <1>t, <1>7 DEF SaveEnd, SaveUnnoticed, SavedFirst
  <2>3. QED  BY <1>1, <2>1, <2>2
<1>8. ASSUME NEW x \in Paths, InvalidateErase(p, x) PROVE SavedFirst'
  BY <1>2, <1>8, InvalidateEraseKeeps DEF CopiesInv
<1>9. CASE Unlink(p) \/ ClearEnd(p)
  <2>1. task'[p].step = "idle"
    BY <1>t, <1>9, FinishFacts DEF Unlink, ClearEnd
  <2>2. QED  BY <1>2, <2>1
<1>10. CASE ClearBegin(p) \/ ClearCopy(p)
  <2>1. task'[p].step = "clearing"
    BY <1>t, <1>10, AtFacts DEF ClearBegin, ClearCopy, TypeOK, Steps
  <2>2. QED  BY <1>2, <2>1
<1>11. CASE Crash(p)
  BY <1>2, <1>11, CrashKeeps DEF CopiesInv
<1>12. QED
  BY <1>3, <1>4, <1>5, <1>6, <1>7, <1>8, <1>9, <1>10, <1>11
  DEF Save, Invalidate, Clear

LEMMA NextCopiesInv ==
  ASSUME OneProcess
  PROVE  CopiesInv /\ [Next]_vars => CopiesInv'
<1> SUFFICES ASSUME CopiesInv, [Next]_vars PROVE CopiesInv'
  OBVIOUS
<1>1. CacheInv'  BY NextCacheInv DEF CopiesInv
<1>2. ASSUME UNCHANGED <<copy, disk, mem, task, cut>>
      PROVE  SavedFirst' /\ EntriesHaveCopies'
  BY <1>2
  DEF CopiesInv, SavedFirst, EntriesHaveCopies, KnownEntriesHaveCopies,
      SavedEntriesHaveCopies, NoClear
<1>3. SavedFirst' /\ EntriesHaveCopies'
  BY <1>2, StepSavedFirst, StepCopies DEF Next, Edit, vars
<1>4. QED  BY <1>1, <1>3 DEF CopiesInv

LEMMA InitCopiesInv == Init => CopiesInv
<1> SUFFICES ASSUME Init PROVE CopiesInv
  OBVIOUS
<1>1. At("down").step = "down"  BY AtFacts DEF Steps
<1>2. SavedFirst  BY <1>1 DEF Init, SavedFirst
<1>3. EntriesHaveCopies
  BY EmptyIndexFacts
  DEF Init, EntriesHaveCopies, KnownEntriesHaveCopies, SavedEntriesHaveCopies
<1>4. QED  BY <1>2, <1>3, InitCacheInv DEF CopiesInv

(* A saved or loaded index never names a copy that is not there, unless a  *)
(* clear() is going on or was cut short: for one process, under the cache  *)
(* alone.                                                                  *)
THEOREM IndexNamesCopies ==
  ASSUME OneProcess
  PROVE  Spec => []EntriesHaveCopies
<1>1. CopiesInv => EntriesHaveCopies  BY DEF CopiesInv
<1>2. QED  BY <1>1, InitCopiesInv, NextCopiesInv, PTL DEF Spec

-----------------------------------------------------------------------------
(* The manager.                                                            *)

(* What install() and remove() rely on between two steps.  An install has  *)
(* the cache to itself: each file it has passed is in the index, or is the *)
(* one that is being copied.  A removal of a file starts from an index     *)
(* without it, and nothing stores it before the record goes.               *)
InstallOK(p) ==
  job[p].what = "caching" =>
    /\ job[p].package \in Packages
    /\ task[p].step \notin {"down", "clearing"}
    /\ \A x \in FilesOf[job[p].package] \ job[p].todo :
         \/ mem[p][x] # Nothing
         \/ task[p].step \in {"copy", "copying"} /\ task[p].path = x

RemoveOK(p) ==
  job[p].what = "dropping" =>
    /\ job[p].package \in Packages
    /\ task[p].step \in {"idle", "save", "saving", "unlink"}
    /\ job[p].package \in Files =>
         \A x \in FilesOf[job[p].package] : mem[p][x] = Nothing

JobsOK == \A p \in Procs : InstallOK(p) /\ RemoveOK(p)

ManagerInv == ManagerTypeOK /\ TasksOK /\ JobsOK

(* The manager uses the cache by its own operations only.                  *)
LEMMA ManagerUsesCache ==
  ManagerTypeOK /\ [ManagerNext]_allVars => [Next]_vars
<1> SUFFICES ASSUME ManagerTypeOK, ManagerNext, ~UNCHANGED vars PROVE Next
  BY DEF allVars
<1>1. ASSUME NEW p \in Procs,
             \/ Start(p) \/ Store(p) \/ Save(p)
             \/ Invalidate(p) \/ Clear(p) \/ Crash(p)
      PROVE  Next
  BY <1>1 DEF Next
<1>2. ASSUME NEW p \in Procs,
             \/ CopyBegin(p) \/ CopyEnd(p) \/ CopyFails(p)
             \/ \E x \in Paths : StoreHash(p, x)
      PROVE  Next
  BY <1>1, <1>2 DEF Store, Resolve
<1>3. ASSUME NEW p \in Procs,
             \/ SaveBegin(p) \/ SaveFails(p) \/ SaveEnd(p) \/ SaveUnnoticed(p)
      PROVE  Next
  BY <1>1, <1>3 DEF Save
<1>4. ASSUME NEW p \in Procs,
             \/ Unlink(p) \/ ClearBegin(p) \/ ClearCopy(p) \/ ClearEnd(p)
             \/ \E x \in Paths : InvalidateErase(p, x)
      PROVE  Next
  BY <1>1, <1>4 DEF Invalidate, Clear
<1>5. ASSUME NEW p \in Procs,
             \/ Construct(p) \/ ResolveImport(p) \/ UseCache(p)
             \/ Fail(p) \/ CacheStep(p) \/ Die(p)
      PROVE  Next
  BY <1>1, <1>2, <1>3, <1>4, <1>5
  DEF Construct, ResolveImport, UseCache, Fail, CacheStep, Die, Resolve
<1>6. ASSUME NEW p \in Procs, InstallFile(p) PROVE Next
  <2>1. job[p].todo \subseteq Paths  BY DEF ManagerTypeOK
  <2>2. \E x \in Paths : StoreHash(p, x)  BY <1>6, <2>1 DEF InstallFile
  <2>3. QED  BY <1>2, <2>2
<1>7. ASSUME NEW p \in Procs, NEW d \in Packages, RemoveFile(p, d) PROVE Next
  <2>1. FilesOf[d] \subseteq Paths  BY PackagesAssumption
  <2>2. \E x \in Paths : InvalidateErase(p, x)
    BY <1>7, <2>1 DEF RemoveFile
  <2>3. QED  BY <1>4, <2>2
<1>8. ASSUME NEW x \in Paths, Change(x) PROVE Next
  BY <1>8 DEF Change, Next
<1>9. ASSUME NEW p \in Procs,
             \/ Record(p) \/ Forget(p) \/ WriteSkipped(p)
             \/ WriteBegin(p) \/ WriteEnd(p) \/ WriteFails(p)
             \/ \E d \in Packages : InstallBegin(p, d) \/ RemoveUncached(p, d)
      PROVE  FALSE
  BY <1>9
  DEF Record, Forget, WriteSkipped, WriteBegin, WriteEnd, WriteFails,
      InstallBegin, RemoveUncached
<1>10. ~InitProject  BY DEF InitProject
<1>11. QED
  BY <1>5, <1>6, <1>7, <1>8, <1>9, <1>10 DEF ManagerNext

LEMMA ManagerCacheInv ==
  ManagerTypeOK /\ TasksOK /\ [ManagerNext]_allVars => CacheInv'
BY ManagerUsesCache, NextCacheInv DEF CacheInv, ManagerTypeOK

-----------------------------------------------------------------------------
(* The job and the task of a process are its own.                          *)
JobType == [what : Jobs, package : Packages \cup {Nothing},
            todo : SUBSET Paths]

Proper(j) ==
  /\ j \in JobType
  /\ j.what = "none" => j = NoJob
  /\ j.todo # {} => j.what = "caching"

JobsTyped ==
  /\ job \in [Procs -> JobType]
  /\ \A p \in Procs : Proper(job[p])

LEMMA ManagerTypes ==
  ManagerTypeOK <=> /\ TypeOK
                    /\ yml \in (SUBSET Packages) \cup {Torn, Nothing}
                    /\ deps \in [Procs -> SUBSET Packages]
                    /\ JobsTyped
BY DEF ManagerTypeOK, JobsTyped, Proper, JobType

LEMMA NewJob ==
  ASSUME JobsTyped, NEW p \in Procs, NEW j, Proper(j),
         job' = [job EXCEPT ![p] = j]
  PROVE  /\ JobsTyped'
         /\ job'[p] = j
         /\ \A q \in Procs \ {p} : job'[q] = job[q]
<1>1. j \in JobType  BY DEF Proper
<1>2. /\ job' \in [Procs -> JobType] /\ job'[p] = j
      /\ \A q \in Procs \ {p} : job'[q] = job[q]
  BY <1>1 DEF JobsTyped
<1>3. \A q \in Procs : Proper(job'[q])  BY <1>2 DEF JobsTyped
<1>4. QED  BY <1>2, <1>3 DEF JobsTyped, Proper, NoJob, Job, JobType

LEMMA JobFacts ==
  ASSUME NEW what \in Jobs \ {"none"}, NEW d \in Packages \cup {Nothing},
         NEW todo \in SUBSET Paths, todo # {} => what = "caching"
  PROVE  /\ Proper(Job(what, d, todo))
         /\ Job(what, d, todo).what = what
         /\ Job(what, d, todo).package = d
         /\ Job(what, d, todo).todo = todo
BY DEF Proper, Job, JobType

LEMMA NoJobFacts ==
  Proper(NoJob) /\ NoJob.what = "none"
BY DEF Proper, NoJob, Job, JobType, Jobs

LEMMA DoneFacts ==
  ASSUME JobsTyped, NEW p \in Procs, Done(p)
  PROVE  /\ JobsTyped'
         /\ job'[p].what = "none"
         /\ \A q \in Procs \ {p} : job'[q] = job[q]
BY NewJob, NoJobFacts DEF Done

LEMMA WritingFacts ==
  ASSUME JobsTyped, NEW p \in Procs, job[p].todo = {}, Becomes(p, "writing")
  PROVE  /\ JobsTyped'
         /\ job'[p].what = "writing"
         /\ \A q \in Procs \ {p} : job'[q] = job[q]
<1> DEFINE j == [job[p] EXCEPT !.what = "writing"]
<1>1. job[p] \in JobType  BY DEF JobsTyped
<1>2. Proper(j) /\ j.what = "writing"  BY <1>1 DEF Proper, JobType, Jobs
<1>3. job' = [job EXCEPT ![p] = j]  BY DEF Becomes
<1> HIDE DEF j
<1>4. QED  BY <1>2, <1>3, NewJob

LEMMA CacheFrame ==
  ASSUME TypeOK, NEW p \in Procs,
         Start(p) \/ Store(p) \/ Save(p) \/ Invalidate(p) \/ Clear(p)
         \/ Crash(p)
  PROVE  \A q \in Procs \ {p} : mem'[q] = mem[q] /\ task'[q] = task[q]
<1>1. \A q \in Procs \ {p} : mem'[q] = mem[q]
  BY DEF TypeOK, Start, Store, Resolve, StoreHash, CopyBegin, CopyEnd,
         CopyFails, Save, SaveBegin, SaveEnd, SaveFails, SaveUnnoticed,
         Invalidate, InvalidateErase, Unlink, Clear, ClearBegin, ClearCopy,
         ClearEnd, Crash
<1>2. \A q \in Procs \ {p} : task'[q] = task[q]
  BY DEF TypeOK, Start, Store, Resolve, StoreHash, CopyBegin, CopyEnd,
         CopyFails, Save, SaveBegin, SaveEnd, SaveFails, SaveUnnoticed,
         Invalidate, InvalidateErase, Unlink, Clear, ClearBegin, ClearCopy,
         ClearEnd, Crash, Goto, Finish, AfterSave
<1>3. QED  BY <1>1, <1>2

(* A step of one process: what the others rely on stays.                   *)
Frame(p) ==
  \A q \in Procs \ {p} :
    job'[q] = job[q] /\ task'[q] = task[q] /\ mem'[q] = mem[q]

LEMMA JobsKept ==
  ASSUME JobsOK, NEW p \in Procs, Frame(p), InstallOK(p)', RemoveOK(p)'
  PROVE  JobsOK'
BY DEF JobsOK, Frame, InstallOK, RemoveOK

(* A process that is neither in an install nor in a removal.               *)
LEMMA NoJobKept ==
  ASSUME JobsOK, NEW p \in Procs, Frame(p),
         job'[p].what \notin {"caching", "dropping"}
  PROVE  JobsOK'
BY JobsKept DEF InstallOK, RemoveOK

-----------------------------------------------------------------------------
(* One lemma per kind of step: the types and the jobs.                     *)
Typed ==
  /\ yml \in (SUBSET Packages) \cup {Torn, Nothing}
  /\ deps \in [Procs -> SUBSET Packages]
  /\ JobsTyped

(* Nothing stands for no package: a job with one has a package.            *)
LEMMA InvFacts ==
  ASSUME ManagerInv
  PROVE  TypeOK /\ Typed /\ TasksOK /\ JobsOK /\ CacheInv
BY ManagerTypes DEF ManagerInv, Typed, CacheInv

LEMMA OwnJobFacts ==
  ASSUME JobsTyped, JobsOK, NEW p \in Procs
  PROVE  /\ Proper(job[p]) /\ job[p] \in JobType
         /\ InstallOK(p) /\ RemoveOK(p)
BY DEF JobsTyped, JobsOK

(* The constructor: the process was down, so it was in no operation.       *)
LEMMA ConstructKeeps ==
  ASSUME ManagerInv, NEW p \in Procs, Construct(p)
  PROVE  Typed' /\ JobsOK'
<1>t. TypeOK /\ Typed /\ JobsOK  BY InvFacts
<1>1. Start(p) /\ UNCHANGED <<yml, job>> /\ task[p].step = "down"
  BY DEF Construct, Start
<1>2. deps' \in [Procs -> SUBSET Packages]
  <2>1. (IF yml \in {Torn, Nothing} THEN {} ELSE yml) \in SUBSET Packages
    <3>1. CASE yml \in {Torn, Nothing}  BY <3>1
    <3>2. CASE yml \notin {Torn, Nothing}
      <4>1. yml \in SUBSET Packages  BY <1>t, <3>2 DEF Typed
      <4>2. QED  BY <3>2, <4>1
    <3>3. QED  BY <3>1, <3>2
  <2>2. QED  BY <1>t, <2>1 DEF Construct, Typed
<1>3. Typed'  BY <1>t, <1>1, <1>2 DEF Typed, JobsTyped
<1>4. Frame(p)  BY <1>t, <1>1, CacheFrame DEF Frame
<1>5. job'[p].what \notin {"caching", "dropping"}
  BY <1>t, <1>1, OwnJobFacts DEF InstallOK, RemoveOK, Typed
<1>6. JobsOK'  BY <1>t, <1>4, <1>5, NoJobKept
<1>7. QED  BY <1>3, <1>6

(* An import and the host's own use of the cache, outside any job.         *)
LEMMA UseKeeps ==
  ASSUME ManagerInv, NEW p \in Procs, ResolveImport(p) \/ UseCache(p)
  PROVE  Typed' /\ JobsOK'
<1>t. TypeOK /\ Typed /\ JobsOK  BY InvFacts
<1>1. /\ Store(p) \/ Invalidate(p) \/ Clear(p)
      /\ job[p].what = "none" /\ UNCHANGED managerVars
  BY DEF ResolveImport, UseCache, Doing, Store, Invalidate, Clear
<1>2. Typed'  BY <1>t, <1>1 DEF Typed, JobsTyped, managerVars
<1>3. Frame(p) /\ job' = job
  BY <1>t, <1>1, CacheFrame DEF Frame, managerVars
<1>4. QED  BY <1>t, <1>1, <1>2, <1>3, NoJobKept

LEMMA InstallBeginKeeps ==
  ASSUME ManagerInv, NEW p \in Procs, NEW d \in Packages, InstallBegin(p, d)
  PROVE  Typed' /\ JobsOK'
<1> DEFINE j == Job("caching", d, FilesOf[d])
<1>t. TypeOK /\ Typed /\ JobsOK  BY InvFacts
<1>1. /\ job' = [job EXCEPT ![p] = j] /\ UNCHANGED <<vars, yml, deps>>
      /\ task[p].step = "idle"
  BY DEF InstallBegin, Idle
<1>2. /\ Proper(j) /\ j.what = "caching" /\ j.package = d
      /\ j.todo = FilesOf[d]
  <2>1. FilesOf[d] \in SUBSET Paths  BY PackagesAssumption
  <2>2. QED  BY <2>1, JobFacts DEF Jobs
<1> HIDE DEF j
<1>3. /\ JobsTyped' /\ job'[p] = j
      /\ \A q \in Procs \ {p} : job'[q] = job[q]
  BY <1>t, <1>1, <1>2, NewJob DEF Typed
<1>4. Typed'  BY <1>t, <1>1, <1>3 DEF Typed
<1>5. Frame(p)  BY <1>1, <1>3 DEF Frame, vars
<1>6. InstallOK(p)' /\ RemoveOK(p)'
  BY <1>1, <1>2, <1>3 DEF InstallOK, RemoveOK, vars
<1>7. QED  BY <1>t, <1>4, <1>5, <1>6, JobsKept

(* The file that is being copied is the one that has left todo.            *)
LEMMA InstallFileKeeps ==
  ASSUME ManagerInv, NEW p \in Procs, InstallFile(p)
  PROVE  Typed' /\ JobsOK'
<1>t. TypeOK /\ Typed /\ JobsOK /\ CacheInv  BY InvFacts
<1>j. Proper(job[p]) /\ job[p] \in JobType /\ InstallOK(p)
  BY <1>t, OwnJobFacts DEF Typed
<1>1. PICK x \in job[p].todo :
        /\ StoreHash(p, x)
        /\ job' = [job EXCEPT ![p].todo = @ \ {x}]
  BY DEF InstallFile
<1>2. /\ UNCHANGED <<yml, deps>> /\ job[p].what = "caching"
      /\ job[p].todo \subseteq Paths /\ x \in Paths
  BY <1>j, <1>1 DEF InstallFile, Doing, JobType
<1> DEFINE j == [job[p] EXCEPT !.todo = job[p].todo \ {x}]
<1>3. /\ Proper(j) /\ j.what = "caching" /\ j.package = job[p].package
      /\ j.todo = job[p].todo \ {x}
  BY <1>j, <1>2 DEF Proper, JobType
<1>4. job' = [job EXCEPT ![p] = j]  BY <1>1
<1> HIDE DEF j
<1>5. /\ JobsTyped' /\ job'[p] = j
      /\ \A q \in Procs \ {p} : job'[q] = job[q]
  BY <1>t, <1>3, <1>4, NewJob DEF Typed
<1>6. Typed'  BY <1>t, <1>2, <1>5 DEF Typed
<1>7. /\ task'[p].step = "copy" /\ task'[p].path = x
      /\ task[p].step = "idle" /\ mem' = mem
      /\ \A q \in Procs \ {p} : task'[q] = task[q]
  BY <1>t, <1>1, <1>2, StoreHashKeeps DEF StoreHash, Idle
<1>8. Frame(p)  BY <1>5, <1>7 DEF Frame
<1>9. RemoveOK(p)'  BY <1>3, <1>5 DEF RemoveOK
<1>10. \A y \in FilesOf[j.package] \ j.todo :
         \/ mem[p][y] # Nothing
         \/ y = x
  BY <1>j, <1>2, <1>3, <1>7 DEF InstallOK
<1>11. InstallOK(p)'
  BY <1>j, <1>2, <1>3, <1>5, <1>7, <1>10 DEF InstallOK
<1>12. QED  BY <1>t, <1>6, <1>8, <1>9, <1>11, JobsKept

(* The record is made, or there is one already.                            *)
LEMMA RecordKeeps ==
  ASSUME ManagerInv, NEW p \in Procs, Record(p)
  PROVE  Typed' /\ JobsOK'
<1>t. TypeOK /\ Typed /\ JobsOK  BY InvFacts
<1>1. /\ job[p].what = "caching" /\ job[p].todo = {}
      /\ UNCHANGED <<vars, yml>>
      /\ Becomes(p, "writing") \/ Done(p)
      /\ \/ UNCHANGED deps
         \/ deps' = [deps EXCEPT ![p] = @ \cup {job[p].package}]
  BY DEF Record, Doing
<1>2. job[p].package \in Packages
  BY <1>t, <1>1, OwnJobFacts DEF InstallOK, Typed
<1>3. deps' \in [Procs -> SUBSET Packages]  BY <1>t, <1>1, <1>2 DEF Typed
<1>4. /\ JobsTyped' /\ job'[p].what \in {"none", "writing"}
      /\ \A q \in Procs \ {p} : job'[q] = job[q]
  BY <1>t, <1>1, DoneFacts, WritingFacts DEF Typed
<1>5. Typed'  BY <1>t, <1>1, <1>3, <1>4 DEF Typed
<1>6. Frame(p)  BY <1>1, <1>4 DEF Frame, vars
<1>7. QED  BY <1>t, <1>4, <1>5, <1>6, NoJobKept

(* The entry of the file goes first.                                       *)
LEMMA RemoveFileKeeps ==
  ASSUME ManagerInv, NEW p \in Procs, NEW d \in Packages, RemoveFile(p, d)
  PROVE  Typed' /\ JobsOK'
<1> DEFINE j == Job("dropping", d, {})
<1>t. TypeOK /\ Typed /\ JobsOK /\ CacheInv  BY InvFacts
<1>1. /\ job' = [job EXCEPT ![p] = j] /\ UNCHANGED <<yml, deps>>
      /\ d \in Files
  BY DEF RemoveFile
<1>2. PICK x \in Paths : FilesOf[d] = {x}  BY <1>1, PackagesAssumption
<1>3. InvalidateErase(p, x)  BY <1>2 DEF RemoveFile
<1>4. Proper(j) /\ j.what = "dropping" /\ j.package = d
  BY JobFacts DEF Jobs
<1> HIDE DEF j
<1>5. /\ JobsTyped' /\ job'[p] = j
      /\ \A q \in Procs \ {p} : job'[q] = job[q]
  BY <1>t, <1>1, <1>4, NewJob DEF Typed
<1>6. Typed'  BY <1>t, <1>1, <1>5 DEF Typed
<1>7. task'[p].step = "save"  BY <1>t, <1>3, InvalidateEraseKeeps
<1>8. Frame(p)
  BY <1>t, <1>3, <1>5, CacheFrame DEF Frame, Invalidate
<1>9. mem'[p][x] = Nothing
  BY <1>t, <1>3 DEF InvalidateErase, TypeOK, Index
<1>10. InstallOK(p)' /\ RemoveOK(p)'
  BY <1>2, <1>4, <1>5, <1>7, <1>9 DEF InstallOK, RemoveOK
<1>11. QED  BY <1>t, <1>6, <1>8, <1>10, JobsKept

LEMMA RemoveUncachedKeeps ==
  ASSUME ManagerInv, NEW p \in Procs, NEW d \in Packages,
         RemoveUncached(p, d)
  PROVE  Typed' /\ JobsOK'
<1> DEFINE j == Job("dropping", d, {})
<1>t. TypeOK /\ Typed /\ JobsOK  BY InvFacts
<1>1. /\ job' = [job EXCEPT ![p] = j] /\ UNCHANGED <<vars, yml, deps>>
      /\ d \in Files => \A x \in FilesOf[d] : mem[p][x] = Nothing
      /\ task[p].step = "idle"
  BY DEF RemoveUncached, Idle
<1>2. Proper(j) /\ j.what = "dropping" /\ j.package = d
  BY JobFacts DEF Jobs
<1> HIDE DEF j
<1>3. /\ JobsTyped' /\ job'[p] = j
      /\ \A q \in Procs \ {p} : job'[q] = job[q]
  BY <1>t, <1>1, <1>2, NewJob DEF Typed
<1>4. Typed'  BY <1>t, <1>1, <1>3 DEF Typed
<1>5. Frame(p)  BY <1>1, <1>3 DEF Frame, vars
<1>6. InstallOK(p)' /\ RemoveOK(p)'
  BY <1>1, <1>2, <1>3 DEF InstallOK, RemoveOK, vars
<1>7. QED  BY <1>t, <1>4, <1>5, <1>6, JobsKept

LEMMA ForgetKeeps ==
  ASSUME ManagerInv, NEW p \in Procs, Forget(p)
  PROVE  Typed' /\ JobsOK'
<1>t. TypeOK /\ Typed /\ JobsOK  BY InvFacts
<1>1. /\ UNCHANGED <<vars, yml>> /\ Becomes(p, "writing")
      /\ job[p].what = "dropping"
      /\ deps' = [deps EXCEPT ![p] = @ \ {job[p].package}]
  BY DEF Forget, Doing
<1>2. deps' \in [Procs -> SUBSET Packages]  BY <1>t, <1>1 DEF Typed
<1>3. job[p].todo = {}  BY <1>t, <1>1, OwnJobFacts DEF Proper, Typed
<1>4. /\ JobsTyped' /\ job'[p].what = "writing"
      /\ \A q \in Procs \ {p} : job'[q] = job[q]
  BY <1>t, <1>1, <1>3, WritingFacts DEF Typed
<1>5. Typed'  BY <1>t, <1>1, <1>2, <1>4 DEF Typed
<1>6. Frame(p)  BY <1>1, <1>4 DEF Frame, vars
<1>7. QED  BY <1>t, <1>4, <1>5, <1>6, NoJobKept

(* The steps of PackageManifest::save().                                   *)
LEMMA WriteKeeps ==
  ASSUME ManagerInv, NEW p \in Procs,
         WriteSkipped(p) \/ WriteBegin(p) \/ WriteEnd(p) \/ WriteFails(p)
  PROVE  Typed' /\ JobsOK'
<1>t. TypeOK /\ Typed /\ JobsOK  BY InvFacts
<1>1. /\ UNCHANGED <<vars, deps>> /\ job[p].what = "writing"
      /\ Done(p) \/ UNCHANGED job
      /\ yml' \in {yml, Torn, deps[p]}
  BY DEF WriteSkipped, WriteBegin, WriteEnd, WriteFails, Doing
<1>2. yml' \in (SUBSET Packages) \cup {Torn, Nothing}
  <2>1. deps[p] \in SUBSET Packages  BY <1>t DEF Typed
  <2>2. yml' = yml \/ yml' = Torn \/ yml' = deps[p]  BY <1>1
  <2>3. CASE yml' = yml  BY <1>t, <2>3 DEF Typed
  <2>4. CASE yml' = Torn  BY <2>4
  <2>5. CASE yml' = deps[p]  BY <2>1, <2>5
  <2>6. QED  BY <2>2, <2>3, <2>4, <2>5
<1>3. /\ JobsTyped' /\ job'[p].what \in {"none", "writing"}
      /\ \A q \in Procs \ {p} : job'[q] = job[q]
  <2>1. CASE Done(p)  BY <1>t, <2>1, DoneFacts DEF Typed
  <2>2. CASE UNCHANGED job  BY <1>t, <1>1, <2>2 DEF Typed, JobsTyped
  <2>3. QED  BY <1>1, <2>1, <2>2
<1>4. Typed'  BY <1>t, <1>1, <1>2, <1>3 DEF Typed
<1>5. Frame(p)  BY <1>1, <1>3 DEF Frame, vars
<1>6. QED  BY <1>t, <1>3, <1>4, <1>5, NoJobKept

(* A store() that throws ends the install; invalidate() may throw too, and *)
(* the removal goes on.                                                    *)
LEMMA FailKeeps ==
  ASSUME ManagerInv, NEW p \in Procs, Fail(p)
  PROVE  Typed' /\ JobsOK'
<1>t. TypeOK /\ Typed /\ JobsOK  BY InvFacts
<1>1. /\ CopyFails(p) \/ SaveFails(p)
      /\ UNCHANGED <<yml, deps, mem>>
      /\ IF job[p].what = "caching" THEN Done(p) ELSE UNCHANGED job
  BY DEF Fail, Doing, CopyFails, SaveFails
<1>2. task'[p].step = "idle"
  BY <1>t, <1>1, FinishFacts DEF CopyFails, SaveFails
<1>3. /\ JobsTyped'
      /\ \A q \in Procs \ {p} : job'[q] = job[q]
      /\ \/ job'[p].what = "none"
         \/ job[p].what # "caching" /\ job' = job
  <2>1. CASE job[p].what = "caching"
    BY <1>t, <1>1, <2>1, DoneFacts DEF Typed
  <2>2. CASE job[p].what # "caching"
    BY <1>t, <1>1, <2>2 DEF Typed, JobsTyped
  <2>3. QED  BY <2>1, <2>2
<1>4. Typed'  BY <1>t, <1>1, <1>3 DEF Typed
<1>5. Frame(p)
  BY <1>t, <1>1, <1>3, CacheFrame DEF Frame, Store, Save
<1>6. InstallOK(p)' /\ RemoveOK(p)'
  BY <1>t, <1>1, <1>2, <1>3, OwnJobFacts DEF InstallOK, RemoveOK, Typed
<1>7. QED  BY <1>t, <1>4, <1>5, <1>6, JobsKept

LEMMA CopyEndFacts ==
  ASSUME CacheInv, NEW p \in Procs, CopyEnd(p)
  PROVE  /\ task[p].step = "copying" /\ task'[p].step = "save"
         /\ mem'[p][task[p].path] # Nothing
         /\ \A x \in Paths \ {task[p].path} : mem'[p][x] = mem[p][x]
<1>t. TypeOK  BY DEF CacheInv
<1>1. /\ task[p].step = "copying" /\ Goto(p, "save")
      /\ mem' = [mem EXCEPT ![p][task[p].path] = task[p].sha]
  BY DEF CopyEnd
<1>2. task[p].path \in Paths /\ task[p].sha \in Contents
  BY <1>1 DEF CacheInv, TasksOK
<1>3. task[p].sha # Nothing  BY <1>2, NothingAssumption
<1>4. task'[p].step = "save"  BY <1>t, <1>1, GotoFacts DEF Steps
<1>5. /\ mem'[p][task[p].path] = task[p].sha
      /\ \A x \in Paths \ {task[p].path} : mem'[p][x] = mem[p][x]
  BY <1>t, <1>1, <1>2 DEF TypeOK, Index
<1>6. QED  BY <1>1, <1>3, <1>4, <1>5

(* The steps inside one operation of the cache.                            *)
LEMMA CacheStepKeeps ==
  ASSUME ManagerInv, NEW p \in Procs, CacheStep(p)
  PROVE  Typed' /\ JobsOK'
<1>t. TypeOK /\ Typed /\ JobsOK /\ CacheInv  BY InvFacts
<1>1. UNCHANGED <<yml, deps, job>>  BY DEF CacheStep, managerVars
<1>2. Typed'  BY <1>t, <1>1 DEF Typed, JobsTyped
<1>3. Store(p) \/ Save(p) \/ Invalidate(p) \/ Clear(p)
  BY DEF CacheStep, Store, Save, Invalidate, Clear
<1>4. Frame(p)  BY <1>t, <1>1, <1>3, CacheFrame DEF Frame
<1>5. InstallOK(p) /\ RemoveOK(p) /\ Proper(job[p]) /\ job[p] \in JobType
  BY <1>t, OwnJobFacts DEF Typed
<1>6. CASE CopyBegin(p)
  <2>1. /\ task[p].step = "copy" /\ task'[p].step = "copying"
        /\ task'[p].path = task[p].path /\ mem' = mem
    BY <1>t, <1>6, GotoFacts DEF CopyBegin, Steps
  <2>2. InstallOK(p)'  BY <1>1, <1>5, <2>1 DEF InstallOK
  <2>3. RemoveOK(p)'  BY <1>1, <1>5, <2>1 DEF RemoveOK
  <2>4. QED  BY <1>t, <1>2, <1>4, <2>2, <2>3, JobsKept
<1>7. CASE CopyEnd(p)
  <2>1. /\ task[p].step = "copying" /\ task'[p].step = "save"
        /\ mem'[p][task[p].path] # Nothing
        /\ \A x \in Paths \ {task[p].path} : mem'[p][x] = mem[p][x]
    BY <1>t, <1>7, CopyEndFacts
  <2>2. ASSUME job[p].what = "caching"
        PROVE  FilesOf[job[p].package] \subseteq Paths
    BY <1>5, <2>2, PackagesAssumption DEF InstallOK
  <2>3. InstallOK(p)'  BY <1>1, <1>5, <2>1, <2>2 DEF InstallOK
  <2>4. RemoveOK(p)'  BY <1>1, <1>5, <2>1 DEF RemoveOK
  <2>5. QED  BY <1>t, <1>2, <1>4, <2>3, <2>4, JobsKept
<1>8. CASE SaveBegin(p) \/ SaveEnd(p) \/ SaveUnnoticed(p) \/ Unlink(p)
  <2>1. /\ task[p].step \in {"save", "saving", "unlink"} /\ mem' = mem
    BY <1>8 DEF SaveBegin, SaveEnd, SaveUnnoticed, Unlink
  <2>2. task'[p].step \in {"saving", "unlink", "idle"}
    BY <1>t, <1>8, GotoFacts, FinishFacts, AfterSaveFacts
    DEF SaveBegin, SaveEnd, SaveUnnoticed, Unlink, Steps
  <2>3. InstallOK(p)'  BY <1>1, <1>5, <2>1, <2>2 DEF InstallOK
  <2>4. RemoveOK(p)'  BY <1>1, <1>5, <2>1, <2>2 DEF RemoveOK
  <2>5. QED  BY <1>t, <1>2, <1>4, <2>3, <2>4, JobsKept
<1>9. CASE ClearCopy(p) \/ ClearEnd(p)
  <2>1. job'[p].what \notin {"caching", "dropping"}
    BY <1>1, <1>5, <1>9 DEF ClearCopy, ClearEnd, InstallOK, RemoveOK
  <2>2. QED  BY <1>t, <1>2, <1>4, <2>1, NoJobKept
<1>10. QED  BY <1>6, <1>7, <1>8, <1>9 DEF CacheStep

LEMMA DieKeeps ==
  ASSUME ManagerInv, NEW p \in Procs, Die(p)
  PROVE  Typed' /\ JobsOK'
<1>t. TypeOK /\ Typed /\ JobsOK  BY InvFacts
<1>1. /\ Crash(p) /\ Done(p) /\ yml' = yml
      /\ deps' = [deps EXCEPT ![p] = {}]
  BY DEF Die
<1>2. deps' \in [Procs -> SUBSET Packages]  BY <1>t, <1>1 DEF Typed
<1>3. /\ JobsTyped' /\ job'[p].what = "none"
      /\ \A q \in Procs \ {p} : job'[q] = job[q]
  BY <1>t, <1>1, DoneFacts DEF Typed
<1>4. Typed'  BY <1>t, <1>1, <1>2, <1>3 DEF Typed
<1>5. Frame(p)  BY <1>t, <1>1, <1>3, CacheFrame DEF Frame
<1>6. QED  BY <1>t, <1>3, <1>4, <1>5, NoJobKept

LEMMA OthersKeep ==
  ASSUME ManagerInv,
         InitProject \/ UNCHANGED allVars \/ \E x \in Paths : Change(x)
  PROVE  Typed' /\ JobsOK'
<1>t. TypeOK /\ Typed /\ JobsOK  BY InvFacts
<1>1. /\ UNCHANGED <<deps, job, task, mem>>
      /\ yml' = yml \/ yml' = {} \/ yml' = Torn
  BY DEF InitProject, Change, Edit, allVars, managerVars, vars
<1>2. yml' \in (SUBSET Packages) \cup {Torn, Nothing}
  BY <1>t, <1>1 DEF Typed
<1>3. Typed'  BY <1>t, <1>1, <1>2 DEF Typed, JobsTyped
<1>4. JobsOK'  BY <1>t, <1>1 DEF JobsOK, InstallOK, RemoveOK
<1>5. QED  BY <1>3, <1>4

LEMMA NextManagerInv == ManagerInv /\ [ManagerNext]_allVars => ManagerInv'
<1> SUFFICES ASSUME ManagerInv, [ManagerNext]_allVars PROVE ManagerInv'
  OBVIOUS
<1>1. TypeOK' /\ TasksOK'
  BY ManagerCacheInv DEF ManagerInv, CacheInv
<1>2. Typed' /\ JobsOK'
  BY ConstructKeeps, UseKeeps, InstallBeginKeeps, InstallFileKeeps,
     RecordKeeps, RemoveFileKeeps, RemoveUncachedKeeps, ForgetKeeps,
     WriteKeeps, FailKeeps, CacheStepKeeps, DieKeeps, OthersKeep
  DEF ManagerNext
<1>3. ManagerTypeOK'
  BY <1>1, <1>2 DEF ManagerTypeOK, Typed, JobsTyped, Proper, JobType
<1>4. QED  BY <1>1, <1>2, <1>3 DEF ManagerInv

LEMMA InitManagerInv == ManagerInit => ManagerInv
<1> SUFFICES ASSUME ManagerInit PROVE ManagerInv
  OBVIOUS
<1>1. CacheInv  BY InitCacheInv DEF ManagerInit
<1>2. NoJob \in JobType  BY NoJobFacts DEF Proper
<1>3. JobsTyped  BY <1>2, NoJobFacts DEF ManagerInit, JobsTyped
<1>4. Typed  BY <1>3 DEF ManagerInit, Typed
<1>5. JobsOK
  BY NoJobFacts DEF ManagerInit, JobsOK, InstallOK, RemoveOK
<1>6. ManagerTypeOK  BY <1>1, <1>4, ManagerTypes DEF CacheInv, Typed
<1>7. QED  BY <1>1, <1>5, <1>6 DEF ManagerInv, CacheInv

(* The manager and its cache keep their types: a job has the files it has  *)
(* yet to store only while it installs.                                    *)
THEOREM ManagerTypesKept == ManagerSpec => []ManagerTypeOK
<1>1. ManagerInv => ManagerTypeOK  BY DEF ManagerInv
<1>2. QED  BY <1>1, InitManagerInv, NextManagerInv, PTL DEF ManagerSpec

(* install() records a package only when each of its files is in the       *)
(* index, whatever failed, was edited or was dropped on the way.           *)
THEOREM InstallCachesFirst == ManagerSpec => RecordedIsCached
<1> DEFINE A == \A p \in Procs, d \in Packages :
                  d \in deps[p]' \ deps[p] /\ task[p].step # "down" =>
                    \A x \in FilesOf[d] : mem[p][x] # Nothing
<1>1. ManagerInv /\ [ManagerNext]_allVars => [A]_allVars
  <2> SUFFICES ASSUME ManagerInv, ManagerNext,
                      NEW p \in Procs, NEW d \in Packages,
                      d \in deps'[p] \ deps[p], task[p].step # "down",
                      NEW x \in FilesOf[d]
               PROVE  mem[p][x] # Nothing
    OBVIOUS
  <2>t. Typed /\ JobsOK  BY InvFacts
  <2>1. PICK q \in Procs :
          Construct(q) \/ Record(q) \/ Forget(q) \/ Die(q)
    BY DEF ManagerNext, InitProject, ResolveImport, UseCache, InstallBegin,
           InstallFile, RemoveFile, RemoveUncached, WriteSkipped, WriteBegin,
           WriteEnd, WriteFails, Fail, CacheStep, Change, managerVars
  <2>2. q = p
    BY <2>t, <2>1 DEF Typed, Construct, Record, Forget, Die
  <2>3. ~Construct(p)  BY DEF Construct, Start
  <2>4. ~Forget(p) /\ ~Die(p)  BY <2>t DEF Typed, Forget, Die
  <2>5. Record(p)  BY <2>1, <2>2, <2>3, <2>4
  <2>6. /\ job[p].what = "caching" /\ job[p].todo = {}
        /\ task[p].step = "idle" /\ d = job[p].package
    BY <2>t, <2>5 DEF Typed, Record, Doing, Idle
  <2>7. InstallOK(p)  BY <2>t DEF JobsOK
  <2>8. QED  BY <2>6, <2>7 DEF InstallOK
<1>2. QED
  BY <1>1, InitManagerInv, NextManagerInv, PTL
  DEF ManagerSpec, RecordedIsCached

(* A remove() that ends has taken a package that is a file out of the      *)
(* index, even when the save of the index failed.                          *)
THEOREM RemoveUncachesFirst == ManagerSpec => RemovedIsUncached
<1> DEFINE A == \A p \in Procs, d \in Files :
                  d \in deps[p] \ deps[p]' /\ job[p] = Job("dropping", d, {})
                    => \A x \in FilesOf[d] : mem[p][x] = Nothing
<1>1. ManagerInv /\ [ManagerNext]_allVars => [A]_allVars
  BY JobFacts DEF ManagerInv, JobsOK, RemoveOK, Job
<1>2. QED
  BY <1>1, InitManagerInv, NextManagerInv, PTL
  DEF ManagerSpec, RemovedIsUncached

(* The cache under the manager is the cache: every step of an install, a   *)
(* removal or an import is one of its operations, or leaves it alone.      *)
THEOREM ManagerKeepsToCache == ManagerSpec => Spec
<1>1. ManagerInit => Init  BY DEF ManagerInit
<1>2. ManagerInv => ManagerTypeOK  BY DEF ManagerInv
<1>3. QED
  BY <1>1, <1>2, InitManagerInv, NextManagerInv, ManagerUsesCache, PTL
  DEF ManagerSpec, Spec

-----------------------------------------------------------------------------
(* Names.                                                                  *)
LEMMA RecordNames ==
  ASSUME Typed, JobsOK, NamesAreUnique, NEW p \in Procs, Record(p)
  PROVE  NamesAreUnique'
<1>1. ASSUME NEW q \in Procs PROVE OneName(deps'[q])
  <2>1. CASE deps'[q] = deps[q]
    BY <2>1 DEF NamesAreUnique, OneName
  <2>2. CASE deps'[q] # deps[q]
    <3>1. /\ q = p /\ deps'[p] = deps[p] \cup {job[p].package}
          /\ Recorded(p, NameOf[job[p].package]) = {}
      BY <2>2 DEF Record, Typed
    <3>2. \A e \in deps[p] : NameOf[e] # NameOf[job[p].package]
      BY <3>1 DEF Recorded
    <3>3. OneName(deps[p])  BY DEF NamesAreUnique
    <3>4. QED  BY <3>1, <3>2, <3>3 DEF OneName
  <2>3. QED  BY <2>1, <2>2
<1>2. yml' = yml  BY DEF Record
<1>3. QED  BY <1>1, <1>2 DEF NamesAreUnique, OneName

LEMMA NextNames ==
  ManagerInv /\ NamesAreUnique /\ [ManagerNext]_allVars => NamesAreUnique'
<1> SUFFICES ASSUME ManagerInv, NamesAreUnique, [ManagerNext]_allVars
             PROVE  NamesAreUnique'
  OBVIOUS
<1>t. Typed /\ JobsOK  BY InvFacts
<1> DEFINE Shrink == \A q \in Procs :
                       \/ deps'[q] \subseteq deps[q]
                       \/ yml \notin {Torn, Nothing} /\ deps'[q] = yml
           Same == \/ yml' \in {yml, {}, Torn}
                   \/ \E q \in Procs : yml' = deps[q]
<1>1. ASSUME Shrink, Same PROVE NamesAreUnique'
  BY <1>1 DEF NamesAreUnique, OneName
<1>2. ASSUME NEW p \in Procs, Construct(p) PROVE Shrink /\ Same
  BY <1>t, <1>2 DEF Construct, Typed
<1>3. ASSUME NEW p \in Procs, Forget(p) \/ Die(p) PROVE Shrink /\ Same
  BY <1>t, <1>3 DEF Forget, Die, Typed
<1>4. ASSUME NEW p \in Procs, WriteBegin(p) \/ WriteEnd(p)
      PROVE  Shrink /\ Same
  BY <1>4 DEF WriteBegin, WriteEnd
<1>5. CASE InitProject  BY <1>1, <1>5 DEF InitProject
<1>6. CASE UNCHANGED <<yml, deps>>  BY <1>1, <1>6
<1>7. QED
  BY <1>t, <1>1, <1>2, <1>3, <1>4, <1>5, <1>6, RecordNames
  DEF ManagerNext, allVars, ResolveImport, UseCache, InstallBegin,
      InstallFile, RemoveFile, RemoveUncached, WriteSkipped, WriteFails,
      Fail, CacheStep, Change, managerVars

(* No two dependencies share a name, in falcon.yml or in a process:        *)
(* remove() and the `already` test find the one they mean.                 *)
THEOREM NamesStayUnique == ManagerSpec => []NamesAreUnique
<1>1. ManagerInit => NamesAreUnique
  BY DEF ManagerInit, NamesAreUnique, OneName
<1>2. QED
  BY <1>1, InitManagerInv, NextManagerInv, NextNames, PTL DEF ManagerSpec

(* So what holds of the cache alone holds under the manager.               *)
THEOREM ManagedIndexNamesCopies ==
  ASSUME OneProcess
  PROVE  ManagerSpec => []EntriesHaveCopies
BY ManagerKeepsToCache, IndexNamesCopies
=============================================================================
