---------------------------- MODULE PackageCache ----------------------------
(***************************************************************************)
(* The import cache of the package manager: <project>/.falcon/cache holds  *)
(* one copy <sha256>.fal per content and index.json, which maps each       *)
(* source path to the hash of its copy.  Every process reads the index     *)
(* once, when its PackageManager is constructed, and then works on its own *)
(* map.  Neither the copies nor the index are written atomically, so a     *)
(* process that dies, a disk that fills up, and an editor that saves a     *)
(* source file all meet half-finished operations.                          *)
(*                                                                         *)
(* A hash is modelled by the content it is the hash of.                    *)
(***************************************************************************)
EXTENDS Naturals, FiniteSets

CONSTANTS
  Procs,      \* processes that use the cache
  Paths,      \* source files, by canonical path
  Contents,   \* what a source file can contain
  Nothing,    \* no index entry, no file
  Torn        \* a file that was truncated and not completely rewritten

ASSUME NothingAssumption == Nothing \notin Contents

ASSUME TornAssumption == Torn \notin Contents /\ Torn # Nothing

Index == [Paths -> Contents \cup {Nothing}]

EmptyIndex == [x \in Paths |-> Nothing]

VARIABLES
  source,     \* source[x]: the content of the source file x
  copy,       \* copy[s]: the cached file named after the hash of s
  disk,       \* index.json; Torn when it is missing, empty or unreadable
  mem,        \* mem[p]: the index_ map of process p
  task,       \* task[p]: the operation p is inside, and how far it got
  cut         \* some clear() was cut short

vars == <<source, copy, disk, mem, task, cut>>

Steps == {"idle", "down", "copy", "copying", "save", "saving", "unlink",
          "clearing"}

Task == [step : Steps, path : Paths \cup {Nothing},
         sha : Contents \cup {Nothing}, drop : BOOLEAN]

At(step) == [step |-> step, path |-> Nothing, sha |-> Nothing, drop |-> FALSE]

TypeOK ==
  /\ source \in [Paths -> Contents]
  /\ copy \in [Contents -> Contents \cup {Nothing, Torn}]
  /\ disk \in Index \cup {Torn}
  /\ mem \in [Procs -> Index]
  /\ task \in [Procs -> Task]
  /\ cut \in BOOLEAN

Init ==
  /\ source \in [Paths -> Contents]
  /\ copy = [s \in Contents |-> Nothing]
  /\ disk = Torn
  /\ mem = [p \in Procs |-> EmptyIndex]
  /\ task = [p \in Procs |-> At("down")]
  /\ cut = FALSE

-----------------------------------------------------------------------------
Idle(p) == task[p].step = "idle"

Goto(p, step) == task' = [task EXCEPT ![p].step = step]

Finish(p) == task' = [task EXCEPT ![p] = At("idle")]

(* lookup(): the entry, the copy and the hash of the source must agree.    *)
(* The content of the copy is not looked at.                               *)
Hit(p, x) ==
  LET s == mem[p][x] IN
  /\ s # Nothing
  /\ copy[s] # Nothing
  /\ source[x] = s

\* Fault: what could be read of a corrupt index is kept.
StartKeepsGarbage(p) ==
  /\ task[p].step = "down"
  /\ mem' = [mem EXCEPT ![p] = disk]
  /\ Finish(p)
  /\ UNCHANGED <<source, copy, disk, cut>>

(* The constructor: a missing or unreadable index is an empty one.         *)
Start(p) ==
  /\ task[p].step = "down"
  /\ mem' = [mem EXCEPT ![p] = IF disk = Torn THEN EmptyIndex ELSE disk]
  /\ Finish(p)
  /\ UNCHANGED <<source, copy, disk, cut>>

-----------------------------------------------------------------------------
(* store(): hash the source, copy it, enter it in the map, save the map.   *)

StoreHash(p, x) ==
  /\ Idle(p)
  /\ task' = [task EXCEPT ![p] = [step |-> "copy", path |-> x,
                                  sha |-> source[x], drop |-> FALSE]]
  /\ UNCHANGED <<source, copy, disk, mem, cut>>

\* resolve_local() never asks lookup(): every resolved import is stored anew.
Resolve(p, x) == StoreHash(p, x)

\* copy_file with overwrite_existing truncates the copy that is there.
CopyBegin(p) ==
  /\ task[p].step = "copy"
  /\ copy' = [copy EXCEPT ![task[p].sha] = Torn]
  /\ Goto(p, "copying")
  /\ UNCHANGED <<source, disk, mem, cut>>

\* copy_file throws: no space, or the source file has gone.
CopyFails(p) ==
  /\ task[p].step \in {"copy", "copying"}
  /\ Finish(p)
  /\ UNCHANGED <<source, copy, disk, mem, cut>>

\* The bytes copied are those of the source now, not of the source hashed.
CopyEnd(p) ==
  LET t == task[p] IN
  /\ t.step = "copying"
  /\ copy' = [copy EXCEPT ![t.sha] = source[t.path]]
  /\ mem' = [mem EXCEPT ![p][t.path] = t.sha]
  /\ Goto(p, "save")
  /\ UNCHANGED <<source, disk, cut>>

-----------------------------------------------------------------------------
(* save_index(): truncate index.json, then write the map.                  *)

SaveBegin(p) ==
  /\ task[p].step = "save"
  /\ disk' = Torn
  /\ Goto(p, "saving")
  /\ UNCHANGED <<source, copy, mem, cut>>

\* The file cannot be opened: save_index throws out of the operation.
SaveFails(p) ==
  /\ task[p].step = "save"
  /\ Finish(p)
  /\ UNCHANGED <<source, copy, disk, mem, cut>>

AfterSave(p) == IF task[p].drop THEN Goto(p, "unlink") ELSE Finish(p)

SaveEnd(p) ==
  /\ task[p].step = "saving"
  /\ disk' = mem[p]
  /\ AfterSave(p)
  /\ UNCHANGED <<source, copy, mem, cut>>

\* The write does not reach the disk; the stream's state is not checked.
SaveUnnoticed(p) ==
  /\ task[p].step = "saving"
  /\ AfterSave(p)
  /\ UNCHANGED <<source, copy, disk, mem, cut>>

-----------------------------------------------------------------------------
(* invalidate(): forget the entry, save, remove a copy nothing refers to.  *)

\* Fault: the copy goes before the index that names it is saved.
InvalidateUnlinks(p, x) ==
  LET s == mem[p][x] IN
  /\ Idle(p)
  /\ s # Nothing
  /\ mem' = [mem EXCEPT ![p][x] = Nothing]
  /\ copy' = [copy EXCEPT ![s] =
                IF \E y \in Paths \ {x} : mem[p][y] = s THEN @ ELSE Nothing]
  /\ task' = [task EXCEPT ![p] = [step |-> "save", path |-> x,
                                  sha |-> s, drop |-> FALSE]]
  /\ UNCHANGED <<source, disk, cut>>

InvalidateErase(p, x) ==
  /\ Idle(p)
  /\ mem[p][x] # Nothing
  /\ mem' = [mem EXCEPT ![p][x] = Nothing]
  /\ task' = [task EXCEPT ![p] = [step |-> "save", path |-> x,
                                  sha |-> mem[p][x], drop |-> TRUE]]
  /\ UNCHANGED <<source, copy, disk, cut>>

Unlink(p) ==
  LET s == task[p].sha IN
  /\ task[p].step = "unlink"
  /\ copy' = [copy EXCEPT ![s] =
                IF \E x \in Paths : mem[p][x] = s THEN @ ELSE Nothing]
  /\ Finish(p)
  /\ UNCHANGED <<source, disk, mem, cut>>

-----------------------------------------------------------------------------
(* clear(): remove the copy of every entry, then the map and the index.    *)

ClearBegin(p) ==
  /\ Idle(p)
  /\ task' = [task EXCEPT ![p] = At("clearing")]
  /\ UNCHANGED <<source, copy, disk, mem, cut>>

ClearCopy(p) ==
  /\ task[p].step = "clearing"
  /\ \E x \in Paths :
       /\ mem[p][x] # Nothing
       /\ copy[mem[p][x]] # Nothing
       /\ copy' = [copy EXCEPT ![mem[p][x]] = Nothing]
  /\ UNCHANGED <<source, disk, mem, task, cut>>

ClearEnd(p) ==
  /\ task[p].step = "clearing"
  /\ \A x \in Paths : mem[p][x] # Nothing => copy[mem[p][x]] = Nothing
  /\ mem' = [mem EXCEPT ![p] = EmptyIndex]
  /\ disk' = Torn
  /\ Finish(p)
  /\ UNCHANGED <<source, copy, cut>>

-----------------------------------------------------------------------------
(* The environment: processes end or are killed, users edit their files.   *)

Crash(p) ==
  /\ task[p].step # "down"
  /\ cut' = (cut \/ task[p].step = "clearing")
  /\ task' = [task EXCEPT ![p] = At("down")]
  /\ mem' = [mem EXCEPT ![p] = EmptyIndex]
  /\ UNCHANGED <<source, copy, disk>>

Edit(x) ==
  /\ \E s \in Contents \ {source[x]} : source' = [source EXCEPT ![x] = s]
  /\ UNCHANGED <<copy, disk, mem, task, cut>>

-----------------------------------------------------------------------------
Store(p) ==
  \/ \E x \in Paths : Resolve(p, x)
  \/ CopyBegin(p) \/ CopyEnd(p) \/ CopyFails(p)

Save(p) == SaveBegin(p) \/ SaveFails(p) \/ SaveEnd(p) \/ SaveUnnoticed(p)

Invalidate(p) == (\E x \in Paths : InvalidateErase(p, x)) \/ Unlink(p)

Clear(p) == ClearBegin(p) \/ ClearCopy(p) \/ ClearEnd(p)

Next ==
  \/ \E p \in Procs : \/ Start(p) \/ Store(p) \/ Save(p)
                      \/ Invalidate(p) \/ Clear(p) \/ Crash(p)
  \/ \E x \in Paths : Edit(x)

Spec == Init /\ [][Next]_vars

-----------------------------------------------------------------------------
(* Properties.                                                             *)

(* The order of the writes is crash-safe: store() copies before it saves   *)
(* and invalidate() saves before it removes, so however an operation ends, *)
(* index.json never names a copy that is not there.  Only clear() removes  *)
(* copies first; and it takes a process that has the cache for itself.     *)
NoClear == ~cut /\ \A p \in Procs : task[p].step # "clearing"

SavedEntriesHaveCopies ==
  NoClear /\ disk # Torn =>
    \A x \in Paths : disk[x] # Nothing => copy[disk[x]] # Nothing

(* Two sources with the same content share one copy: dropping one of them  *)
(* never takes the copy from under the other's entry.                      *)
KnownEntriesHaveCopies ==
  NoClear =>
    \A p \in Procs, x \in Paths :
      mem[p][x] # Nothing => copy[mem[p][x]] # Nothing

(* No entry, saved or loaded, names a copy that is not there.              *)
EntriesHaveCopies == SavedEntriesHaveCopies /\ KnownEntriesHaveCopies

(* A cached copy that lookup() returns as valid holds the content the      *)
(* source file has.                                                        *)
HitIsIntact ==
  \A p \in Procs, x \in Paths :
    Idle(p) /\ Hit(p, x) => copy[mem[p][x]] = source[x]
=============================================================================
