--------------------------- MODULE PackageManager ---------------------------
(***************************************************************************)
(* PackageManager on top of the import cache.  install() stores every file *)
(* of a package in the cache and then records the package in falcon.yml;   *)
(* remove() drops the cache entry of the package's path and then the       *)
(* record.  Both are sequences of cache operations and file writes that a  *)
(* failure or the death of the process can cut anywhere.                   *)
(***************************************************************************)
EXTENDS PackageCache

CONSTANTS
  Packages,   \* what can be installed: a source file or a directory
  FilesOf,    \* FilesOf[d]: the .fal files of d
  Files,      \* the packages that are one source file
  NameOf      \* NameOf[d]: the stem of its path, the name it is recorded by

ASSUME PackagesAssumption ==
  /\ FilesOf \in [Packages -> SUBSET Paths]
  /\ Files \subseteq Packages
  /\ \A d \in Files : \E x \in Paths : FilesOf[d] = {x}

VARIABLES
  yml,        \* the dependencies in falcon.yml; Torn when it was cut short,
              \* Nothing before the project is initialised
  deps,       \* deps[p]: manifest_.dependencies of process p
  job         \* job[p]: the install or remove p is inside

managerVars == <<yml, deps, job>>

allVars == <<vars, managerVars>>

Jobs == {"none", "caching", "dropping", "writing"}

Job(what, d, todo) == [what |-> what, package |-> d, todo |-> todo]

NoJob == Job("none", Nothing, {})

ManagerTypeOK ==
  /\ TypeOK
  /\ yml \in (SUBSET Packages) \cup {Torn, Nothing}
  /\ deps \in [Procs -> SUBSET Packages]
  /\ job \in [Procs -> [what : Jobs, package : Packages \cup {Nothing},
                        todo : SUBSET Paths]]
  /\ \A p \in Procs :
       /\ job[p].what = "none" => job[p] = NoJob
       /\ job[p].todo # {} => job[p].what = "caching"

ManagerInit ==
  /\ Init
  /\ yml = Nothing
  /\ deps = [p \in Procs |-> {}]
  /\ job = [p \in Procs |-> NoJob]

Doing(p, what) == job[p].what = what

Becomes(p, what) == job' = [job EXCEPT ![p].what = what]

Done(p) == job' = [job EXCEPT ![p] = NoJob]

Recorded(p, name) == {d \in deps[p] : NameOf[d] = name}

-----------------------------------------------------------------------------
(* falcon-pm --init, in a process of its own: never over a falcon.yml.     *)
InitProject ==
  /\ yml = Nothing
  /\ yml' \in {{}, Torn}
  /\ UNCHANGED <<vars, deps, job>>

(* The constructor.  Without a falcon.yml, and with an empty one, the      *)
(* manifest is empty.                                                      *)
Construct(p) ==
  /\ Start(p)
  /\ deps' = [deps EXCEPT ![p] = IF yml \in {Torn, Nothing} THEN {} ELSE yml]
  /\ UNCHANGED <<yml, job>>

(* resolve_imports(), which the engine calls for each file it loads.       *)
ResolveImport(p) ==
  /\ Doing(p, "none")
  /\ \E x \in Paths : Resolve(p, x)
  /\ UNCHANGED managerVars

(* cache() hands the host the cache itself, to invalidate and to clear.    *)
UseCache(p) ==
  /\ Doing(p, "none")
  /\ ClearBegin(p) \/ \E x \in Paths : InvalidateErase(p, x)
  /\ UNCHANGED managerVars

-----------------------------------------------------------------------------
(* install()                                                               *)

InstallBegin(p, d) ==
  /\ Idle(p) /\ Doing(p, "none")
  /\ job' = [job EXCEPT ![p] = Job("caching", d, FilesOf[d])]
  /\ UNCHANGED <<vars, yml, deps>>

InstallFile(p) ==
  /\ Doing(p, "caching")
  /\ \E x \in job[p].todo :
       /\ StoreHash(p, x)
       /\ job' = [job EXCEPT ![p].todo = @ \ {x}]
  /\ UNCHANGED <<yml, deps>>

\* Fault: a package counts as present only if the same path is recorded.
RecordByPath(p) ==
  LET d == job[p].package IN
  /\ Idle(p) /\ Doing(p, "caching") /\ job[p].todo = {}
  /\ deps' = [deps EXCEPT ![p] = @ \cup {d}]
  /\ IF d \in deps[p] THEN Done(p) ELSE Becomes(p, "writing")
  /\ UNCHANGED <<vars, yml>>

\* A package whose name is in the manifest already is not recorded again.
Record(p) ==
  LET d == job[p].package IN
  /\ Idle(p) /\ Doing(p, "caching") /\ job[p].todo = {}
  /\ IF Recorded(p, NameOf[d]) = {}
       THEN /\ deps' = [deps EXCEPT ![p] = @ \cup {d}]
            /\ Becomes(p, "writing")
       ELSE /\ Done(p)
            /\ UNCHANGED deps
  /\ UNCHANGED <<vars, yml>>

-----------------------------------------------------------------------------
(* remove().  invalidate() is given the path of the package: the cache has *)
(* an entry for it if it is a file, none if it is a directory.             *)

\* Fault: the entry is looked for in index.json, which a failed save left.
RemoveFileSaved(p, d) ==
  /\ Doing(p, "none")
  /\ d \in deps[p] \cap Files
  /\ \E x \in FilesOf[d] : disk # Torn /\ disk[x] = Nothing
  /\ Idle(p)
  /\ job' = [job EXCEPT ![p] = Job("dropping", d, {})]
  /\ UNCHANGED <<vars, yml, deps>>

RemoveFile(p, d) ==
  /\ Doing(p, "none")
  /\ d \in deps[p] \cap Files
  /\ \E x \in FilesOf[d] : InvalidateErase(p, x)
  /\ job' = [job EXCEPT ![p] = Job("dropping", d, {})]
  /\ UNCHANGED <<yml, deps>>

RemoveUncached(p, d) ==
  /\ Idle(p) /\ Doing(p, "none")
  /\ d \in deps[p]
  /\ d \in Files => \A x \in FilesOf[d] : mem[p][x] = Nothing
  /\ job' = [job EXCEPT ![p] = Job("dropping", d, {})]
  /\ UNCHANGED <<vars, yml, deps>>

\* Whether invalidate() returned or threw, the record goes.
Forget(p) ==
  /\ Idle(p) /\ Doing(p, "dropping")
  /\ deps' = [deps EXCEPT ![p] = @ \ {job[p].package}]
  /\ Becomes(p, "writing")
  /\ UNCHANGED <<vars, yml>>

-----------------------------------------------------------------------------
(* PackageManifest::save(), if there is a falcon.yml: truncate, write.     *)

WriteSkipped(p) ==
  /\ Doing(p, "writing") /\ yml = Nothing
  /\ Done(p)
  /\ UNCHANGED <<vars, yml, deps>>

WriteBegin(p) ==
  /\ Doing(p, "writing") /\ yml \notin {Torn, Nothing}
  /\ yml' = Torn
  /\ UNCHANGED <<vars, deps, job>>

WriteEnd(p) ==
  /\ Doing(p, "writing") /\ yml = Torn
  /\ yml' = deps[p]
  /\ Done(p)
  /\ UNCHANGED <<vars, deps>>

\* The file cannot be opened, or the unchecked write does not reach it.
WriteFails(p) ==
  /\ Doing(p, "writing") /\ yml # Nothing
  /\ Done(p)
  /\ UNCHANGED <<vars, yml, deps>>

-----------------------------------------------------------------------------
(* The steps inside a cache operation; a store() that throws ends install. *)

\* Fault: install() goes on after a file it could not store.
FailOnward(p) ==
  /\ CopyFails(p) \/ SaveFails(p)
  /\ UNCHANGED managerVars

\* Fault: install() is left without giving up the files still to be stored.
FailKeepsFiles(p) ==
  /\ CopyFails(p) \/ SaveFails(p)
  /\ IF Doing(p, "caching") THEN Becomes(p, "none") ELSE UNCHANGED job
  /\ UNCHANGED <<yml, deps>>

Fail(p) ==
  /\ CopyFails(p) \/ SaveFails(p)
  /\ IF Doing(p, "caching") THEN Done(p) ELSE UNCHANGED job
  /\ UNCHANGED <<yml, deps>>

CacheStep(p) ==
  /\ \/ CopyBegin(p) \/ CopyEnd(p)
     \/ SaveBegin(p) \/ SaveEnd(p) \/ SaveUnnoticed(p)
     \/ Unlink(p) \/ ClearCopy(p) \/ ClearEnd(p)
  /\ UNCHANGED managerVars

Die(p) ==
  /\ Crash(p)
  /\ Done(p)
  /\ deps' = [deps EXCEPT ![p] = {}]
  /\ UNCHANGED yml

Change(x) == Edit(x) /\ UNCHANGED managerVars

ManagerNext ==
  \/ InitProject
  \/ \E p \in Procs :
       \/ Construct(p) \/ ResolveImport(p) \/ UseCache(p)
       \/ InstallFile(p) \/ Record(p)
       \/ \E d \in Packages : \/ InstallBegin(p, d) \/ RemoveFile(p, d)
                              \/ RemoveUncached(p, d)
       \/ Forget(p) \/ WriteSkipped(p)
       \/ WriteBegin(p) \/ WriteEnd(p) \/ WriteFails(p)
       \/ Fail(p) \/ CacheStep(p) \/ Die(p)
  \/ \E x \in Paths : Change(x)

ManagerSpec == ManagerInit /\ [][ManagerNext]_allVars

-----------------------------------------------------------------------------
(* Properties.                                                             *)

(* install() caches first and records last: a package that appears in the  *)
(* manifest has each of its files in the index of the process that records *)
(* it, whichever files failed, were edited or were dropped on the way.     *)
RecordedIsCached ==
  [][\A p \in Procs, d \in Packages :
       d \in deps[p]' \ deps[p] /\ task[p].step # "down" =>
         \A x \in FilesOf[d] : mem[p][x] # Nothing]_allVars

(* remove() and the `already` test find a dependency by its name: no two   *)
(* dependencies ever share one, in falcon.yml or in a process.             *)
OneName(ds) == \A d, e \in ds : NameOf[d] = NameOf[e] => d = e

NamesAreUnique ==
  /\ yml \notin {Torn, Nothing} => OneName(yml)
  /\ \A p \in Procs : OneName(deps[p])

(* A remove() that ends has taken a package that is a file out of the index *)
(* of its process, whatever failed on the way: invalidate() may throw when  *)
(* it saves the index, and remove() goes on.  Of a directory the index      *)
(* keeps every file.                                                        *)
RemovedIsUncached ==
  [][\A p \in Procs, d \in Files :
       d \in deps[p] \ deps[p]' /\ job[p] = Job("dropping", d, {}) =>
         \A x \in FilesOf[d] : mem[p][x] = Nothing]_allVars
=============================================================================
