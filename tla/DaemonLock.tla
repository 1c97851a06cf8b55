----------------------------- MODULE DaemonLock -----------------------------
(***************************************************************************)
(* The lock file that keeps one observer daemon on a device                *)
(* (apps/observer/src/lock.ts).  Daemons are processes; a value of Daemons *)
(* is a process id, so a process that died never comes back, while one     *)
(* that failed to acquire and exits leaves no trace and the process the    *)
(* service manager starts in its place is the same value again.  A step    *)
(* ends where the code awaits the file system.                             *)
(***************************************************************************)
EXTENDS Naturals, FiniteSets

CONSTANTS Daemons, NoDaemon, Doctor

ASSUME LockAssumption == NoDaemon \notin Daemons /\ Doctor \notin Daemons

VARIABLES
  lockFile,    \* what is at lockPath: its owner and how its content reads
  lockStep,    \* where a daemon is: its next call on the file system
  seen,        \* the file a pending unlink decided on (daemons, doctor)
  held,        \* daemons whose isHeld is true
  beating,     \* daemons whose heartbeat wrote its temporary file
  lockFaults   \* history: the races that have happened

lockVars == <<lockFile, lockStep, seen, held, beating, lockFaults>>

Lockers == Daemons \cup {Doctor}
NoLock == [owner |-> NoDaemon, content |-> "absent"]
LockFiles == {NoLock} \cup [owner : Daemons, content : {"torn", "fresh", "old"}]
LockSteps == {"idle", "unlink", "create", "fill", "run", "remove", "done", "dead"}
Races == {"torn", "expired", "overtaken", "late"}

(* Every variable has its type.                                            *)
LockTypeOK ==
  /\ lockFile \in LockFiles
  /\ lockStep \in [Daemons -> LockSteps]
  /\ seen \in [Lockers -> LockFiles]
  /\ held \subseteq Daemons
  /\ beating \subseteq Daemons
  /\ lockFaults \subseteq Races

LockInit ==
  /\ lockFile = NoLock
  /\ lockStep = [d \in Daemons |-> "idle"]
  /\ seen = [l \in Lockers |-> NoLock]
  /\ held = {}
  /\ beating = {}
  /\ lockFaults = {}

Lives(d) == d \in Daemons /\ lockStep[d] # "dead"

(* Mutant: only the age of a lock counts, not whether its process is gone. *)
MutStaleLock == lockFile.content \in {"torn", "old"}

(* inspect(): an unreadable file counts as stale, so does one whose        *)
(* process is gone or whose heartbeat is older than the threshold.         *)
StaleLock == lockFile.content \in {"torn", "old"} \/ ~Lives(lockFile.owner)

Race(happened, r) == lockFaults' = IF happened THEN lockFaults \cup {r} ELSE lockFaults

(* A stale lock is about to be removed: a race when its owner lives.       *)
Condemn(l) ==
  /\ lockFile # NoLock /\ StaleLock
  /\ seen' = [seen EXCEPT ![l] = lockFile]
  /\ Race(Lives(lockFile.owner), IF lockFile.content = "torn" THEN "torn" ELSE "expired")

(* unlink() removes whatever is there by now.                              *)
RemoveSeen(l) ==
  /\ lockFile' = NoLock
  /\ seen' = [seen EXCEPT ![l] = NoLock]
  /\ Race(lockFile \notin {NoLock, seen[l]}, "overtaken")

(* acquire() finds no lock file, or one to recover.  With a fresh lock of  *)
(* a live process it returns already_running and nothing changes.          *)
LockInspect(d) ==
  /\ lockStep[d] = "idle"
  /\ \/ /\ lockFile = NoLock
        /\ lockStep' = [lockStep EXCEPT ![d] = "create"]
        /\ UNCHANGED <<seen, lockFaults>>
     \/ /\ Condemn(d)
        /\ lockStep' = [lockStep EXCEPT ![d] = "unlink"]
  /\ UNCHANGED <<lockFile, held, beating>>

LockUnlink(d) ==
  /\ lockStep[d] = "unlink"
  /\ RemoveSeen(d)
  /\ lockStep' = [lockStep EXCEPT ![d] = "create"]
  /\ UNCHANGED <<held, beating>>

(* Mutant: the file is created whether or not there is one.                *)
MutLockCreate(d) ==
  /\ lockStep[d] = "create"
  /\ lockFile' = [owner |-> d, content |-> "torn"]
  /\ lockStep' = [lockStep EXCEPT ![d] = "fill"]
  /\ UNCHANGED <<seen, held, beating, lockFaults>>

(* writeFile with "wx": the open is exclusive, the content comes later.    *)
(* When the file exists acquire() returns already_running or throws; the   *)
(* process ends either way and is started again.                           *)
LockCreate(d) ==
  /\ lockStep[d] = "create"
  /\ \/ /\ lockFile = NoLock
        /\ lockFile' = [owner |-> d, content |-> "torn"]
        /\ lockStep' = [lockStep EXCEPT ![d] = "fill"]
     \/ /\ lockFile # NoLock
        /\ lockStep' = [lockStep EXCEPT ![d] = "idle"]
        /\ UNCHANGED lockFile
  /\ UNCHANGED <<seen, held, beating, lockFaults>>

(* The content reaches the file this daemon opened, which may no longer be *)
(* the one at lockPath.                                                    *)
LockFill(d) ==
  /\ lockStep[d] = "fill"
  /\ lockFile' = IF lockFile.owner = d THEN [lockFile EXCEPT !.content = "fresh"]
                 ELSE lockFile
  /\ lockStep' = [lockStep EXCEPT ![d] = "run"]
  /\ held' = held \cup {d}
  /\ UNCHANGED <<seen, beating, lockFaults>>

(* heartbeat(): a temporary file, then a rename over lockPath that asks    *)
(* neither whether the lock is still held nor whose it is.                 *)
LockBeat(d) ==
  /\ d \in held /\ d \notin beating
  /\ beating' = beating \cup {d}
  /\ UNCHANGED <<lockFile, lockStep, seen, held, lockFaults>>

LockRename(d) ==
  /\ d \in beating
  /\ lockFile' = [owner |-> d, content |-> "fresh"]
  /\ beating' = beating \ {d}
  /\ Race(lockFile.owner # d, "late")
  /\ UNCHANGED <<lockStep, seen, held>>

(* release() gives the lock up before it reads the file, and removes the   *)
(* file when its own process id is in it.                                  *)
LockRelease(d) ==
  /\ lockStep[d] = "run"
  /\ held' = held \ {d}
  /\ lockStep' = [lockStep EXCEPT ![d] = IF lockFile.owner = d /\ lockFile.content # "torn"
                                         THEN "remove" ELSE "done"]
  /\ UNCHANGED <<lockFile, seen, beating, lockFaults>>

LockRemove(d) ==
  /\ lockStep[d] = "remove"
  /\ lockFile' = NoLock
  /\ lockStep' = [lockStep EXCEPT ![d] = "done"]
  /\ Race(lockFile.owner \notin {d, NoDaemon}, "late")
  /\ UNCHANGED <<seen, held, beating>>

(* The process exits after release() or is killed anywhere before.  One    *)
(* daemon is left to live, or nothing would be left to say.                *)
LockDie(d) ==
  /\ Lives(d)
  /\ lockStep[d] = "done" \/ \E e \in Daemons \ {d} : Lives(e)
  /\ lockStep' = [lockStep EXCEPT ![d] = "dead"]
  /\ held' = held \ {d}
  /\ beating' = beating \ {d}
  /\ UNCHANGED <<lockFile, seen, lockFaults>>

(* The threshold passes without a heartbeat: a blocked event loop, a       *)
(* suspended device, or a process that is gone.                            *)
LockAge ==
  /\ lockFile.content = "fresh"
  /\ lockFile' = [lockFile EXCEPT !.content = "old"]
  /\ UNCHANGED <<lockStep, seen, held, beating, lockFaults>>

(* recoverStaleLock() of the recovery controller, run beside the daemons.  *)
RepairInspect ==
  /\ seen[Doctor] = NoLock
  /\ Condemn(Doctor)
  /\ UNCHANGED <<lockFile, lockStep, held, beating>>

RepairUnlink ==
  /\ seen[Doctor] # NoLock
  /\ RemoveSeen(Doctor)
  /\ UNCHANGED <<lockStep, held, beating>>

LockStepOf(d) ==
  \/ LockInspect(d) \/ LockUnlink(d) \/ LockCreate(d) \/ LockFill(d)
  \/ LockRename(d) \/ LockRemove(d)

LockNext ==
  \/ \E d \in Daemons : LockStepOf(d) \/ LockBeat(d) \/ LockRelease(d) \/ LockDie(d)
  \/ LockAge \/ RepairInspect \/ RepairUnlink

LockSpec == LockInit /\ [][LockNext]_lockVars

-----------------------------------------------------------------------------
(* Only one daemon runs: as long as none of the four races has happened,   *)
(* the lock is held by at most one process, and the file at lockPath names *)
(* it.  The four races are: a half-written file was read, the lock of a    *)
(* live process had expired, a file was removed that is not the one that   *)
(* was inspected, a heartbeat or a release arrived after the file changed. *)
LockExclusive ==
  lockFaults = {} =>
    /\ \A d, e \in held : d = e
    /\ \A d \in held : lockFile.owner = d /\ lockFile.content # "torn"

(* A lock left behind never keeps everyone out: while some daemon stays    *)
(* alive, again and again some live daemon holds the lock or has just      *)
(* given it up, whatever the dead ones left at lockPath.                   *)
LockRecovered ==
  []<>(\E d \in Daemons : d \in held \/ lockStep[d] \in {"remove", "done"})
    \/ <>[](\A d \in Daemons : ~Lives(d))
=============================================================================
