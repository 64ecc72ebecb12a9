------------------------------ MODULE MicLock -------------------------------
(***************************************************************************)
(* The microphone lock (lock.py): a file that each instance opens, locks   *)
(* with flock, and on release unlocks and unlinks.  flock locks the file   *)
(* behind the descriptor, unlink removes whatever file has the name then.  *)
(* An instance of the program records once, so it takes the lock once.     *)
(* A file is identified by the instance that created it.                   *)
(***************************************************************************)
CONSTANTS
  Instances,   \* the processes that use the lock
  None         \* no file, no instance

ASSUME NoneAssumption == None \notin Instances

VARIABLES
  pc,       \* where each instance is
  name,     \* the file the path names
  fd,       \* the file each instance has open
  holder    \* who has each file locked

vars == <<pc, name, fd, holder>>

Maybe == Instances \cup {None}

\* A descriptor is open from acquire to its failure or to release, no longer.
TypeOK ==
  /\ pc \in [Instances ->
               {"idle", "opened", "held", "refused", "unlocked", "released", "crashed"}]
  /\ name \in Maybe
  /\ fd \in [Instances -> Maybe]
  /\ holder \in [Instances -> Maybe]
  /\ \A p \in Instances : fd[p] # None <=> pc[p] \in {"opened", "held"}

Init ==
  /\ pc = [p \in Instances |-> "idle"]
  /\ name = None
  /\ fd = [p \in Instances |-> None]
  /\ holder = [f \in Instances |-> None]

OpenFresh(p) ==      \* mutant: a file left behind is taken for stale and replaced
  /\ pc[p] = "idle"
  /\ pc' = [pc EXCEPT ![p] = "opened"]
  /\ name' = p
  /\ fd' = [fd EXCEPT ![p] = p]
  /\ UNCHANGED holder

\* acquire: open(path, "w") creates the file if the name is free.
Open(p) ==
  /\ pc[p] = "idle"
  /\ pc' = [pc EXCEPT ![p] = "opened"]
  /\ name' = IF name = None THEN p ELSE name
  /\ fd' = [fd EXCEPT ![p] = name']
  /\ UNCHANGED holder

\* acquire: flock(LOCK_EX | LOCK_NB); a refused instance closes the file.
Lock(p) ==
  /\ pc[p] = "opened"
  /\ \/ /\ holder[fd[p]] = None
        /\ pc' = [pc EXCEPT ![p] = "held"]
        /\ holder' = [holder EXCEPT ![fd[p]] = p]
        /\ UNCHANGED fd
     \/ /\ holder[fd[p]] # None
        /\ pc' = [pc EXCEPT ![p] = "refused"]
        /\ fd' = [fd EXCEPT ![p] = None]
        /\ UNCHANGED holder
  /\ UNCHANGED name

UnlockLeaks(p) ==    \* mutant: the descriptor is dropped, not unlocked and closed
  /\ pc[p] = "held"
  /\ pc' = [pc EXCEPT ![p] = "unlocked"]
  /\ UNCHANGED <<name, fd, holder>>

\* release: LOCK_UN and close ...
Unlock(p) ==
  /\ pc[p] = "held"
  /\ pc' = [pc EXCEPT ![p] = "unlocked"]
  /\ holder' = [holder EXCEPT ![fd[p]] = None]
  /\ fd' = [fd EXCEPT ![p] = None]
  /\ UNCHANGED name

\* ... then unlink, whichever file has the name by now.
Unlink(p) ==
  /\ pc[p] = "unlocked"
  /\ pc' = [pc EXCEPT ![p] = "released"]
  /\ name' = None
  /\ UNCHANGED <<fd, holder>>

CrashKeeps(p) ==     \* mutant: a lock that outlives its process
  /\ pc[p] \in {"opened", "held", "unlocked"}
  /\ pc' = [pc EXCEPT ![p] = "crashed"]
  /\ UNCHANGED <<name, fd, holder>>

\* A crash, or a process that ends without release: the kernel closes the
\* descriptor and drops its lock; the file keeps its name.
Crash(p) ==
  /\ pc[p] \in {"opened", "held", "unlocked"}
  /\ pc' = [pc EXCEPT ![p] = "crashed"]
  /\ fd' = [fd EXCEPT ![p] = None]
  /\ holder' = [f \in Instances |-> IF holder[f] = p THEN None ELSE holder[f]]
  /\ UNCHANGED name

Step(p) == Open(p) \/ Lock(p) \/ Unlock(p) \/ Unlink(p) \/ Crash(p)

Next == \E p \in Instances : Step(p)

Spec == Init /\ [][Next]_vars

-----------------------------------------------------------------------------

\* A locked file always has a living holder, so no lock is ever stale: a crash
\* at any point leaves a file the next instance can lock (lock.py:4).
NoStaleLock ==
  \A f \in Instances : holder[f] # None =>
    pc[holder[f]] = "held" /\ fd[holder[f]] = f

\* An instance is told "Another Voxize instance is recording" only while
\* another one does hold the lock (lock.py:41), taking an flock that fails for
\* another reason, which lock.py:38 reports in the same words, not to happen.
RefusalIsTrue ==
  [][\A p \in Instances :
       pc[p] = "opened" /\ pc'[p] = "refused" =>
         \E q \in Instances \ {p} : pc[q] = "held"]_vars

\* Two instances hold the lock together only after a third one released it:
\* until some instance has unlinked the file, the lock excludes.
OverlapNeedsRelease ==
  \A p, q \in Instances :
    pc[p] = "held" /\ pc[q] = "held" /\ p # q =>
      \E r \in Instances : pc[r] = "released"

\* lock.py:1 "ensures only one Voxize instance records at a time".  It does
\* not: one that opened the file before its unlink may lock it after.
MutualExclusion ==
  \A p, q \in Instances : pc[p] = "held" /\ pc[q] = "held" => p = q

=============================================================================
