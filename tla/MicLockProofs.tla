---------------------------- MODULE MicLockProofs ---------------------------
(* The microphone lock, for any number of instances.                        *)
EXTENDS MicLock, TLAPS

\* Until somebody unlinks the file, everybody who has it open has the file
\* that the path names, and the holder of a file is known from both sides.
OneFile ==
  (\A r \in Instances : pc[r] # "released") =>
    \A p \in Instances : fd[p] # None => fd[p] = name

HolderAgrees ==
  \A p \in Instances : pc[p] = "held" => fd[p] \in Instances /\ holder[fd[p]] = p

Inv == TypeOK /\ NoStaleLock /\ HolderAgrees /\ OneFile

USE NoneAssumption

\* The invariant holds at the start.
LEMMA InvInit == Init => Inv
  BY DEF Init, Inv, TypeOK, NoStaleLock, HolderAgrees, OneFile, Maybe

\* Every step of an instance keeps the types and the open descriptors right.
LEMMA TypeStep == TypeOK /\ NoStaleLock /\ [Next]_vars => TypeOK'
<1> SUFFICES ASSUME TypeOK, NoStaleLock, [Next]_vars PROVE TypeOK'
  OBVIOUS
<1>1. CASE UNCHANGED vars
  BY <1>1 DEF TypeOK, Maybe, vars
<1>2. ASSUME NEW p \in Instances, Open(p) PROVE TypeOK'
  BY <1>2 DEF TypeOK, Maybe, Open
<1>3. ASSUME NEW p \in Instances, Lock(p) PROVE TypeOK'
  BY <1>3 DEF TypeOK, Maybe, Lock
<1>4. ASSUME NEW p \in Instances, Unlock(p) PROVE TypeOK'
  BY <1>4 DEF TypeOK, Maybe, Unlock
<1>5. ASSUME NEW p \in Instances, Unlink(p) PROVE TypeOK'
  BY <1>5 DEF TypeOK, Maybe, Unlink
<1>6. ASSUME NEW p \in Instances, Crash(p) PROVE TypeOK'
  BY <1>6 DEF TypeOK, Maybe, Crash
<1> QED
  BY <1>1, <1>2, <1>3, <1>4, <1>5, <1>6 DEF Next, Step

\* Every step keeps the lock table and its holders in agreement.
LEMMA HolderStep ==
  Inv /\ [Next]_vars => NoStaleLock' /\ HolderAgrees'
<1> SUFFICES ASSUME Inv, [Next]_vars PROVE NoStaleLock' /\ HolderAgrees'
  OBVIOUS
<1> USE DEF Inv, TypeOK, Maybe, NoStaleLock, HolderAgrees
<1>1. CASE UNCHANGED vars
  BY <1>1 DEF vars
<1>2. ASSUME NEW p \in Instances, Open(p) PROVE NoStaleLock' /\ HolderAgrees'
  BY <1>2 DEF Open
<1>3. ASSUME NEW p \in Instances, Lock(p) PROVE NoStaleLock' /\ HolderAgrees'
  BY <1>3 DEF Lock
<1>4. ASSUME NEW p \in Instances, Unlock(p) PROVE NoStaleLock' /\ HolderAgrees'
  BY <1>4 DEF Unlock
<1>5. ASSUME NEW p \in Instances, Unlink(p) PROVE NoStaleLock' /\ HolderAgrees'
  BY <1>5 DEF Unlink
<1>6. ASSUME NEW p \in Instances, Crash(p) PROVE NoStaleLock' /\ HolderAgrees'
  BY <1>6 DEF Crash
<1> QED
  BY <1>1, <1>2, <1>3, <1>4, <1>5, <1>6 DEF Next, Step

\* Only an unlink changes the file the path names once it has one.
LEMMA OneFileStep == Inv /\ [Next]_vars => OneFile'
<1> SUFFICES ASSUME Inv, [Next]_vars,
                    \A r \in Instances : pc'[r] # "released",
                    NEW q \in Instances, fd'[q] # None
             PROVE  fd'[q] = name'
  BY DEF OneFile
<1> USE DEF Inv, TypeOK, Maybe, OneFile
<1>1. CASE UNCHANGED vars
  BY <1>1 DEF vars
<1>2. ASSUME NEW p \in Instances, Open(p) PROVE fd'[q] = name'
  <2>1. \A r \in Instances : pc[r] # "released"
    BY <1>2 DEF Open
  <2>2. CASE q = p
    BY <1>2, <2>2 DEF Open
  <2>3. CASE q # p
    BY <1>2, <2>1, <2>3 DEF Open
  <2> QED
    BY <2>2, <2>3
<1>3. ASSUME NEW p \in Instances, Lock(p) PROVE fd'[q] = name'
  BY <1>3 DEF Lock
<1>4. ASSUME NEW p \in Instances, Unlock(p) PROVE fd'[q] = name'
  BY <1>4 DEF Unlock
<1>5. ASSUME NEW p \in Instances, Unlink(p) PROVE fd'[q] = name'
  BY <1>5 DEF Unlink
<1>6. ASSUME NEW p \in Instances, Crash(p) PROVE fd'[q] = name'
  BY <1>6 DEF Crash
<1> QED
  BY <1>1, <1>2, <1>3, <1>4, <1>5, <1>6 DEF Next, Step

\* The invariant is inductive.
LEMMA InvInvariant == Spec => []Inv
<1>1. Inv /\ [Next]_vars => Inv'
  BY TypeStep, HolderStep, OneFileStep DEF Inv
<1> QED
  BY InvInit, <1>1, PTL DEF Spec

\* lock.py: no descriptor leaks, however many instances come and go.
THEOREM LockTypes == Spec => []TypeOK
  BY InvInvariant, PTL DEF Inv

\* lock.py:4: "there is no stale lock problem", whoever crashes and when.
THEOREM LocksAreNeverStale == Spec => []NoStaleLock
  BY InvInvariant, PTL DEF Inv

\* The lock excludes any two instances as long as none has released it.
THEOREM ExclusionUntilRelease == Spec => []OverlapNeedsRelease
<1>1. Inv => OverlapNeedsRelease
  BY DEF Inv, TypeOK, OneFile, HolderAgrees, OverlapNeedsRelease
<1> QED
  BY InvInvariant, <1>1, PTL

\* An instance that is refused is refused because of another that holds.
THEOREM RefusalsAreTrue == Spec => RefusalIsTrue
<1>1. Inv /\ [Next]_vars =>
        [\A p \in Instances :
           pc[p] = "opened" /\ pc'[p] = "refused" =>
             \E q \in Instances \ {p} : pc[q] = "held"]_vars
  <2> SUFFICES ASSUME Inv, Next, NEW p \in Instances,
                      pc[p] = "opened", pc'[p] = "refused"
               PROVE  \E q \in Instances \ {p} : pc[q] = "held"
    OBVIOUS
  <2>1. PICK r \in Instances : Step(r)
    BY DEF Next
  <2>2. Lock(p) /\ holder[fd[p]] # None
    BY <2>1 DEF Step, Open, Lock, Unlock, Unlink, Crash, Inv, TypeOK
  <2>3. fd[p] \in Instances /\ holder[fd[p]] \in Instances
    BY <2>2 DEF Inv, TypeOK, Maybe
  <2>4. pc[holder[fd[p]]] = "held"
    BY <2>2, <2>3 DEF Inv, NoStaleLock
  <2> QED
    BY <2>3, <2>4
<1> QED
  BY InvInvariant, <1>1, PTL DEF Spec, RefusalIsTrue

=============================================================================
