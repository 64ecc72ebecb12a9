---------------------------- MODULE DuckingProofs ---------------------------
(* Ducking, for any sessions and any playback streams.                      *)
EXTENDS Ducking, TLAPS

\* The thread that goes through the nodes is the one that has the lock.
LockInv ==
  \A s \in Sessions : \A t \in Threads : pc[s][t] = "setting" <=> lock[s] = t

\* What the thread inside still has to do is in the snapshot; a restorer has
\* everything that is due still to do.
WorkInv ==
  \A s \in Sessions :
    /\ \A t \in Threads : pc[s][t] = "setting" =>
         active[s] /\ todo[s] \subseteq DOMAIN snapshot[s]
    /\ \A t \in Restorers : pc[s][t] = "setting" => due[s] \subseteq todo[s]

\* A thread that has not been asked for is not there.
CallsInv ==
  \A s \in Sessions :
    /\ capture[s] = "before" => pc[s]["duck"] = "off"
    /\ capture[s] # "left" => pc[s]["restore"] = "off"

\* The inductive invariant behind what is promised of the snapshot.
DuckInv == TypeOK /\ LockInv /\ WorkInv /\ CallsInv /\ Recoverable

Step(s) == Duck(s) \/ Restore(s) \/ RestoreSync(s) \/ Exit(s) \/ Thread(s)

-----------------------------------------------------------------------------
(* Types                                                                   *)

\* The empty snapshot is a snapshot, and so is one of some of the volumes.
LEMMA SnapshotTypes ==
  /\ NoNodes \in Snapshots
  /\ \A N \in SUBSET Nodes, v \in [Nodes -> Volumes] : [n \in N |-> v[n]] \in Snapshots
<1>1. NoNodes \in [{} -> Volumes]
  BY DEF NoNodes
<1>2. NoNodes \in Snapshots
  BY <1>1 DEF Snapshots
<1>3. ASSUME NEW N \in SUBSET Nodes, NEW v \in [Nodes -> Volumes]
      PROVE  [n \in N |-> v[n]] \in Snapshots
  <2>1. [n \in N |-> v[n]] \in [N -> Volumes]
    OBVIOUS
  <2> QED
    BY <2>1 DEF Snapshots
<1> QED
  BY <1>2, <1>3

\* A snapshot gives a volume to each of its nodes.
LEMMA SnapshotGives ==
  \A f \in Snapshots : DOMAIN f \subseteq Nodes /\ \A n \in DOMAIN f : f[n] \in Volumes
  BY DEF Snapshots

\* Every variable has its type at the start.
LEMMA TypeInit == Init => TypeOK
  BY SnapshotTypes DEF Init, TypeOK, Threads, Restorers, Volumes

\* Moving a thread on keeps the type of pc.
LEMMA MoveTypes ==
  ASSUME TypeOK, NEW s \in Sessions, NEW t \in Threads,
         NEW p \in {"off", "waiting", "setting", "done"}
  PROVE  [pc EXCEPT ![s][t] = p]
           \in [Sessions -> [Threads -> {"off", "waiting", "setting", "done"}]]
  BY DEF TypeOK

\* What a thread that gets the lock and begins to work does keeps the types.
LEMMA BeginTypes ==
  ASSUME TypeOK, NEW s \in Sessions, NEW t \in Threads, NEW nodes \in SUBSET Nodes,
         Begin(s, t, nodes)
  PROVE  /\ pc' \in [Sessions -> [Threads -> {"off", "waiting", "setting", "done"}]]
         /\ lock' \in [Sessions -> Threads \cup {"free"}]
         /\ todo' \in [Sessions -> SUBSET Nodes]
  BY MoveTypes DEF TypeOK, Begin

\* Every step keeps the types.
LEMMA TypeStep == TypeOK /\ WorkInv /\ [Next]_vars => TypeOK'
<1> SUFFICES ASSUME TypeOK, WorkInv, [Next]_vars PROVE TypeOK'
  OBVIOUS
<1>0. "duck" \in Threads /\ "restore" \in Threads /\ "sync" \in Threads
  BY DEF Threads, Restorers
<1>1. CASE UNCHANGED vars
  BY <1>1 DEF TypeOK, vars, threadVars
<1>2. ASSUME NEW s \in Sessions, Step(s) PROVE TypeOK'
  <2>1. CASE Duck(s) \/ Restore(s) \/ RestoreSync(s)
    <3>1. /\ capture' \in [Sessions -> {"before", "capturing", "left"}]
          /\ \E t \in Threads : Spawn(s, t)
      BY <2>1, <1>0 DEF TypeOK, Duck, Restore, RestoreSync
    <3>2. PICK t \in Threads : Spawn(s, t)
      BY <3>1
    <3>3. pc' \in [Sessions -> [Threads -> {"off", "waiting", "setting", "done"}]]
      BY <3>2, MoveTypes DEF Spawn
    <3> QED
      BY <3>1, <3>2, <3>3 DEF TypeOK, Spawn
  <2>2. CASE Exit(s)
    BY <2>2 DEF TypeOK, Exit, threadVars
  <2>3. CASE DuckBegins(s)
    <3>1. turns' \in [Sessions -> Seq(Threads)]
      BY <2>3, <1>0 DEF TypeOK, DuckBegins, Enters
    <3>2. CASE active[s]
      <4>1. Return(s, "duck")
        BY <2>3, <3>2 DEF DuckBegins
      <4>2. pc' \in [Sessions -> [Threads -> {"off", "waiting", "setting", "done"}]]
        BY <4>1, <1>0, MoveTypes DEF Return
      <4> QED
        BY <2>3, <3>1, <4>1, <4>2 DEF TypeOK, DuckBegins, Return
    <3>3. CASE ~active[s]
      <4>1. PICK nodes \in SUBSET Nodes :
              /\ snapshot' = [snapshot EXCEPT ![s] = [n \in nodes |-> vol[n]]]
              /\ active' = [active EXCEPT ![s] = TRUE]
              /\ Begin(s, "duck", nodes)
        BY <2>3, <3>3, SMT DEF DuckBegins, Readable
      <4>2. [n \in nodes |-> vol[n]] \in Snapshots
        BY SnapshotTypes DEF TypeOK
      <4>3. snapshot' \in [Sessions -> Snapshots]
        BY <4>1, <4>2 DEF TypeOK
      <4>4. active' \in [Sessions -> BOOLEAN]
        BY <4>1 DEF TypeOK
      <4> QED
        BY <2>3, <3>1, <4>1, <4>3, <4>4, BeginTypes, <1>0 DEF TypeOK, DuckBegins
    <3> QED
      BY <3>2, <3>3
  <2>4. CASE DuckSets(s)
    <3>1. PICK n \in todo[s] :
            /\ todo' = [todo EXCEPT ![s] = @ \ {n}]
            /\ \/ /\ vol' = [vol EXCEPT ![n] = "low"]
                  /\ due' = [due EXCEPT ![s] = @ \cup {n}]
               \/ ToolsFail /\ UNCHANGED <<vol, due>>
      BY <2>4 DEF DuckSets
    <3>2. n \in Nodes /\ todo[s] \subseteq Nodes /\ due[s] \subseteq Nodes
      BY DEF TypeOK
    <3>3. vol' \in [Nodes -> Volumes]
      BY <3>1 DEF TypeOK, Volumes
    <3>5. due[s] \cup {n} \in SUBSET Nodes /\ due \in [Sessions -> SUBSET Nodes]
      BY <3>2 DEF TypeOK
    <3>6. due' \in [Sessions -> SUBSET Nodes]
      BY <3>1, <3>5
    <3>4. todo' \in [Sessions -> SUBSET Nodes]
      BY <3>1, <3>2 DEF TypeOK
    <3> QED
      BY <2>4, <3>3, <3>4, <3>6 DEF TypeOK, DuckSets, Kept
  <2>5. CASE DuckEnds(s)
    BY <2>5, <1>0 DEF TypeOK, DuckEnds
  <2>6. ASSUME NEW t \in Restorers, RestoreBegins(s, t) PROVE TypeOK'
    <3>0. t \in Threads
      BY DEF Threads
    <3>1. turns' \in [Sessions -> Seq(Threads)]
      BY <2>6, <3>0 DEF TypeOK, RestoreBegins, Enters
    <3>2. DOMAIN snapshot[s] \subseteq Nodes
      BY SnapshotGives DEF TypeOK
    <3>3. CASE active[s]
      BY <2>6, <3>0, <3>1, <3>2, <3>3, BeginTypes DEF TypeOK, RestoreBegins
    <3>4. CASE ~active[s]
      <4>1. Return(s, t)
        BY <2>6, <3>4 DEF RestoreBegins
      <4>2. pc' \in [Sessions -> [Threads -> {"off", "waiting", "setting", "done"}]]
        BY <4>1, <3>0, MoveTypes DEF Return
      <4> QED
        BY <2>6, <3>1, <4>1, <4>2 DEF TypeOK, RestoreBegins, Return
    <3> QED
      BY <3>3, <3>4
  <2>7. ASSUME NEW t \in Restorers, RestoreSets(s, t) PROVE TypeOK'
    <3>1. PICK n \in todo[s] :
            /\ todo' = [todo EXCEPT ![s] = @ \ {n}]
            /\ due' = [due EXCEPT ![s] = @ \ {n}]
            /\ \/ vol' = [vol EXCEPT ![n] = snapshot[s][n]]
               \/ ToolsFail /\ UNCHANGED vol
      BY <2>7 DEF RestoreSets
    <3>2. n \in DOMAIN snapshot[s]
      BY <2>7, <3>1 DEF WorkInv, RestoreSets, Works, Threads
    <3>3. snapshot[s][n] \in Volumes
      BY <3>2, SnapshotGives DEF TypeOK
    <3>4. vol' \in [Nodes -> Volumes]
      BY <3>1, <3>3 DEF TypeOK
    <3>5. todo' \in [Sessions -> SUBSET Nodes] /\ due' \in [Sessions -> SUBSET Nodes]
      BY <3>1 DEF TypeOK
    <3> QED
      BY <2>7, <3>4, <3>5 DEF TypeOK, RestoreSets, Kept
  <2>8. ASSUME NEW t \in Restorers, RestoreEnds(s, t) PROVE TypeOK'
    <3>1. t \in Threads
      BY DEF Threads
    <3> QED
      BY <2>8, <3>1, SnapshotTypes DEF TypeOK, RestoreEnds
  <2> QED
    BY <1>2, <2>1, <2>2, <2>3, <2>4, <2>5, <2>6, <2>7, <2>8
    DEF Step, Thread, DuckThread, RestoreThread
<1> QED
  BY <1>1, <1>2 DEF Next, Step

-----------------------------------------------------------------------------
(* The lock and the work under it                                          *)

\* One step of a session leaves the threads of another one as they are.
LEMMA OthersKeep ==
  ASSUME TypeOK, NEW s \in Sessions, Step(s), NEW r \in Sessions \ {s}
  PROVE  /\ pc'[r] = pc[r] /\ lock'[r] = lock[r] /\ active'[r] = active[r]
         /\ snapshot'[r] = snapshot[r] /\ todo'[r] = todo[r]
         /\ turns'[r] = turns[r] /\ due'[r] = due[r] /\ capture'[r] = capture[r]
<1>1. CASE Duck(s) \/ Restore(s) \/ RestoreSync(s) \/ Exit(s)
  BY <1>1 DEF TypeOK, Duck, Restore, RestoreSync, Spawn, Exit, threadVars
<1>2. CASE DuckThread(s)
  BY <1>2 DEF TypeOK, DuckThread, DuckBegins, DuckSets, DuckEnds, Enters, Begin,
              Return, Kept
<1>3. ASSUME NEW t \in Restorers, RestoreThread(s, t)
      PROVE  /\ pc'[r] = pc[r] /\ lock'[r] = lock[r] /\ active'[r] = active[r]
             /\ snapshot'[r] = snapshot[r] /\ todo'[r] = todo[r]
             /\ turns'[r] = turns[r] /\ due'[r] = due[r] /\ capture'[r] = capture[r]
  BY <1>3 DEF TypeOK, RestoreThread, RestoreBegins, RestoreSets, RestoreEnds, Enters,
              Begin, Return, Kept
<1> QED
  BY <1>1, <1>2, <1>3 DEF Step, Thread

\* Lock, work and snapshot of session s agree.
Agree(s) ==
  /\ \A t \in Threads : pc[s][t] = "setting" <=> lock[s] = t
  /\ \A t \in Threads : pc[s][t] = "setting" =>
       active[s] /\ todo[s] \subseteq DOMAIN snapshot[s]
  /\ \A t \in Restorers : pc[s][t] = "setting" => due[s] \subseteq todo[s]
  /\ capture[s] = "before" => pc[s]["duck"] = "off"
  /\ capture[s] # "left" => pc[s]["restore"] = "off"
  /\ due[s] # {} => active[s] /\ due[s] \subseteq DOMAIN snapshot[s]

\* The invariant says so of every session.
LEMMA Agreement ==
  LockInv /\ WorkInv /\ CallsInv /\ Recoverable <=> \A s \in Sessions : Agree(s)
  BY DEF LockInv, WorkInv, CallsInv, Recoverable, Agree

\* The main thread calling something disturbs nothing.
LEMMA CallsAgree ==
  ASSUME TypeOK, NEW s \in Sessions, Agree(s),
         Duck(s) \/ Restore(s) \/ RestoreSync(s) \/ Exit(s)
  PROVE  Agree(s)'
<1>0. "duck" \in Threads /\ "restore" \in Threads /\ "sync" \in Threads
  BY DEF Threads, Restorers
<1>1. CASE Exit(s)
  BY <1>1 DEF Agree, Exit, threadVars
<1>2. ASSUME NEW u \in Threads, Spawn(s, u), pc[s][u] = "off"
      PROVE  \A t \in Threads : pc'[s][t] = IF t = u THEN "waiting" ELSE pc[s][t]
  BY <1>2 DEF TypeOK, Spawn
<1>3. CASE Duck(s)
  <2>1. Spawn(s, "duck") /\ pc[s]["duck"] = "off" /\ capture'[s] = "capturing"
    BY <1>3 DEF Duck, Agree, TypeOK
  <2> QED
    BY <1>0, <1>2, <1>3, <2>1 DEF Agree, Duck, Spawn, Restorers
<1>4. CASE Restore(s)
  <2>1. Spawn(s, "restore") /\ pc[s]["restore"] = "off" /\ capture'[s] = "left"
    BY <1>4 DEF Restore, Agree, TypeOK
  <2> QED
    BY <1>0, <1>2, <1>4, <2>1 DEF Agree, Restore, Spawn, Restorers
<1>5. CASE RestoreSync(s)
  <2>1. Spawn(s, "sync") /\ pc[s]["sync"] = "off" /\ capture' = capture
    BY <1>5 DEF RestoreSync, MainIsFree
  <2> QED
    BY <1>0, <1>2, <1>5, <2>1 DEF Agree, Spawn, Restorers
<1> QED
  BY <1>1, <1>3, <1>4, <1>5

\* What a step of thread t of session s makes of pc.
LEMMA ThreadMoves ==
  ASSUME TypeOK, NEW s \in Sessions, NEW t \in Threads,
         NEW p \in {"setting", "done"}, pc' = [pc EXCEPT ![s][t] = p]
  PROVE  \A u \in Threads : pc'[s][u] = IF u = t THEN p ELSE pc[s][u]
  BY DEF TypeOK

\* The duck thread saves first and lowers afterwards.
LEMMA DuckAgrees ==
  ASSUME TypeOK, NEW s \in Sessions, Agree(s), DuckThread(s)
  PROVE  Agree(s)'
<1>0. "duck" \in Threads /\ "restore" \in Threads /\ "duck" \notin Restorers
  BY DEF Threads, Restorers
<1>1. CASE DuckBegins(s)
  <2>0. pc[s]["duck"] = "waiting" /\ lock[s] = "free"
    BY <1>1 DEF DuckBegins, Enters
  <2>1. CASE active[s]
    <3>1. Return(s, "duck") /\ UNCHANGED <<capture, due>>
      BY <1>1, <2>1 DEF DuckBegins
    <3>2. \A u \in Threads : pc'[s][u] = IF u = "duck" THEN "done" ELSE pc[s][u]
      BY <3>1, <1>0, ThreadMoves DEF Return
    <3> QED
      BY <2>0, <3>1, <3>2, <1>0 DEF Agree, Return
  <2>2. CASE ~active[s]
    <3>1. PICK nodes \in SUBSET Nodes :
            /\ snapshot' = [snapshot EXCEPT ![s] = [n \in nodes |-> vol[n]]]
            /\ active' = [active EXCEPT ![s] = TRUE]
            /\ Begin(s, "duck", nodes)
      BY <1>1, <2>2, SMT DEF DuckBegins, Readable
    <3>2. \A u \in Threads : pc'[s][u] = IF u = "duck" THEN "setting" ELSE pc[s][u]
      BY <3>1, <1>0, ThreadMoves DEF Begin
    <3>3. DOMAIN snapshot'[s] = nodes /\ todo'[s] = nodes /\ active'[s]
          /\ lock'[s] = "duck"
      BY <3>1 DEF TypeOK, Begin
    <3>4. due' = due /\ capture' = capture /\ due[s] = {}
      BY <1>1, <2>2 DEF DuckBegins, Agree
    <3>5. \A u \in Threads : pc[s][u] # "setting"
      BY <2>0 DEF Agree, Threads, Restorers
    <3> QED
      BY <2>0, <3>2, <3>3, <3>4, <3>5, <1>0 DEF Agree
  <2> QED
    BY <2>1, <2>2
<1>2. CASE DuckSets(s)
  <2>1. pc[s]["duck"] = "setting" /\ lock[s] = "duck" /\ active[s]
        /\ todo[s] \subseteq DOMAIN snapshot[s]
    BY <1>2, <1>0 DEF DuckSets, Works, Agree
  <2>2. todo'[s] \subseteq todo[s] /\ due'[s] \subseteq due[s] \cup todo[s]
    BY <1>2 DEF DuckSets, TypeOK
  <2>3. \A t \in Restorers : pc[s][t] # "setting"
    BY <2>1, <1>0 DEF Agree, Threads
  <2> QED
    BY <1>2, <2>1, <2>2, <2>3 DEF DuckSets, Kept, Agree
<1>3. CASE DuckEnds(s)
  <2>1. \A u \in Threads : pc'[s][u] = IF u = "duck" THEN "done" ELSE pc[s][u]
    BY <1>3, <1>0, ThreadMoves DEF DuckEnds
  <2>2. lock[s] = "duck" /\ lock'[s] = "free"
    BY <1>3, <1>0 DEF DuckEnds, Works, Agree, TypeOK
  <2>3. "free" \notin Threads
    BY DEF Threads, Restorers
  <2> QED
    BY <1>3, <2>1, <2>2, <2>3, <1>0 DEF DuckEnds, Agree
<1> QED
  BY <1>1, <1>2, <1>3 DEF DuckThread

\* A restorer clears the snapshot only when it has gone through it.
LEMMA RestoreAgrees ==
  ASSUME TypeOK, NEW s \in Sessions, Agree(s), NEW t \in Restorers, RestoreThread(s, t)
  PROVE  Agree(s)'
<1>0. /\ "duck" \in Threads /\ "restore" \in Threads /\ "free" \notin Threads
      /\ t \in Threads /\ t # "duck" /\ Restorers \subseteq Threads
  BY DEF Threads, Restorers
<1>1. CASE RestoreBegins(s, t)
  <2>0. pc[s][t] = "waiting" /\ lock[s] = "free"
    BY <1>1 DEF RestoreBegins, Enters
  <2>1. CASE active[s]
    <3>1. Begin(s, t, DOMAIN snapshot[s]) /\ UNCHANGED <<active, snapshot, capture, due>>
      BY <1>1, <2>1 DEF RestoreBegins
    <3>2. \A u \in Threads : pc'[s][u] = IF u = t THEN "setting" ELSE pc[s][u]
      BY <3>1, <1>0, ThreadMoves DEF Begin
    <3>3. todo'[s] = DOMAIN snapshot[s] /\ lock'[s] = t
      BY <3>1 DEF TypeOK, Begin
    <3>4. \A u \in Threads : pc[s][u] # "setting"
      BY <2>0, <1>0 DEF Agree
    <3>5. due[s] \subseteq DOMAIN snapshot[s]
      BY DEF Agree
    <3> QED
      BY <2>0, <2>1, <3>1, <3>2, <3>3, <3>4, <3>5, <1>0 DEF Agree
  <2>2. CASE ~active[s]
    <3>1. Return(s, t) /\ UNCHANGED <<capture, due>>
      BY <1>1, <2>2 DEF RestoreBegins
    <3>2. \A u \in Threads : pc'[s][u] = IF u = t THEN "done" ELSE pc[s][u]
      BY <3>1, <1>0, ThreadMoves DEF Return
    <3> QED
      BY <2>0, <3>1, <3>2, <1>0 DEF Agree, Return
  <2> QED
    BY <2>1, <2>2
<1>2. CASE RestoreSets(s, t)
  <2>1. pc[s][t] = "setting" /\ lock[s] = t
    BY <1>2, <1>0 DEF RestoreSets, Works, Agree
  <2>2. PICK n \in todo[s] : /\ todo' = [todo EXCEPT ![s] = @ \ {n}]
                            /\ due' = [due EXCEPT ![s] = @ \ {n}]
    BY <1>2 DEF RestoreSets
  <2>3. todo'[s] = todo[s] \ {n} /\ due'[s] = due[s] \ {n}
    BY <2>2 DEF TypeOK
  <2> QED
    BY <1>2, <2>1, <2>3 DEF RestoreSets, Kept, Agree
<1>3. CASE RestoreEnds(s, t)
  <2>1. \A u \in Threads : pc'[s][u] = IF u = t THEN "done" ELSE pc[s][u]
    BY <1>3, <1>0, ThreadMoves DEF RestoreEnds
  <2>2. lock[s] = t /\ due[s] = {}
    BY <1>3, <1>0 DEF RestoreEnds, Works, Agree
  <2>3. \A u \in Threads : pc'[s][u] # "setting"
    BY <2>1, <2>2, <1>0 DEF Agree
  <2>4. lock'[s] = "free" /\ due' = due /\ capture' = capture
    BY <1>3 DEF RestoreEnds, TypeOK
  <2> QED
    BY <2>1, <2>2, <2>3, <2>4, <1>0 DEF Agree
<1> QED
  BY <1>1, <1>2, <1>3 DEF RestoreThread

-----------------------------------------------------------------------------
(* The theorems                                                            *)

\* The invariant holds at the start.
LEMMA DuckInit == Init => DuckInv
<1> SUFFICES ASSUME Init PROVE DuckInv
  OBVIOUS
<1>1. \A s \in Sessions : Agree(s)
  BY DEF Init, Agree, Threads, Restorers
<1> QED
  BY <1>1, TypeInit, Agreement DEF DuckInv

\* Every step keeps it.
LEMMA DuckStep == DuckInv /\ [Next]_vars => DuckInv'
<1> SUFFICES ASSUME DuckInv, [Next]_vars PROVE DuckInv'
  OBVIOUS
<1>0. TypeOK /\ \A s \in Sessions : Agree(s)
  BY Agreement DEF DuckInv
<1>1. TypeOK'
  BY TypeStep DEF DuckInv
<1>2. CASE UNCHANGED vars
  <2>1. \A s \in Sessions : Agree(s)'
    BY <1>0, <1>2 DEF Agree, vars, threadVars
  <2> QED
    BY <1>1, <2>1, Agreement DEF DuckInv, LockInv, WorkInv, CallsInv, Recoverable, Agree
<1>3. ASSUME NEW s \in Sessions, Step(s) PROVE DuckInv'
  <2>1. Agree(s)'
    BY <1>0, <1>3, CallsAgree, DuckAgrees, RestoreAgrees DEF Step, Thread
  <2>2. ASSUME NEW r \in Sessions \ {s} PROVE Agree(r)'
    BY <1>0, <1>3, OthersKeep DEF Agree
  <2>3. \A r \in Sessions : Agree(r)'
    BY <2>1, <2>2
  <2> QED
    BY <1>1, <2>3 DEF DuckInv, LockInv, WorkInv, CallsInv, Recoverable, Agree
<1> QED
  BY <1>2, <1>3 DEF Next, Step

\* Every variable keeps its type (Ducking!TypeOK, ducking.py's VolumeDucker).
THEOREM DuckTypes == Spec => []TypeOK
<1>1. DuckInv => TypeOK
  BY DEF DuckInv
<1> QED
  BY <1>1, DuckInit, DuckStep, PTL DEF Spec

\* Whatever fails, and wherever its threads stop, a session can find in its
\* snapshot all that it lowered: it is saved before (ducking.py:218) and cleared
\* only after it was put back (ducking.py:260).
THEOREM SnapshotsRecover == Spec => []Recoverable
<1>1. DuckInv => Recoverable
  BY DEF DuckInv
<1> QED
  BY <1>1, DuckInit, DuckStep, PTL DEF Spec

-----------------------------------------------------------------------------
(* Turns                                                                   *)

\* Session s keeps the promise of RestorePutsBack.
PutsBack(s) ==
  \A i, j \in 1..Len(turns[s]) :
    /\ i < j /\ turns[s][i] = "duck"
    /\ turns[s][j] \in Restorers /\ pc[s][turns[s][j]] = "done"
    => due[s] = {}

\* A thread takes one turn, and the thread inside has taken the last one.
Turns(s) ==
  /\ \A i \in 1..Len(turns[s]) : pc[s][turns[s][i]] \in {"setting", "done"}
  /\ \A i, j \in 1..Len(turns[s]) : turns[s][i] = turns[s][j] => i = j
  /\ \A t \in Threads : pc[s][t] = "setting" =>
       Len(turns[s]) > 0 /\ turns[s][Len(turns[s])] = t
  /\ PutsBack(s)

\* The inductive invariant behind RestorePutsBack.
TurnsInv == DuckInv /\ \A s \in Sessions : Turns(s)

\* A turn is one more entry at the end.
LEMMA TurnsGrow ==
  ASSUME TypeOK, NEW s \in Sessions, NEW t \in Threads, Enters(s, t)
  PROVE  /\ turns[s] \in Seq(Threads)
         /\ Len(turns'[s]) = Len(turns[s]) + 1
         /\ turns'[s][Len(turns[s]) + 1] = t
         /\ \A i \in 1..Len(turns[s]) : turns'[s][i] = turns[s][i]
<1>1. turns[s] \in Seq(Threads) /\ turns'[s] = Append(turns[s], t)
  BY DEF TypeOK, Enters
<1> QED
  BY <1>1

\* The main thread calls each thing once: no thread it spawns had a turn.
LEMMA CallsKeepTurns ==
  ASSUME TypeOK, NEW s \in Sessions, Agree(s), Turns(s),
         Duck(s) \/ Restore(s) \/ RestoreSync(s) \/ Exit(s)
  PROVE  Turns(s)'
<1>0. "duck" \in Threads /\ "restore" \in Threads /\ "sync" \in Threads
  BY DEF Threads, Restorers
<1>1. CASE Exit(s)
  BY <1>1 DEF Turns, PutsBack, Exit, threadVars
<1>2. ASSUME NEW u \in Threads, Spawn(s, u), pc[s][u] = "off"
      PROVE  Turns(s)'
  <2>1. \A t \in Threads : pc'[s][t] = IF t = u THEN "waiting" ELSE pc[s][t]
    BY <1>2 DEF TypeOK, Spawn
  <2>2. \A i \in 1..Len(turns[s]) : turns[s][i] \in Threads /\ turns[s][i] # u
    <3>1. turns[s] \in Seq(Threads)
      BY DEF TypeOK
    <3> QED
      BY <1>2, <3>1 DEF Turns
  <2>3. turns' = turns /\ due' = due
    BY <1>2 DEF Spawn
  <2> QED
    BY <1>2, <2>1, <2>2, <2>3 DEF Turns, PutsBack
<1>3. Exit(s) \/ \E u \in Threads : Spawn(s, u) /\ pc[s][u] = "off"
  BY <1>0 DEF Agree, Duck, Restore, RestoreSync, MainIsFree
<1> QED
  BY <1>1, <1>2, <1>3

\* A thread that gets the lock had no turn before, and has the last one now.
LEMMA EntersKeepTurns ==
  ASSUME TypeOK, NEW s \in Sessions, Agree(s), Turns(s), NEW t \in Threads,
         Enters(s, t), NEW p \in {"setting", "done"}, pc' = [pc EXCEPT ![s][t] = p],
         due' = due, t \in Restorers /\ p = "done" => due[s] = {}
  PROVE  Turns(s)'
<1> DEFINE n == Len(turns[s])
<1>1. \A u \in Threads : pc'[s][u] = IF u = t THEN p ELSE pc[s][u]
  BY ThreadMoves
<1>2. pc[s][t] = "waiting" /\ lock[s] = "free" /\ "free" \notin Threads
  BY DEF Enters, Threads, Restorers
<1>3. \A u \in Threads : pc[s][u] # "setting"
  BY <1>2 DEF Agree
<1>4. /\ n \in Nat /\ Len(turns'[s]) = n + 1 /\ turns'[s][n + 1] = t
      /\ \A i \in 1..n : turns'[s][i] = turns[s][i]
  BY TurnsGrow
<1>5. \A i \in 1..n : turns[s][i] \in Threads /\ turns[s][i] # t
  BY <1>2, TurnsGrow DEF Turns
<1> HIDE DEF n
<1>6. \A i \in 1..(n + 1) : i = n + 1 \/ i \in 1..n
  BY <1>4
<1>7. \A i \in 1..(n + 1) : pc'[s][turns'[s][i]] \in {"setting", "done"}
  BY <1>1, <1>4, <1>5, <1>6 DEF Turns, n
<1>8. \A i, j \in 1..(n + 1) : turns'[s][i] = turns'[s][j] => i = j
  BY <1>4, <1>5, <1>6 DEF Turns, n
<1>9. \A u \in Threads : pc'[s][u] = "setting" => u = t
  BY <1>1, <1>3
<1>10. PutsBack(s)'
  <2> SUFFICES ASSUME NEW i \in 1..(n + 1), NEW j \in 1..(n + 1),
                      i < j, turns'[s][i] = "duck", turns'[s][j] \in Restorers,
                      pc'[s][turns'[s][j]] = "done"
               PROVE  due'[s] = {}
    BY <1>4 DEF PutsBack
  <2>1. CASE j = n + 1
    BY <1>1, <1>4, <2>1
  <2>2. CASE j \in 1..n
    <3>1. i \in 1..n
      BY <1>4, <2>2
    <3>2. turns[s][i] = "duck" /\ turns[s][j] \in Restorers
          /\ pc[s][turns[s][j]] = "done"
      BY <1>1, <1>4, <1>5, <2>2, <3>1
    <3> QED
      BY <2>2, <3>1, <3>2 DEF Turns, PutsBack, n
  <2> QED
    BY <1>6, <2>1, <2>2
<1> QED
  BY <1>4, <1>7, <1>8, <1>9, <1>10 DEF Turns

\* The duck thread lowers nothing once a restorer had its turn.
LEMMA DuckKeepsTurns ==
  ASSUME TypeOK, NEW s \in Sessions, Agree(s), Turns(s), DuckThread(s)
  PROVE  Turns(s)'
<1>0. "duck" \in Threads /\ "duck" \notin Restorers
  BY DEF Threads, Restorers
<1>1. CASE DuckBegins(s)
  <2>1. Enters(s, "duck") /\ due' = due
    BY <1>1 DEF DuckBegins
  <2>2. \E p \in {"setting", "done"} : pc' = [pc EXCEPT ![s]["duck"] = p]
    BY <1>1 DEF DuckBegins, Return, Begin
  <2> QED
    BY <1>0, <2>1, <2>2, EntersKeepTurns
<1>2. CASE DuckSets(s)
  <2>1. turns[s] \in Seq(Threads) /\ pc[s]["duck"] = "setting"
    BY <1>2 DEF TypeOK, DuckSets, Works
  <2>2. Len(turns[s]) \in Nat /\ Len(turns[s]) > 0 /\ turns[s][Len(turns[s])] = "duck"
    BY <2>1, <1>0 DEF Turns
  <2>3. \A i, j \in 1..Len(turns[s]) : ~(i < j /\ turns[s][i] = "duck")
    BY <2>2 DEF Turns
  <2>4. turns' = turns /\ pc' = pc
    BY <1>2 DEF DuckSets, Kept
  <2> QED
    BY <2>3, <2>4 DEF Turns, PutsBack
<1>3. CASE DuckEnds(s)
  <2>1. \A u \in Threads : pc'[s][u] = IF u = "duck" THEN "done" ELSE pc[s][u]
    BY <1>3, <1>0, ThreadMoves DEF DuckEnds
  <2>2. turns' = turns /\ due' = due
    BY <1>3 DEF DuckEnds
  <2>3. \A i \in 1..Len(turns[s]) : turns[s][i] \in Threads
    BY DEF TypeOK
  <2> QED
    BY <1>0, <2>1, <2>2, <2>3 DEF Turns, PutsBack
<1> QED
  BY <1>1, <1>2, <1>3 DEF DuckThread

\* A restorer that ends has gone through all that was due.
LEMMA RestoreKeepsTurns ==
  ASSUME TypeOK, NEW s \in Sessions, Agree(s), Turns(s), NEW t \in Restorers,
         RestoreThread(s, t)
  PROVE  Turns(s)'
<1>0. t \in Threads
  BY DEF Threads
<1>1. CASE RestoreBegins(s, t)
  <2>1. Enters(s, t) /\ due' = due
    BY <1>1 DEF RestoreBegins
  <2>2. CASE active[s]
    <3>1. pc' = [pc EXCEPT ![s][t] = "setting"]
      BY <1>1, <2>2 DEF RestoreBegins, Begin
    <3> QED
      BY <1>0, <2>1, <3>1, EntersKeepTurns
  <2>3. CASE ~active[s]
    <3>1. pc' = [pc EXCEPT ![s][t] = "done"] /\ due[s] = {}
      BY <1>1, <2>3 DEF RestoreBegins, Return, Agree
    <3> QED
      BY <1>0, <2>1, <3>1, EntersKeepTurns
  <2> QED
    BY <2>2, <2>3
<1>2. CASE RestoreSets(s, t)
  <2>1. due'[s] \subseteq due[s] /\ turns' = turns /\ pc' = pc
    BY <1>2 DEF RestoreSets, Kept, TypeOK
  <2> QED
    BY <2>1 DEF Turns, PutsBack
<1>3. CASE RestoreEnds(s, t)
  <2>1. \A u \in Threads : pc'[s][u] = IF u = t THEN "done" ELSE pc[s][u]
    BY <1>3, <1>0, ThreadMoves DEF RestoreEnds
  <2>2. turns' = turns /\ due' = due /\ due[s] = {}
    BY <1>3 DEF RestoreEnds, Works, Agree
  <2>3. \A i \in 1..Len(turns[s]) : turns[s][i] \in Threads
    BY DEF TypeOK
  <2> QED
    BY <1>0, <2>1, <2>2, <2>3 DEF Turns, PutsBack
<1> QED
  BY <1>1, <1>2, <1>3 DEF RestoreThread

\* The invariant of the turns holds at the start.
LEMMA TurnsInit == Init => TurnsInv
<1> SUFFICES ASSUME Init PROVE TurnsInv
  OBVIOUS
<1>1. ASSUME NEW s \in Sessions PROVE Turns(s)
  <2>1. 1..Len(turns[s]) = {}
    BY DEF Init
  <2>2. \A t \in Threads : pc[s][t] # "setting"
    BY DEF Init
  <2> QED
    BY <2>1, <2>2 DEF Turns, PutsBack
<1> QED
  BY <1>1, DuckInit DEF TurnsInv

\* Every step keeps it.
LEMMA TurnsStep == TurnsInv /\ [Next]_vars => TurnsInv'
<1> SUFFICES ASSUME TurnsInv, [Next]_vars PROVE TurnsInv'
  OBVIOUS
<1>0. TypeOK /\ \A s \in Sessions : Agree(s) /\ Turns(s)
  BY Agreement DEF TurnsInv, DuckInv
<1>1. DuckInv'
  BY DuckStep DEF TurnsInv
<1>2. CASE UNCHANGED vars
  <2>1. \A s \in Sessions : Turns(s)'
    BY <1>0, <1>2 DEF Turns, PutsBack, vars, threadVars
  <2> QED
    BY <1>1, <2>1 DEF TurnsInv
<1>3. ASSUME NEW s \in Sessions, Step(s) PROVE TurnsInv'
  <2>1. Turns(s)'
    BY <1>0, <1>3, CallsKeepTurns, DuckKeepsTurns, RestoreKeepsTurns DEF Step, Thread
  <2>2. ASSUME NEW r \in Sessions \ {s} PROVE Turns(r)'
    BY <1>0, <1>3, OthersKeep DEF Turns, PutsBack
  <2>3. \A r \in Sessions : Turns(r)'
    BY <2>1, <2>2
  <2> QED
    BY <1>1, <2>3 DEF TurnsInv
<1> QED
  BY <1>2, <1>3 DEF Next, Step

\* If the duck thread had its turn first, a restorer that is through has put
\* everything back, or tried to: neither the other restorer nor the duck thread
\* can undo it (ducking.py:182 and 240, the lock around both).
THEOREM RestoringIsComplete == Spec => []RestorePutsBack
<1>1. TurnsInv => RestorePutsBack
  BY DEF TurnsInv, Turns, PutsBack, RestorePutsBack
<1> QED
  BY <1>1, TurnsInit, TurnsStep, PTL DEF Spec

=============================================================================
