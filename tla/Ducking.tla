------------------------------- MODULE Ducking -------------------------------
(***************************************************************************)
(* Volume ducking (ducking.py): each session lowers the volume of the      *)
(* playback streams it matches while it captures, and puts them back.      *)
(* duck() and restore() each spawn a thread, restore_sync() runs on the    *)
(* main thread just before the process ends; a lock of the session makes   *)
(* them take turns.  The volumes are PipeWire's, shared by all sessions.   *)
(***************************************************************************)
EXTENDS Naturals, Sequences

CONSTANTS
  Sessions,   \* the dictations, each a process
  Nodes,      \* the playback streams of the configured apps
  ToolsFail   \* may pw-dump and wpctl fail or time out?

ASSUME ToolsFailAssumption == ToolsFail \in BOOLEAN

Restorers == {"restore", "sync"}
Threads   == {"duck"} \cup Restorers
Volumes   == {"own", "low"}      \* the user's volume; the duck volume
NoNodes   == [n \in {} |-> "own"]

VARIABLES
  capture,    \* what each session does: before, capturing, left
  gone,       \* the sessions whose process has ended
  pc,         \* where each thread of a session is
  lock,       \* VolumeDucker._lock: the thread inside, or "free"
  active,     \* _active
  snapshot,   \* _snapshot, a function from some of the nodes
  todo,       \* the nodes the thread inside has still to set
  vol,        \* the volume of each node
  turns,      \* history: the order in which a session's threads got the lock
  due         \* history: what a session lowered and nobody has put back since

threadVars == <<pc, lock, active, snapshot, todo, turns>>
vars == <<capture, gone, vol, due, threadVars>>

Snapshots == UNION {[N -> Volumes] : N \in SUBSET Nodes}

TypeOK ==
  /\ capture \in [Sessions -> {"before", "capturing", "left"}]
  /\ gone \subseteq Sessions
  /\ pc \in [Sessions -> [Threads -> {"off", "waiting", "setting", "done"}]]
  /\ lock \in [Sessions -> Threads \cup {"free"}]
  /\ active \in [Sessions -> BOOLEAN]
  /\ snapshot \in [Sessions -> Snapshots]
  /\ todo \in [Sessions -> SUBSET Nodes]
  /\ vol \in [Nodes -> Volumes]
  /\ turns \in [Sessions -> Seq(Threads)]
  /\ due \in [Sessions -> SUBSET Nodes]

Init ==
  /\ capture = [s \in Sessions |-> "before"]
  /\ gone = {}
  /\ pc = [s \in Sessions |-> [t \in Threads |-> "off"]]
  /\ lock = [s \in Sessions |-> "free"]
  /\ active = [s \in Sessions |-> FALSE]
  /\ snapshot = [s \in Sessions |-> NoNodes]
  /\ todo = [s \in Sessions |-> {}]
  /\ vol = [n \in Nodes |-> "own"]
  /\ turns = [s \in Sessions |-> <<>>]
  /\ due = [s \in Sessions |-> {}]

-----------------------------------------------------------------------------
(* The main thread                                                         *)

\* Until restore_sync is called the main thread handles other things.
MainIsFree(s) == pc[s]["sync"] = "off"

Spawn(s, t) ==
  /\ pc' = [pc EXCEPT ![s][t] = "waiting"]
  /\ UNCHANGED <<gone, lock, active, snapshot, todo, turns, vol, due>>

\* The session starts to capture: it has the mic lock, nobody else captures.
Duck(s) ==
  /\ capture[s] = "before" /\ MainIsFree(s)
  /\ \A r \in Sessions \ {s} : capture[r] # "capturing" \/ ~MainIsFree(r)
  /\ capture' = [capture EXCEPT ![s] = "capturing"]
  /\ Spawn(s, "duck")

\* It leaves the capture states: stop, cancel, or a close that cancels.
Restore(s) ==
  /\ capture[s] = "capturing" /\ MainIsFree(s)
  /\ capture' = [capture EXCEPT ![s] = "left"]
  /\ Spawn(s, "restore")

\* close() and the signal handler, which comes at any moment.
RestoreSync(s) ==
  /\ MainIsFree(s)
  /\ UNCHANGED capture
  /\ Spawn(s, "sync")

\* The process ends, and with it whatever its daemon threads were doing.
Exit(s) ==
  /\ s \notin gone /\ pc[s]["sync"] = "done"
  /\ gone' = gone \cup {s}
  /\ UNCHANGED <<capture, vol, due, threadVars>>

-----------------------------------------------------------------------------
(* The threads                                                             *)

Enters(s, t) ==
  /\ s \notin gone
  /\ pc[s][t] = "waiting" /\ lock[s] = "free"
  /\ turns' = [turns EXCEPT ![s] = Append(@, t)]

Works(s, t) == s \notin gone /\ pc[s][t] = "setting"

\* Go through the nodes with the lock held.
Begin(s, t, nodes) ==
  /\ pc' = [pc EXCEPT ![s][t] = "setting"]
  /\ lock' = [lock EXCEPT ![s] = t]
  /\ todo' = [todo EXCEPT ![s] = nodes]

\* Return at once: the lock was taken and is free again.
Return(s, t) ==
  /\ pc' = [pc EXCEPT ![s][t] = "done"]
  /\ UNCHANGED <<lock, active, snapshot, todo>>

Readable == IF ToolsFail THEN SUBSET Nodes ELSE {Nodes}

DuckBeginsUnread(s) ==          \* mutant: a volume that cannot be read is kept as None
  /\ Enters(s, "duck")
  /\ \E nodes \in Readable :
       snapshot' = [snapshot EXCEPT ![s] =
                      [n \in Nodes |-> IF n \in nodes THEN vol[n] ELSE "None"]]
  /\ active' = [active EXCEPT ![s] = TRUE]
  /\ Begin(s, "duck", Nodes)
  /\ UNCHANGED <<capture, gone, vol, due>>

DuckBeginsCommittingLate(s) ==  \* mutant: the snapshot is kept only afterwards
  /\ Enters(s, "duck")
  /\ \E nodes \in Readable : Begin(s, "duck", nodes)
  /\ UNCHANGED <<active, snapshot, capture, gone, vol, due>>

\* _duck_blocking, up to the commit of the snapshot, "BEFORE applying ducking".
DuckBegins(s) ==
  /\ Enters(s, "duck")
  /\ IF active[s] THEN Return(s, "duck")
     ELSE \E nodes \in Readable :
            /\ snapshot' = [snapshot EXCEPT ![s] = [n \in nodes |-> vol[n]]]
            /\ active' = [active EXCEPT ![s] = TRUE]
            /\ Begin(s, "duck", nodes)
  /\ UNCHANGED <<capture, gone, vol, due>>

Kept == UNCHANGED <<capture, gone, pc, lock, active, snapshot, turns>>

\* wpctl set-volume; whether it succeeded is only logged.
DuckSets(s) ==
  /\ Works(s, "duck")
  /\ \E n \in todo[s] :
       /\ todo' = [todo EXCEPT ![s] = @ \ {n}]
       /\ \/ /\ vol' = [vol EXCEPT ![n] = "low"]
             /\ due' = [due EXCEPT ![s] = @ \cup {n}]
          \/ ToolsFail /\ UNCHANGED <<vol, due>>
  /\ Kept

DuckEndsHoldingLock(s) ==       \* mutant: the lock is not given back
  /\ Works(s, "duck") /\ todo[s] = {}
  /\ pc' = [pc EXCEPT ![s]["duck"] = "done"]
  /\ UNCHANGED <<capture, gone, lock, active, snapshot, todo, turns, vol, due>>

DuckEnds(s) ==
  /\ Works(s, "duck") /\ todo[s] = {}
  /\ pc' = [pc EXCEPT ![s]["duck"] = "done"]
  /\ lock' = [lock EXCEPT ![s] = "free"]
  /\ UNCHANGED <<capture, gone, active, snapshot, todo, turns, vol, due>>

\* _restore_blocking, on the voxize-unduck thread or on the main thread.
RestoreBegins(s, t) ==
  /\ Enters(s, t)
  /\ IF active[s]
     THEN Begin(s, t, DOMAIN snapshot[s]) /\ UNCHANGED <<active, snapshot>>
     ELSE Return(s, t)
  /\ UNCHANGED <<capture, gone, vol, due>>

\* A node whose volume cannot be set is not tried again.
RestoreSets(s, t) ==
  /\ Works(s, t)
  /\ \E n \in todo[s] :
       /\ todo' = [todo EXCEPT ![s] = @ \ {n}]
       /\ due' = [due EXCEPT ![s] = @ \ {n}]
       /\ \/ vol' = [vol EXCEPT ![n] = snapshot[s][n]]
          \/ ToolsFail /\ UNCHANGED vol
  /\ Kept

RestoreEndsAtFirst(s, t) ==     \* mutant: it stops after the first node
  /\ Works(s, t) /\ (todo[s] = {} \/ todo[s] # DOMAIN snapshot[s])
  /\ pc' = [pc EXCEPT ![s][t] = "done"]
  /\ lock' = [lock EXCEPT ![s] = "free"]
  /\ snapshot' = [snapshot EXCEPT ![s] = NoNodes]
  /\ active' = [active EXCEPT ![s] = FALSE]
  /\ UNCHANGED <<capture, gone, todo, turns, vol, due>>

RestoreEnds(s, t) ==
  /\ Works(s, t) /\ todo[s] = {}
  /\ pc' = [pc EXCEPT ![s][t] = "done"]
  /\ lock' = [lock EXCEPT ![s] = "free"]
  /\ snapshot' = [snapshot EXCEPT ![s] = NoNodes]
  /\ active' = [active EXCEPT ![s] = FALSE]
  /\ UNCHANGED <<capture, gone, todo, turns, vol, due>>

DuckThread(s) == DuckBegins(s) \/ DuckSets(s) \/ DuckEnds(s)
RestoreThread(s, t) == RestoreBegins(s, t) \/ RestoreSets(s, t) \/ RestoreEnds(s, t)
Thread(s) == DuckThread(s) \/ \E t \in Restorers : RestoreThread(s, t)

Next ==
  \E s \in Sessions :
    Duck(s) \/ Restore(s) \/ RestoreSync(s) \/ Exit(s) \/ Thread(s)

Spec == Init /\ [][Next]_vars

\* Threads run, a call of pw-dump or wpctl ends within its timeout, and the
\* main thread returns; nobody has to record, or to stop.
Fairness == \A s \in Sessions : WF_vars(Thread(s)) /\ WF_vars(Exit(s))

FairSpec == Spec /\ Fairness

-----------------------------------------------------------------------------
(* What must hold                                                          *)

\* At every moment, so whichever call fails, what a session has lowered is in
\* its snapshot (ducking.py:218 "Commit snapshot BEFORE applying ducking").  The
\* snapshot lives in memory: a process that dies takes it along.
Recoverable ==
  \A s \in Sessions : due[s] # {} => active[s] /\ due[s] \subseteq DOMAIN snapshot[s]

\* If the duck thread got the lock before a restorer did, then once that
\* restorer is through, every node has been put back or the attempt failed.
RestorePutsBack ==
  \A s \in Sessions : \A i, j \in 1..Len(turns[s]) :
    /\ i < j /\ turns[s][i] = "duck"
    /\ turns[s][j] \in Restorers /\ pc[s][turns[s][j]] = "done"
    => due[s] = {}

\* A session that closes, or gets a signal, while its threads hold the lock
\* does end: no turn is taken for good.
ShutdownEnds == \A s \in Sessions : (pc[s]["sync"] = "waiting") ~> (s \in gone)

-----------------------------------------------------------------------------
(* What the sources claim, and the code does not keep                      *)

\* journal.md:560 "restore always sees the full snapshot even if fired
\* immediately after duck".  It may get the lock first, and see nothing.
RestoreSeesSnapshot ==
  \A s \in Sessions : pc[s]["restore"] = "done" => due[s] = {}

\* journal.md:554 "the user's pre-existing volume is preserved".  A session
\* that starts while the last one is still restoring saves the duck volume.
SnapshotIsTheUsers ==
  \A s \in Sessions : \A n \in DOMAIN snapshot[s] : snapshot[s][n] = "own"

=============================================================================
