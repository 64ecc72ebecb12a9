-------------------------------- MODULE Tui --------------------------------
(***************************************************************************)
(* The terminal frontend (tui/app.py, deliver.py).  Copying awaits a       *)
(* clipboard tool, so it runs beside everything else: `tasks` holds the    *)
(* coroutines at the clipboard's lock, the one that has it first.  Textual *)
(* awaits a key's action before it reads the next key.                     *)
(***************************************************************************)
EXTENDS Card

VARIABLES
  tasks,      \* at the clipboard's lock: copies, and the leave that settles
  leaving,    \* _leaving
  signalled,  \* _signalled
  printed     \* what run() returns, for stdout

tuiVars == <<tasks, leaving, signalled, printed>>

Task(what, text, key) == [what |-> what, text |-> text, key |-> key]

TuiTypeOK ==
  /\ tasks \in Seq([what : {"copy", "copy_then_leave", "settle"}, text : Copies,
                    key : BOOLEAN])
  /\ {leaving, signalled} \subseteq BOOLEAN
  /\ printed \in Copies

TuiInit == tasks = <<>> /\ leaving = FALSE /\ signalled = FALSE /\ printed = "none"

\* _leave: once, and behind the copies already waiting in q.
Leave(q, key) ==
  \/ ~leaving /\ leaving' = TRUE /\ tasks' = Append(q, Task("settle", "none", key))
  \/ leaving /\ tasks' = q /\ UNCHANGED leaving

\* A backend event or the end of one (e), with the connection it leaves (n).
TuiTakes(n, e) ==
  LET changed == n.state # conn.state
      q == IF IsResult(e) THEN Append(tasks, Task("copy", e.arg, FALSE)) ELSE tasks
  IN
  /\ conn' = n
  /\ card' = Rendered(e, n)
  /\ confirm' = (confirm /\ (changed => n.state \in ConfirmCancel))
  /\ IF changed /\ n.state = "CANCELLED" THEN Leave(q, FALSE)
     ELSE tasks' = q /\ UNCHANGED leaving
  /\ UNCHANGED <<kind, clip, signalled, printed, ui>>

-----------------------------------------------------------------------------
(* Keys.                                                                   *)

KeyFrame == UNCHANGED <<dictVars, process, started, events, card, kind, clip, signalled,
                        printed, ui>>

\* On the card, with no question in front of it.
Key == kind = "tui" /\ ui = "running" /\ \A i \in DOMAIN tasks : ~tasks[i].key
CardKey == Key /\ ~confirm

SendKey(cmd) ==
  /\ Len(conn.out) < MaxCommands
  /\ conn' = SendCommand(conn, cmd)

\* Enter: stop, copy and exit, or exit.
ActionPrimary ==
  /\ CardKey
  /\ \/ conn.state \in Capture /\ SendKey("stop") /\ UNCHANGED <<tasks, leaving>>
     \/ /\ conn.state = "READY" /\ Deliverable # "none"
        /\ tasks' = Append(tasks, Task("copy_then_leave", Deliverable, TRUE))
        /\ UNCHANGED <<conn, leaving>>
     \/ /\ conn.state \in Done /\ Deliverable = "none"
        /\ Leave(tasks, TRUE) /\ UNCHANGED conn
  /\ UNCHANGED confirm /\ KeyFrame

\* Escape, Ctrl+Q and Ctrl+C: cancel, asking once there is audio; q exits too.
ActionCancelOrExit ==
  /\ CardKey
  /\ \/ conn.state \in ConfirmCancel /\ confirm' = TRUE /\ UNCHANGED <<conn, tasks, leaving>>
     \/ /\ conn.state \in InFlight \ ConfirmCancel /\ SendKey("cancel")
        /\ UNCHANGED <<confirm, tasks, leaving>>
     \/ conn.state \in Done /\ Leave(tasks, TRUE) /\ UNCHANGED <<conn, confirm>>
  /\ KeyFrame

\* The question is answered; Escape there means keep.
Answered ==
  /\ Key /\ confirm /\ confirm' = FALSE
  /\ \/ UNCHANGED conn
     \/ SendKey("cancel")
  /\ UNCHANGED <<tasks, leaving>> /\ KeyFrame

ActionCopy ==
  /\ CardKey /\ Deliverable # "none"
  /\ tasks' = Append(tasks, Task("copy", Deliverable, TRUE))
  /\ UNCHANGED <<conn, confirm, leaving>> /\ KeyFrame

-----------------------------------------------------------------------------
(* Copying and leaving.                                                    *)

\* settle() has returned: close the backend and exit, unless a signal has.
SettledAnyway ==       \* mutant: the leave does not look for a signal
  /\ conn' = CloseConn(conn, FALSE)
  /\ printed' = Deliverable
  /\ ui' = "exiting"

Settled ==
  \/ signalled /\ UNCHANGED <<conn, printed, ui>>
  \/ /\ ~signalled
     /\ conn' = CloseConn(conn, FALSE)
     /\ printed' = Deliverable
     /\ ui' = "exiting"

\* The task at i has had the lock.  A copy is done by a tool, or by OSC 52,
\* which the terminal may ignore.
TaskEnds(i) ==
  LET task == tasks[i]
      rest == SubSeq(tasks, 1, i - 1) \o SubSeq(tasks, i + 1, Len(tasks)) IN
  /\ kind = "tui" /\ ui # "gone"
  /\ \/ /\ task.what \in {"copy", "copy_then_leave"}
        /\ clip' \in {task.text, clip}
        /\ IF task.what = "copy" THEN tasks' = rest /\ UNCHANGED leaving
           ELSE Leave(rest, TRUE)
        /\ UNCHANGED <<conn, printed, ui>>
     \/ /\ task.what = "settle"
        /\ tasks' = rest /\ UNCHANGED <<clip, leaving>>
        /\ Settled
  /\ UNCHANGED <<dictVars, process, started, events, kind, card, confirm, signalled>>

RunAnyTask == \E i \in DOMAIN tasks : TaskEnds(i)     \* mutant: copies do not queue

RunTask == tasks # <<>> /\ TaskEnds(1)

\* SIGTERM, SIGHUP and SIGINT: hang up and print nothing, whatever else was
\* about to be.  A second one does no more.
TuiSignal ==
  /\ kind = "tui" /\ ui # "gone" /\ ~signalled
  /\ signalled' = TRUE /\ leaving' = TRUE
  /\ conn' = HangUp(conn)
  /\ printed' = "none"
  /\ ui' = "exiting"
  /\ UNCHANGED <<dictVars, process, started, events, cardVars, tasks>>

\* run() returns; what still runs is cancelled.
TuiExits ==
  /\ kind = "tui" /\ ui = "exiting"
  /\ Vanishes /\ tasks' = <<>>
  /\ UNCHANGED <<dictVars, process, started, conn, cardVars, leaving, signalled, printed>>

TuiActs ==
  \/ ActionPrimary \/ ActionCancelOrExit \/ Answered \/ ActionCopy
  \/ RunTask \/ TuiSignal \/ TuiExits

=============================================================================
