-------------------------------- MODULE Wire --------------------------------
(***************************************************************************)
(* The pipe between the backend and a frontend, and the rules every        *)
(* frontend follows (frontend/client.py, pipe.py, state.py).  The backend  *)
(* is the promise that Session.tla is shown to keep: each step of a        *)
(* Dictation writes its events, in the order backend/session.py does, and  *)
(* a command read from stdin makes it move.  Level, progress, cost and     *)
(* vocabulary events change nothing a property speaks of, and are left     *)
(* out; so are the folder it names and the logs.                           *)
(***************************************************************************)
EXTENDS Naturals, Sequences

CONSTANTS
  PipeSize,     \* bound: events waiting in the backend's stdout
  MaxCommands   \* bound: commands waiting in its stdin before a user sends one

ASSUME PipeAssumption == PipeSize \in Nat /\ MaxCommands \in Nat

VARIABLES
  bstate, heard, btext, result, verdict,   \* the backend's dictation
  process,  \* the backend: "starting", "up", "down"
  started,  \* it has read `start`
  events,   \* its stdout
  conn,     \* the frontend's ClientCore, BackendPipe, and the backend's stdin
  ui        \* the frontend: "running", "exiting" (exit called), "gone"

Backend == INSTANCE Dictation WITH state <- bstate, text <- btext

dictVars == <<bstate, heard, btext, result, verdict>>
wireVars == <<dictVars, process, started, events, conn, ui>>

Terminal == Backend!Terminal
Capture  == Backend!Capture
InFlight == Backend!InFlight

Event(type, arg) == [type |-> type, arg |-> arg]
Nothing == Event("nothing", "none")

EventArgs ==
  [hello |-> {"ok", "other"}, state |-> Backend!States, text |-> {"append", "replace"},
   preview_lost |-> {"none"}, result |-> {"batch", "cleaned"}, no_speech |-> {"none"},
   failure |-> {"batch", "live", "cleanup"}, nothing |-> {"none"}]

Events == {e \in [type : DOMAIN EventArgs, arg : UNION {EventArgs[t] : t \in DOMAIN EventArgs}] :
             e.arg \in EventArgs[e.type]}
Commands == {"start", "stop", "cancel", "close", "close_trash"}

WireTypeOK ==
  /\ Backend!TypeOK
  /\ process \in {"starting", "up", "down"}
  /\ started \in BOOLEAN
  /\ events \in Seq(Events)
  /\ conn \in [state : Backend!States, hello : BOOLEAN, failed : BOOLEAN,
               closed : BOOLEAN, finished : BOOLEAN, watched : BOOLEAN,
               open : BOOLEAN, out : Seq(Commands)]
  /\ ui \in {"running", "exiting", "gone"}

\* The frontend spawns the backend, attaches the pipe and sends `start`.
WireInit ==
  /\ Backend!Init
  /\ process = "starting" /\ started = FALSE /\ events = <<>>
  /\ conn = [state |-> "INITIALIZING", hello |-> FALSE, failed |-> FALSE,
             closed |-> FALSE, finished |-> FALSE, watched |-> TRUE,
             open |-> TRUE, out |-> <<"start">>]
  /\ ui = "running"

-----------------------------------------------------------------------------
(* The backend's end.                                                      *)

\* Server.send: a frontend that is gone is not an error, the event is lost.
Send(new) ==
  \/ ui = "gone" /\ events' = <<>>
  \/ /\ ui # "gone" /\ Len(events) + Len(new) <= PipeSize
     /\ events' = events \o new

\* What a handler emits, then the transition it ends with.
Tell(new) == Send(new \o IF bstate' = bstate THEN <<>> ELSE <<Event("state", bstate')>>)

Hello ==
  /\ process = "starting" /\ process' = "up"
  /\ \E version \in EventArgs["hello"] : Send(<<Event("hello", version)>>)
  /\ UNCHANGED <<dictVars, started, conn, ui>>

\* A failed check or start, the warm-up, and the microphone's first sound.
Starts ==
  /\ \/ Backend!Fail
     \/ started /\ Backend!WarmUp
     \/ Backend!Record
  /\ Tell(<<>>)

\* The first text of a stage replaces the screen, the rest is added to it.
Streams ==
  /\ Backend!Hear \/ Backend!Stream
  /\ \E op \in {"append", "replace"} :
       /\ op = "append" => btext = "partial" /\ btext' = "partial"
       /\ Tell(<<Event("text", op)>>)

\* Whatever the live preview says of itself, the recording goes on.
PreviewLost ==
  /\ bstate \in Capture
  /\ UNCHANGED dictVars
  /\ Tell(<<Event("preview_lost", "none")>>)

BatchDone ==
  \/ Backend!Transcribe /\ Tell(<<Event("result", "batch")>>)
  \/ /\ Backend!HearNothing
     /\ Tell((IF result' = "batch" THEN <<Event("result", "batch")>> ELSE <<>>)
             \o <<Event("no_speech", "none")>>)

FailBatch ==
  /\ Backend!LoseTranscript
  /\ Tell(IF heard THEN <<Event("text", "replace"), Event("failure", "live")>>
          ELSE <<Event("failure", "batch")>>)

\* A cleaned text is delivered after the deltas that put it on the screen.
CleanupDone ==
  /\ Backend!Polish
  /\ result' = "cleaned" => btext = "partial"
  /\ Tell(IF result' = "cleaned" THEN <<Event("result", "cleaned")>> ELSE <<>>)

CleanupError ==
  /\ Backend!LosePolish
  /\ Tell(<<Event("text", "replace"), Event("failure", "cleanup")>>)

BackendWorks ==
  /\ process = "up"
  /\ \/ Starts \/ Streams \/ PreviewLost
     \/ BatchDone \/ FailBatch \/ CleanupDone \/ CleanupError
  /\ UNCHANGED <<process, started, conn, ui>>

\* Cancel what is in flight; ignored otherwise.
Cancelled ==
  \/ bstate \in InFlight /\ Backend!Abandon /\ Tell(<<>>)
  \/ bstate \in Terminal /\ UNCHANGED <<dictVars, events>>

\* Server._on_stdin: one command, or EOF, which is a cancel and a close.
BackendReads ==
  /\ process = "up"
  /\ \/ /\ conn.out # <<>>
        /\ conn' = [conn EXCEPT !.out = Tail(@)]
        /\ LET cmd == Head(conn.out) IN
           \/ /\ cmd = "start" /\ started' = TRUE
              /\ UNCHANGED <<dictVars, events, process>>
           \/ /\ cmd = "stop"
              /\ \/ bstate \in Capture /\ Backend!StopRecording /\ Tell(<<>>)
                 \/ bstate \notin Capture /\ UNCHANGED <<dictVars, events>>
              /\ UNCHANGED <<process, started>>
           \/ cmd = "cancel" /\ Cancelled /\ UNCHANGED <<process, started>>
           \/ /\ cmd \in {"close", "close_trash"} /\ Cancelled
              /\ process' = "down" /\ UNCHANGED started
     \/ /\ conn.out = <<>> /\ (~conn.open \/ ui = "gone")
        /\ Cancelled
        /\ process' = "down" /\ UNCHANGED <<started, conn>>
  /\ UNCHANGED ui

\* A crash or a signal, perhaps with part of a handler's events written.
BackendDies ==
  /\ process # "down" /\ process' = "down"
  /\ \E n \in 0 .. Len(events) : events' = SubSeq(events, 1, n)
  /\ UNCHANGED <<dictVars, started, conn, ui>>

\* The frontend's process ends; what it had not read is lost.
Vanishes == ui' = "gone" /\ events' = <<>>

-----------------------------------------------------------------------------
(* The frontend's end: BackendPipe, then ClientCore.  Each maps the        *)
(* connection to what it is afterwards.                                    *)

CloseStdin(c) == [c EXCEPT !.open = FALSE]

\* A broken pipe closes stdin; a closed one drops the command.
SendCommand(c, cmd) ==
  IF ~c.open THEN c
  ELSE IF process = "down" THEN CloseStdin(c)
  ELSE [c EXCEPT !.out = Append(@, cmd)]

Finish(c) == [c EXCEPT !.finished = TRUE]

\* Terminal means terminal, and from there EOF is expected.
Apply(c, new) ==
  IF c.state \in Terminal THEN c
  ELSE [c EXCEPT !.state = new, !.finished = @ \/ new \in Terminal]

CloseConn(c, trash) ==
  IF c.closed THEN c
  ELSE CloseStdin(SendCommand(Finish([c EXCEPT !.closed = TRUE]),
                              IF trash THEN "close_trash" ELSE "close"))

HangUp(c) == CloseStdin(Finish([c EXCEPT !.closed = TRUE]))

FailQuietly(c) ==     \* mutant: the loss is noted, and the state stays
  CloseConn([c EXCEPT !.failed = TRUE], FALSE)

Fail(c) == CloseConn(Apply([c EXCEPT !.failed = TRUE], "ERROR"), FALSE)

Handle(c, e) ==
  IF c.failed THEN c
  ELSE IF e.type = "hello"
       THEN LET h == [c EXCEPT !.hello = TRUE] IN IF e.arg = "ok" THEN h ELSE Fail(h)
  ELSE IF e.type = "state" THEN Apply(c, e.arg)
  ELSE c

\* EOF stops the watch; it is a loss unless the end was expected.
AtEof(c) == LET d == [c EXCEPT !.watched = FALSE] IN IF c.finished THEN d ELSE Fail(d)

CheckHello(c) == IF c.hello \/ c.closed THEN c ELSE Fail(c)

=============================================================================
