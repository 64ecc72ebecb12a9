------------------------------- MODULE Session -------------------------------
(***************************************************************************)
(* One dictation of the headless backend (backend/session.py): the command *)
(* handlers and idle callbacks of the GLib main loop, and the threads they *)
(* race with: voxize-bootstrap, voxize-stop, voxize-teardown, and the live *)
(* preview, batch and cleanup workers.                                     *)
(*                                                                         *)
(* A main-loop callback is one atomic step (only the main loop runs it).   *)
(* A thread is split wherever another thread can observe or change what it *)
(* reads.  `loop` is the FIFO of GLib.idle_add sources; commands, timers   *)
(* and signals have a higher priority, so they may run before any of it.   *)
(***************************************************************************)
EXTENDS Naturals, Sequences

CONSTANTS
  MaxPosts,   \* bound: how many texts each provider streams
  Faults      \* the failures the environment may produce in this model

FaultKinds ==
  {"checks", "lock_busy", "setup", "script", "import", "mic", "client",
   "preview", "stop", "slow_boot", "batch", "cleanup"}

ASSUME MaxPostsAssumption == MaxPosts \in Nat
ASSUME FaultsAssumption == Faults \subseteq FaultKinds

Terminal == {"READY", "CANCELLED", "ERROR"}
Capture  == {"WARMING", "RECORDING"}
Working  == {"TRANSCRIBING", "CLEANING"}
InFlight == {"INITIALIZING"} \cup Capture \cup Working
States   == InFlight \cup Terminal

\* state.py's table of legal transitions.
Allowed ==
  [INITIALIZING |-> {"WARMING", "RECORDING", "CANCELLED", "ERROR"},
   WARMING      |-> {"RECORDING", "TRANSCRIBING", "CANCELLED", "ERROR"},
   RECORDING    |-> {"TRANSCRIBING", "CANCELLED"},
   TRANSCRIBING |-> {"CLEANING", "READY", "CANCELLED"},
   CLEANING     |-> {"READY", "CANCELLED"},
   READY        |-> {},
   CANCELLED    |-> {},
   ERROR        |-> {}]

Resources == {"mic", "ws", "lock"}

VARIABLES
  state,      \* StateMachine._state
  phase,      \* the process: running, leaving (loop quit), gone
  started, closed,
  dir,        \* a session folder exists
  trashed,    \* ... and was moved to the trash
  loop,       \* idle sources waiting for the main loop
  cancelled,  \* _bootstrap_cancelled
  bootDone,   \* _bootstrap_done
  boot,       \* where the bootstrap thread is
  client,     \* _client: none, open, closed
  own,        \* who holds the reference to each resource
  live,       \* what each resource is doing
  wav,        \* none, open (placeholder header), final
  stopper,    \* where the voxize-stop thread is
  jobs,       \* running voxize-teardown threads: what each has left to stop
  wsPosts,    \* callbacks the live preview has posted
  batch, batchText, batchPosts,
  cleanup, cleanPosts,
  view,       \* the Transcript, and whether the screen holds a whole text
  sent,       \* result and failure events the frontend has been sent
  armed       \* the progress estimate has its live length

procVars == <<phase, started, closed, dir, trashed>>
bootVars == <<bootDone, boot, client>>
resVars  == <<own, live, wav>>
postVars == <<wsPosts, batchText, batchPosts, cleanPosts>>
\* What a state transition may touch (see Reach).
coreVars == <<state, loop, armed, cancelled, own, live, wav, jobs, batch, cleanup>>
vars == <<coreVars, procVars, bootVars, stopper, postVars, view, sent>>

BootSteps == {"off", "begin", "opening", "opened", "client", "built", "preview",
              "assign", "connect", "finish", "done", "dead"}
StopSteps == {"off", "stop_mic", "await_boot", "stop_ws", "done"}
Tasks == {"enter_warming", "audio_error", "ws_error", "live_words", "live_blank",
          "begin_transcribing", "start_batch", "set_live_len", "batch_delta",
          "batch_done", "batch_error", "begin_cleanup", "cleanup_delta",
          "cleanup_done", "cleanup_error"}
Workers == {"none", "streaming", "clientless", "cancelled", "ended"}
Texts == {"empty", "blank", "words"}
Stages == {"none", "live", "batch", "cleaned"}

TypeOK ==
  /\ state \in States
  /\ phase \in {"running", "leaving", "gone"}
  /\ started \in BOOLEAN /\ closed \in BOOLEAN
  /\ dir \in BOOLEAN /\ trashed \in BOOLEAN
  /\ loop \in Seq(Tasks)
  /\ cancelled \in BOOLEAN /\ bootDone \in BOOLEAN
  /\ boot \in BootSteps
  /\ client \in {"none", "open", "closed"}
  /\ own \in [Resources -> {"none", "boot", "session", "stopper", "teardown"}]
  /\ live \in [Resources -> {"absent", "new", "live", "ended"}]
  /\ wav \in {"none", "open", "final"}
  /\ stopper \in StopSteps
  /\ jobs \subseteq SUBSET Resources
  /\ wsPosts \in Nat /\ batchPosts \in Nat /\ cleanPosts \in Nat
  /\ batch \in Workers /\ cleanup \in Workers
  /\ batchText \in Texts
  /\ view \in [stage : Stages, whole : BOOLEAN, liveText : Texts, had : BOOLEAN]
  /\ sent \in [result : {"none", "batch", "cleaned"},
               verdict : {"none", "no_speech", "batch_failed", "cleanup_failed"}]
  /\ armed \in BOOLEAN

Init ==
  /\ state = "INITIALIZING" /\ phase = "running"
  /\ started = FALSE /\ closed = FALSE /\ dir = FALSE /\ trashed = FALSE
  /\ loop = <<>>
  /\ cancelled = FALSE /\ bootDone = FALSE /\ boot = "off" /\ client = "none"
  /\ own = [r \in Resources |-> "none"]
  /\ live = [r \in Resources |-> "absent"]
  /\ wav = "none"
  /\ stopper = "off" /\ jobs = {}
  /\ wsPosts = 0 /\ batchPosts = 0 /\ cleanPosts = 0
  /\ batch = "none" /\ cleanup = "none" /\ batchText = "empty"
  /\ view = [stage |-> "none", whole |-> FALSE, liveText |-> "empty", had |-> FALSE]
  /\ sent = [result |-> "none", verdict |-> "none"]
  /\ armed = FALSE

-----------------------------------------------------------------------------
(* Stopping things, and state transitions                                  *)

Running == phase = "running"
Alive   == phase # "gone"

\* Does stopping the sound stream succeed?  It can raise, and is then only logged.
MicStops == IF "stop" \in Faults THEN BOOLEAN ELSE {TRUE}

\* What stop() leaves behind; a preview that was never started ignores it.
Stopped(r) == IF live[r] = "live" THEN "ended" ELSE live[r]

\* cancel() sets a flag, at which the worker gives up before its next text; what
\* it posts until then is as good as queued before, and it counts as ended here.
CancelWorker(w) == IF w \in {"streaming", "clientless"} THEN "cancelled" ELSE w

\* _teardown_async: hand what the session still holds, less S, to a new thread.
HandOver(S) == {r \in Resources : own[r] = "session"} \ S
NewJobs(S) == IF HandOver(S) = {} THEN jobs ELSE jobs \cup {HandOver(S)}

\* Give up: stop the mic here when `syncMic`, leave the rest to a teardown thread.
Abandon(syncMic, ok) ==
  LET here == {r \in {"mic"} : syncMic /\ own[r] = "session"} IN
  /\ cancelled' = TRUE
  /\ own' = [r \in Resources |-> IF r \in here THEN "none"
                                 ELSE IF r \in HandOver(here) THEN "teardown"
                                 ELSE own[r]]
  /\ live' = [r \in Resources |-> IF r \in here /\ ok THEN "ended" ELSE live[r]]
  /\ wav' = IF here # {} /\ ok THEN "final" ELSE wav
  /\ jobs' = NewJobs(here)

KeepEverything == UNCHANGED <<cancelled, own, live, wav, jobs, batch, cleanup>>

\* StateMachine.transition with the listeners it calls, from idle queue q.
Reach(new, q) ==
  /\ state' = new
  /\ loop' = IF new = "TRANSCRIBING" THEN Append(q, "begin_transcribing")
             ELSE IF new = "CLEANING" THEN Append(q, "begin_cleanup")
             ELSE q
  /\ armed' = (armed /\ new # "TRANSCRIBING")
  /\ \/ /\ new = "CANCELLED"
        /\ \E ok \in MicStops : Abandon(TRUE, ok)
        /\ batch' = CancelWorker(batch)
        /\ cleanup' = CancelWorker(cleanup)
     \/ /\ new = "ERROR"
        /\ Abandon(FALSE, TRUE)
        /\ UNCHANGED <<batch, cleanup>>
     \/ new \notin {"CANCELLED", "ERROR"} /\ KeepEverything

-----------------------------------------------------------------------------
(* Commands and signals                                                    *)

\* The server found a startup check failing, before it reads any command.
FailStartup ==
  /\ "checks" \in Faults
  /\ Running /\ ~closed /\ ~started /\ state = "INITIALIZING"
  /\ Reach("ERROR", loop)
  /\ UNCHANGED <<procVars, bootVars, stopper, postVars, view, sent>>

\* start() and _initialize: take the lock, make the folder, spawn the bootstrap.
Start ==
  /\ Running /\ ~closed /\ ~started /\ state = "INITIALIZING"
  /\ started' = TRUE
  /\ \/ /\ "lock_busy" \in Faults
        /\ Reach("ERROR", loop)
        /\ UNCHANGED <<dir, boot>>
     \/ /\ "setup" \in Faults        \* no folder, or no API key
        /\ dir' \in BOOLEAN
        /\ state' = "ERROR" /\ cancelled' = TRUE
        /\ live' = [live EXCEPT !["lock"] = "ended"]
        /\ UNCHANGED <<loop, armed, own, wav, jobs, batch, cleanup, boot>>
     \/ /\ \/ "script" \in Faults /\ UNCHANGED boot   \* recover.sh not writable
           \/ boot' = "begin"
        /\ dir' = TRUE
        /\ own' = [own EXCEPT !["lock"] = "session"]
        /\ live' = [live EXCEPT !["lock"] = "live"]
        /\ UNCHANGED <<state, loop, armed, cancelled, wav, jobs, batch, cleanup>>
  /\ UNCHANGED <<phase, closed, trashed, bootDone, client, stopper, postVars, view, sent>>

Stop ==
  /\ Running /\ ~closed /\ state \in Capture
  /\ Reach("TRANSCRIBING", loop)
  /\ UNCHANGED <<procVars, bootVars, stopper, postVars, view, sent>>

Cancel ==
  /\ Running /\ ~closed /\ state \in InFlight
  /\ Reach("CANCELLED", loop)
  /\ UNCHANGED <<procVars, bootVars, stopper, postVars, view, sent>>

\* close(trash_if_empty); also what stdin EOF does, with FALSE.
Close(trashIfEmpty) ==
  /\ Running /\ ~closed
  /\ \/ state \in InFlight /\ Reach("CANCELLED", loop)
     \/ /\ state \in Terminal
        /\ Abandon(FALSE, TRUE)
        /\ batch' = CancelWorker(batch)
        /\ cleanup' = CancelWorker(cleanup)
        /\ UNCHANGED <<state, loop, armed>>
  /\ closed' = TRUE
  /\ trashed' = (trashIfEmpty /\ ~view.had /\ dir)
  /\ client' = IF client = "open" THEN "closed" ELSE client
  /\ phase' = "leaving"
  /\ UNCHANGED <<started, dir, bootDone, boot, stopper, postVars, view, sent>>

\* SIGTERM/SIGINT: finalise the WAV, release the lock, quit; no state change.
Signal ==
  /\ Running
  /\ closed' = TRUE /\ cancelled' = TRUE /\ phase' = "leaving"
  /\ wav' = IF own["mic"] = "session" THEN "final" ELSE wav
  /\ own' = [own EXCEPT !["lock"] = IF @ = "session" THEN "none" ELSE @]
  /\ live' = [live EXCEPT !["lock"] = IF own["lock"] = "session" THEN "ended" ELSE @]
  /\ UNCHANGED <<state, loop, armed, jobs, batch, cleanup, started, dir, trashed,
                 bootVars, stopper, postVars, view, sent>>

\* The main thread returns; daemon threads die with the process, and the
\* kernel closes the lock file, the sound device and the sockets.
Vanish ==
  /\ phase = "leaving" /\ phase' = "gone"
  /\ UNCHANGED <<coreVars, started, closed, dir, trashed, bootVars, stopper,
                 postVars, view, sent>>

-----------------------------------------------------------------------------
(* The bootstrap thread                                                    *)

Post(task) == loop' = Append(loop, task)

BootFrame == UNCHANGED <<state, armed, cancelled, jobs, batch, cleanup, procVars,
                         stopper, postVars, view, sent>>

\* Both checkpoints around the audio import; an import that raises ends the thread.
BootBegin ==
  /\ Alive /\ boot = "begin"
  /\ \/ cancelled /\ boot' = "done" /\ bootDone' = TRUE
     \/ ~cancelled /\ boot' = "opening" /\ UNCHANGED bootDone
     \/ "import" \in Faults /\ boot' = "dead" /\ UNCHANGED bootDone
  /\ UNCHANGED <<loop, resVars, client>> /\ BootFrame

BootOpenMicGoesOn ==            \* mutant: no return after the mic failed
  /\ Alive /\ boot = "opening"
  /\ wav' = "open" /\ boot' = "opened"
  /\ own' = [own EXCEPT !["mic"] = "boot"]
  /\ live' \in {live, [live EXCEPT !["mic"] = "live"]}
  /\ UNCHANGED <<loop, bootDone, client>> /\ BootFrame

\* AudioCapture.start: the WAV file first, then the stream.
BootOpenMic ==
  /\ Alive /\ boot = "opening"
  /\ wav' = "open"
  /\ \/ /\ boot' = "opened"
        /\ own' = [own EXCEPT !["mic"] = "boot"]
        /\ live' = [live EXCEPT !["mic"] = "live"]
        /\ UNCHANGED <<loop, bootDone>>
     \/ /\ "mic" \in Faults
        /\ boot' = "done" /\ bootDone' = TRUE
        /\ Post("audio_error")
        /\ UNCHANGED <<own, live>>
  /\ UNCHANGED client /\ BootFrame

BootPublishMic ==
  /\ Alive /\ boot = "opened"
  /\ boot' = "client"
  /\ own' = [own EXCEPT !["mic"] = "session"]
  /\ Post("enter_warming")
  /\ UNCHANGED <<live, wav, bootDone, client>> /\ BootFrame

BootBuildClient ==
  /\ Alive /\ boot = "client"
  /\ \/ cancelled /\ boot' = "done" /\ bootDone' = TRUE
     \/ ~cancelled /\ boot' = "built" /\ UNCHANGED bootDone
     \/ ~cancelled /\ "client" \in Faults /\ boot' = "done" /\ bootDone' = TRUE
  /\ UNCHANGED <<loop, resVars, client>> /\ BootFrame

\* A client built after the session moved on is closed, never published.
BootPublishClient ==
  /\ Alive /\ boot = "built"
  /\ \/ cancelled /\ boot' = "done" /\ bootDone' = TRUE /\ UNCHANGED client
     \/ ~cancelled /\ boot' = "preview" /\ client' = "open" /\ UNCHANGED bootDone
  /\ UNCHANGED <<loop, resVars>> /\ BootFrame

\* The last checkpoint, after RealtimeTranscription is constructed.
BootCheckPreview ==
  /\ Alive /\ boot = "preview"
  /\ \/ cancelled /\ boot' = "done" /\ bootDone' = TRUE
     \/ ~cancelled /\ boot' = "assign" /\ UNCHANGED bootDone
  /\ UNCHANGED <<loop, resVars, client>> /\ BootFrame

BootPublishPreview ==
  /\ Alive /\ boot = "assign"
  /\ boot' = "connect"
  /\ own' = [own EXCEPT !["ws"] = "session"]
  /\ live' = [live EXCEPT !["ws"] = "new"]
  /\ UNCHANGED <<loop, wav, bootDone, client>> /\ BootFrame

\* RealtimeTranscription.start resets its flags, whatever stop() did before.
BootConnectPreview ==
  /\ Alive /\ boot = "connect"
  /\ boot' = "finish"
  /\ live' = [live EXCEPT !["ws"] = "live"]
  /\ UNCHANGED <<loop, own, wav, bootDone, client>> /\ BootFrame

BootFinish ==
  /\ Alive /\ boot = "finish"
  /\ boot' = "done" /\ bootDone' = TRUE
  /\ UNCHANGED <<loop, resVars, client>> /\ BootFrame

Boot == \/ BootBegin \/ BootOpenMic \/ BootPublishMic \/ BootBuildClient
        \/ BootPublishClient \/ BootCheckPreview \/ BootPublishPreview
        \/ BootConnectPreview \/ BootFinish

-----------------------------------------------------------------------------
(* The stop and teardown threads                                           *)

StopFrame == UNCHANGED <<state, armed, cancelled, jobs, batch, cleanup, procVars,
                         bootVars, postVars, view, sent>>

StopMicIfWanted ==              \* mutant: the thread gives up when it sees a cancel
  /\ Alive /\ stopper = "stop_mic"
  /\ LET wanted == state = "TRANSCRIBING" IN
     /\ stopper' = IF wanted THEN "await_boot" ELSE "done"
     /\ own' = [own EXCEPT !["mic"] = IF @ = "stopper" THEN "none" ELSE @]
     /\ live' = [live EXCEPT !["mic"] = IF wanted THEN "ended" ELSE @]
     /\ wav' = IF wanted THEN "final" ELSE wav
  /\ UNCHANGED loop /\ StopFrame

\* Step 1 of _stop_and_batch: "must complete before batch reads the WAV".
StopMic ==
  /\ Alive /\ stopper = "stop_mic" /\ stopper' = "await_boot"
  /\ \E ok \in MicStops :
       LET here == own["mic"] = "stopper" IN
       /\ own' = [own EXCEPT !["mic"] = IF here THEN "none" ELSE @]
       /\ live' = [live EXCEPT !["mic"] = IF here /\ ok THEN "ended" ELSE @]
       /\ wav' = IF here /\ ok THEN "final" ELSE wav
  /\ UNCHANGED loop /\ StopFrame

AwaitBootBeforeStop ==          \* mutant: batch is dispatched before audio.stop()
  /\ Alive /\ stopper \in {"stop_mic", "await_boot"}
  /\ stopper' = IF stopper = "stop_mic" THEN stopper ELSE "stop_ws"
  /\ bootDone
  /\ Post("start_batch")
  /\ UNCHANGED resVars /\ StopFrame

\* Steps 1b and 2: wait for the bootstrap (at most 10 s), then dispatch batch.
AwaitBoot ==
  /\ Alive /\ stopper = "await_boot" /\ stopper' = "stop_ws"
  /\ bootDone \/ "slow_boot" \in Faults
  /\ Post("start_batch")
  /\ UNCHANGED resVars /\ StopFrame

StopPreviewGiven ==             \* mutant: no second look for a late preview
  /\ Alive /\ stopper = "stop_ws" /\ stopper' = "done"
  /\ LET here == own["ws"] = "stopper" IN
     /\ own' = [own EXCEPT !["ws"] = IF here THEN "none" ELSE @]
     /\ live' = [live EXCEPT !["ws"] = IF here THEN Stopped("ws") ELSE @]
  /\ Post("set_live_len")
  /\ UNCHANGED wav /\ StopFrame

\* Step 3: stop the preview, taking one the bootstrap published late.
StopPreview ==
  /\ Alive /\ stopper = "stop_ws" /\ stopper' = "done"
  /\ LET here == own["ws"] \in {"stopper", "session"} IN
     /\ own' = [own EXCEPT !["ws"] = IF here THEN "none" ELSE @]
     /\ live' = [live EXCEPT !["ws"] = IF here THEN Stopped("ws") ELSE @]
  /\ Post("set_live_len")
  /\ UNCHANGED wav /\ StopFrame

Stopper == StopMic \/ AwaitBoot \/ StopPreview

\* _teardown_blocking, one resource at a time: the mic, the preview, the lock.
NextToStop(job) == IF "mic" \in job THEN "mic" ELSE IF "ws" \in job THEN "ws" ELSE "lock"

Teardown(job) ==
  /\ Alive
  /\ LET r == NextToStop(job)
         rest == job \ {r}
     IN \E ok \in IF r = "mic" THEN MicStops ELSE {TRUE} :
          /\ own' = [own EXCEPT ![r] = "none"]
          /\ live' = [live EXCEPT ![r] = IF ok THEN Stopped(r) ELSE @]
          /\ wav' = IF r = "mic" /\ ok THEN "final" ELSE wav
          /\ jobs' = (jobs \ {job}) \cup (IF rest = {} THEN {} ELSE {rest})
  /\ UNCHANGED <<state, loop, armed, cancelled, batch, cleanup, procVars, bootVars,
                 stopper, postVars, view, sent>>

-----------------------------------------------------------------------------
(* The providers' threads                                                  *)

WorkerFrame == UNCHANGED <<state, armed, cancelled, resVars, jobs, procVars,
                           bootVars, stopper, view, sent>>

\* The live preview streams a text, or fails; an API error leaves it running.
PreviewPosts ==
  /\ Alive /\ live["ws"] = "live" /\ wsPosts < MaxPosts
  /\ wsPosts' = wsPosts + 1
  /\ \/ /\ \E task \in {"live_words", "live_blank"} : Post(task)
        /\ UNCHANGED live
     \/ /\ "preview" \in Faults
        /\ Post("ws_error")
        /\ live' \in {live, [live EXCEPT !["ws"] = "ended"]}
  /\ UNCHANGED <<state, armed, cancelled, own, wav, jobs, procVars, bootVars, stopper,
                 batch, cleanup, batchText, batchPosts, cleanPosts, view, sent>>

\* BatchTranscription._run; a cancelled worker posts nothing more.
BatchDelta ==
  /\ Alive /\ batch = "streaming" /\ batchPosts < MaxPosts
  /\ batchPosts' = batchPosts + 1
  /\ batchText' \in IF batchText = "words" THEN {"words"} ELSE {"blank", "words"}
  /\ Post("batch_delta")
  /\ UNCHANGED <<batch, cleanup, wsPosts, cleanPosts>> /\ WorkerFrame

BatchCompletes ==
  /\ Alive /\ batch = "streaming"
  /\ batch' = "ended" /\ Post("batch_done")
  /\ UNCHANGED <<cleanup, postVars>> /\ WorkerFrame

\* With no client the call itself raises (AttributeError on None).
BatchFails ==
  /\ Alive
  /\ batch = "clientless" \/ (batch = "streaming" /\ "batch" \in Faults)
  /\ batch' = "ended" /\ Post("batch_error")
  /\ UNCHANGED <<cleanup, postVars>> /\ WorkerFrame

CleanupDelta ==
  /\ Alive /\ cleanup = "streaming" /\ cleanPosts < MaxPosts
  /\ cleanPosts' = cleanPosts + 1
  /\ Post("cleanup_delta")
  /\ UNCHANGED <<batch, cleanup, wsPosts, batchText, batchPosts>> /\ WorkerFrame

CleanupCompletes ==
  /\ Alive /\ cleanup = "streaming"
  /\ cleanup' = "ended" /\ Post("cleanup_done")
  /\ UNCHANGED <<batch, postVars>> /\ WorkerFrame

CleanupFails ==
  /\ Alive /\ cleanup = "streaming" /\ "cleanup" \in Faults
  /\ cleanup' = "ended" /\ Post("cleanup_error")
  /\ UNCHANGED <<batch, postVars>> /\ WorkerFrame

BatchEnds == BatchCompletes \/ BatchFails
CleanupEnds == CleanupCompletes \/ CleanupFails

-----------------------------------------------------------------------------
(* Main loop: the warming timer and the idle callbacks                     *)

\* _check_warming: sound has been heard twice in a row, or 5 s went by.
WarmingEnds ==
  /\ Running /\ state = "WARMING"
  /\ Reach("RECORDING", loop)
  /\ UNCHANGED <<procVars, bootVars, stopper, postVars, view, sent>>

\* The main loop takes the oldest idle source, which is `task`.
Take(task) == Running /\ loop # <<>> /\ Head(loop) = task
IdleFrame == UNCHANGED <<procVars, bootVars, postVars>>
Skip == /\ loop' = Tail(loop)
        /\ UNCHANGED <<state, armed, view, sent, stopper>> /\ KeepEverything
Stays == UNCHANGED <<stopper, view, sent>>
SkipUnless(S) == state \notin S /\ Skip

\* Transcript.add: the first text of a stage replaces the screen.
Added(s) == [view EXCEPT !.stage = s, !.whole = FALSE, !.had = TRUE]

EnterWarming ==
  /\ Take("enter_warming")
  /\ \/ ~cancelled /\ state = "INITIALIZING" /\ Reach("WARMING", Tail(loop)) /\ Stays
     \/ (cancelled \/ state # "INITIALIZING") /\ Skip
  /\ IdleFrame

\* Releases the lock, unless a teardown thread already took it over.
ReleasedOwn == [own EXCEPT !["lock"] = IF @ = "session" THEN "none" ELSE @]
ReleasedLive == [live EXCEPT !["lock"] = IF own["lock"] = "session" THEN "ended" ELSE @]

AudioError ==
  /\ Take("audio_error")
  /\ loop' = Tail(loop)
  /\ own' = ReleasedOwn /\ live' = ReleasedLive
  /\ \/ state = "INITIALIZING" /\ state' = "ERROR" /\ cancelled' = TRUE
     \/ state # "INITIALIZING" /\ UNCHANGED <<state, cancelled>>
  /\ UNCHANGED <<armed, wav, jobs, batch, cleanup>>
  /\ Stays /\ IdleFrame

\* Losing the preview is not fatal: the WAV is the safety net.
WsError ==
  /\ Take("ws_error")
  /\ \/ /\ state \in Capture
        /\ loop' = Tail(loop)
        /\ own' = [own EXCEPT !["ws"] = IF @ = "session" THEN "none" ELSE @]
        /\ live' = [live EXCEPT !["ws"] =
                       IF own["ws"] = "session" THEN Stopped("ws") ELSE @]
        /\ UNCHANGED <<state, armed, cancelled, wav, jobs, batch, cleanup>>
        /\ Stays
     \/ SkipUnless(Capture)
  /\ IdleFrame

LiveDelta ==
  /\ \E task \in {"live_words", "live_blank"} :
       /\ Take(task)
       /\ \/ /\ state = "RECORDING"
             /\ loop' = Tail(loop)
             /\ view' = [Added("live") EXCEPT !.liveText =
                           IF task = "live_words" \/ @ = "words" THEN "words" ELSE "blank"]
             /\ UNCHANGED <<state, armed, sent, stopper>> /\ KeepEverything
          \/ SkipUnless({"RECORDING"})
  /\ IdleFrame

BeginTranscribingKeepsLock ==   \* mutant: _release_lock is left out
  /\ Take("begin_transcribing")
  /\ \/ /\ state = "TRANSCRIBING"
        /\ loop' = Tail(loop)
        /\ cancelled' = TRUE
        /\ own' = [r \in Resources |-> IF own[r] = "session" /\ r # "lock"
                                       THEN "stopper" ELSE own[r]]
        /\ stopper' = "stop_mic"
        /\ UNCHANGED <<state, armed, live, wav, jobs, batch, cleanup, view, sent>>
     \/ SkipUnless({"TRANSCRIBING"})
  /\ IdleFrame

BeginTranscribingForgets ==     \* mutant: had_content starts over, as it once did
  /\ Take("begin_transcribing")
  /\ \/ /\ state = "TRANSCRIBING"
        /\ loop' = Tail(loop)
        /\ view' = [view EXCEPT !.had = FALSE]
        /\ UNCHANGED <<state, armed, cancelled, resVars, jobs, batch, cleanup, sent,
                       stopper>>
     \/ SkipUnless({"TRANSCRIBING"})
  /\ IdleFrame

\* Releases the lock, then hands the mic and the preview to the stop thread.
BeginTranscribing ==
  /\ Take("begin_transcribing")
  /\ \/ /\ state = "TRANSCRIBING"
        /\ loop' = Tail(loop)
        /\ cancelled' = TRUE
        /\ own' = [r \in Resources |-> IF own[r] # "session" THEN own[r]
                                       ELSE IF r = "lock" THEN "none" ELSE "stopper"]
        /\ live' = ReleasedLive
        /\ stopper' = "stop_mic"
        /\ UNCHANGED <<state, armed, wav, jobs, batch, cleanup, view, sent>>
     \/ SkipUnless({"TRANSCRIBING"})
  /\ IdleFrame

FailBatchPhase(q) ==            \* mutant: the failed phase is sent as it is named
  /\ UNCHANGED view
  /\ sent' = [sent EXCEPT !.verdict = "batch"]
  /\ Reach("READY", q)

\* _fail_batch: READY, with the live preview standing in if it said anything.
FailBatch(q) ==
  /\ view' = IF view.liveText = "words"
             THEN [view EXCEPT !.stage = "live", !.whole = TRUE, !.had = TRUE]
             ELSE view
  /\ sent' = [sent EXCEPT !.verdict = "batch_failed"]
  /\ Reach("READY", q)

StartBatchUnguarded ==          \* mutant: no look at the state
  /\ Take("start_batch")
  /\ batch' = IF client = "open" THEN "streaming" ELSE "clientless"
  /\ loop' = Tail(loop)
  /\ UNCHANGED <<state, armed, cancelled, resVars, jobs, cleanup>>
  /\ Stays /\ IdleFrame

\* The recording is there: WARMING was entered after the file was opened.
StartBatch ==
  /\ Take("start_batch")
  /\ \/ /\ state = "TRANSCRIBING"
        /\ batch' = IF client = "open" THEN "streaming" ELSE "clientless"
        /\ loop' = Tail(loop)
        /\ UNCHANGED <<state, armed, cancelled, resVars, jobs, cleanup>>
        /\ Stays
     \/ SkipUnless({"TRANSCRIBING"})
  /\ IdleFrame

SetLiveLen ==
  /\ Take("set_live_len")
  /\ loop' = Tail(loop)
  /\ armed' = (armed \/ state \in Working)
  /\ UNCHANGED state /\ KeepEverything /\ Stays /\ IdleFrame

OnBatchDeltaUnguarded ==        \* mutant: paints a queued delta after a cancel
  /\ Take("batch_delta")
  /\ loop' = Tail(loop)
  /\ view' = Added("batch")
  /\ UNCHANGED <<state, armed, sent, stopper>> /\ KeepEverything /\ IdleFrame

OnBatchDelta ==
  /\ Take("batch_delta")
  /\ \/ /\ state = "TRANSCRIBING"
        /\ loop' = Tail(loop)
        /\ view' = Added("batch")
        /\ UNCHANGED <<state, armed, sent, stopper>> /\ KeepEverything
     \/ SkipUnless({"TRANSCRIBING"})
  /\ IdleFrame

OnBatchDoneUnguarded ==         \* mutant: no look at the state
  /\ Take("batch_done")
  /\ sent' = [sent EXCEPT !.result = "batch"]
  /\ Reach("CLEANING", Tail(loop))
  /\ UNCHANGED <<view, stopper>> /\ IdleFrame

\* Deliver the transcript, then clean it up; a blank one ends the session.
OnBatchDone ==
  /\ Take("batch_done")
  /\ \/ /\ state = "TRANSCRIBING" /\ batchText = "words"
        /\ sent' = [sent EXCEPT !.result = "batch"]
        /\ Reach("CLEANING", Tail(loop))
        /\ UNCHANGED <<view, stopper>>
     \/ /\ state = "TRANSCRIBING" /\ batchText # "words"
        /\ sent' = [result |-> IF batchText = "blank" THEN "batch" ELSE sent.result,
                    verdict |-> "no_speech"]
        /\ view' = [view EXCEPT !.had = TRUE]
        /\ Reach("READY", Tail(loop))
        /\ UNCHANGED stopper
     \/ SkipUnless({"TRANSCRIBING"})
  /\ IdleFrame

OnBatchErrorSilent ==           \* mutant: the error is logged and goes no further
  /\ Take("batch_error") /\ Skip /\ IdleFrame

OnBatchError ==
  /\ Take("batch_error")
  /\ \/ state = "TRANSCRIBING" /\ FailBatch(Tail(loop)) /\ UNCHANGED stopper
     \/ SkipUnless({"TRANSCRIBING"})
  /\ IdleFrame

\* The full batch transcript stands while cleanup thinks.
BeginCleanup ==
  /\ Take("begin_cleanup")
  /\ \/ /\ state = "CLEANING"
        /\ loop' = Tail(loop)
        /\ view' = [view EXCEPT !.stage = "batch", !.whole = TRUE, !.had = TRUE]
        /\ cleanup' = "streaming"
        /\ UNCHANGED <<state, armed, cancelled, resVars, jobs, batch, sent, stopper>>
     \/ SkipUnless({"CLEANING"})
  /\ IdleFrame

OnCleanupDelta ==
  /\ Take("cleanup_delta")
  /\ \/ /\ state = "CLEANING"
        /\ loop' = Tail(loop)
        /\ view' = Added("cleaned")
        /\ UNCHANGED <<state, armed, sent, stopper>> /\ KeepEverything
     \/ SkipUnless({"CLEANING"})
  /\ IdleFrame

OnCleanupDoneUnguarded ==       \* mutant: delivers after a cancel
  /\ Take("cleanup_done")
  /\ sent' = [sent EXCEPT !.result = IF cleanPosts > 0 THEN "cleaned" ELSE @]
  /\ view' = [view EXCEPT !.whole = TRUE]
  /\ IF state = "CLEANING" THEN Reach("READY", Tail(loop))
     ELSE loop' = Tail(loop) /\ UNCHANGED <<state, armed>> /\ KeepEverything
  /\ UNCHANGED stopper /\ IdleFrame

\* Second delivery, unless the model returned nothing.
OnCleanupDone ==
  /\ Take("cleanup_done")
  /\ \/ /\ state = "CLEANING"
        /\ IF cleanPosts > 0
           THEN /\ sent' = [sent EXCEPT !.result = "cleaned"]
                /\ view' = [view EXCEPT !.whole = TRUE]
           ELSE UNCHANGED <<sent, view>>
        /\ Reach("READY", Tail(loop))
        /\ UNCHANGED stopper
     \/ SkipUnless({"CLEANING"})
  /\ IdleFrame

OnCleanupErrorKeeps ==          \* mutant: the half-streamed cleanup stays on screen
  /\ Take("cleanup_error")
  /\ \/ /\ state = "CLEANING"
        /\ sent' = [sent EXCEPT !.verdict = "cleanup_failed"]
        /\ Reach("READY", Tail(loop))
        /\ UNCHANGED <<view, stopper>>
     \/ SkipUnless({"CLEANING"})
  /\ IdleFrame

\* "The full batch transcript stands -- never a half-streamed cleanup."
OnCleanupError ==
  /\ Take("cleanup_error")
  /\ \/ /\ state = "CLEANING"
        /\ view' = [view EXCEPT !.stage = "batch", !.whole = TRUE, !.had = TRUE]
        /\ sent' = [sent EXCEPT !.verdict = "cleanup_failed"]
        /\ Reach("READY", Tail(loop))
        /\ UNCHANGED stopper
     \/ SkipUnless({"CLEANING"})
  /\ IdleFrame

Idle == \/ EnterWarming \/ AudioError \/ WsError \/ LiveDelta \/ BeginTranscribing
        \/ StartBatch \/ SetLiveLen \/ OnBatchDelta \/ OnBatchDone \/ OnBatchError
        \/ BeginCleanup \/ OnCleanupDelta \/ OnCleanupDone \/ OnCleanupError

-----------------------------------------------------------------------------

Commands == \/ FailStartup \/ Start \/ Stop \/ Cancel
            \/ \E trashIfEmpty \in BOOLEAN : Close(trashIfEmpty)
            \/ Signal

Threads == \/ Boot \/ Stopper
           \/ \E job \in jobs : Teardown(job)
           \/ PreviewPosts \/ BatchDelta \/ BatchEnds \/ CleanupDelta \/ CleanupEnds

\* The process is gone: nothing is left to happen.
Finished == phase = "gone" /\ UNCHANGED vars

Next == Commands \/ Vanish \/ Threads \/ WarmingEnds \/ Idle \/ Finished

Spec == Init /\ [][Next]_vars

\* The main loop serves its sources, threads run, and providers answer or give
\* up (the SDK's own timeouts).  The user and the environment owe nothing.
Fairness ==
  /\ WF_vars(Idle) /\ WF_vars(WarmingEnds) /\ WF_vars(Vanish)
  /\ WF_vars(Boot) /\ WF_vars(Stopper)
  /\ WF_vars(\E job \in jobs : Teardown(job))
  /\ WF_vars(BatchEnds) /\ WF_vars(CleanupEnds)

FairSpec == Spec /\ Fairness

-----------------------------------------------------------------------------
(* What must hold                                                          *)

\* While the frontend shows a recording, the session itself holds a live mic
\* and the lock: every path that gives either up has first left the capture
\* states (session.py: _begin_transcribing, _on_state_change, _audio_error).
CaptureIsExclusive ==
  Running /\ state \in Capture =>
    \A r \in {"mic", "lock"} : own[r] = "session" /\ live[r] = "live"

\* The upload starts only after the mic stopped and the file's sizes were
\* written, whatever the bootstrap, a cancel or a close did in between
\* (session.py: _stop_and_batch, "must complete before batch reads the WAV").
BatchReadsFinalWav ==
  batch # "none" => wav = "final" /\ live["mic"] # "live"

\* A running mic is always held by somebody: no interleaving of the bootstrap,
\* stop and teardown threads drops the last reference to it.  That its holder
\* gets to stop it before the process ends is MicStopsBeforeExit.
MicIsNeverOrphaned == live["mic"] = "live" => own["mic"] # "none"

\* Nothing keeps transcribing or cleaning for a session that has ended: a
\* cancel between the dispatch and its idle callback starts no upload.
NoWorkAfterTheEnd ==
  state \in Terminal =>
    /\ batch \notin {"streaming", "clientless"}
    /\ cleanup # "streaming"

\* A session folder that is moved to the trash holds no transcript: no text was
\* ever shown or delivered (presenter.py: had_content "never resets").
TrashHoldsNoText ==
  trashed => /\ view.stage = "none" /\ view.liveText = "empty"
             /\ sent.result = "none"

\* No handler, in any order of late results and commands, asks the state
\* machine for a transition it refuses (InvalidTransition would escape from an
\* idle callback and leave the session where it was).
TransitionsAreAllowed == [][state' # state => state' \in Allowed[state]]_vars

\* Once the session has ended the screen and what was delivered stay as they
\* are, though deltas and results are still queued (test_session.py:204).
NothingAfterTheEnd == [][(state \in Terminal) => UNCHANGED <<view, sent>>]_vars

\* The dictation the user was promised.
Promise == INSTANCE Dictation WITH
  heard   <- view.liveText = "words",
  text    <- IF view.stage = "none" THEN "nothing"
             ELSE IF view.whole THEN view.stage ELSE "partial",
  result  <- sent.result,
  verdict <- sent.verdict

\* Every behaviour of the threads and callbacks is a dictation as promised.
KeepsThePromise == Promise!Spec

\* At the end the screen agrees with what was delivered (see Dictation).
OutcomeStands == Promise!OutcomeStands

\* A dictation that was stopped comes to an end: some result, or a failure.
WorkEnds == (state \in Working) ~> (state \in Terminal \/ ~Running)

\* The lock is given back once nothing records, so the next dictation can start.
LockIsFreed ==
  (state \in Working \cup Terminal) ~> (live["lock"] # "live" \/ ~Alive)

\* A preview the bootstrap publishes while recording stops is stopped too.
PreviewIsStopped ==
  (state = "TRANSCRIBING") ~> (live["ws"] # "live" \/ state = "CANCELLED" \/ ~Running)

-----------------------------------------------------------------------------
(* What the sources claim, and the code does not keep                      *)

\* session.py:1259 "so self._client is populated before we dispatch batch".
BatchHasClient == batch # "clientless"

\* session.py:786 "Stop audio synchronously ... MUST complete before Python
\* shutdown": no cancelled session leaves the process with a live stream.
MicStopsBeforeExit == phase = "gone" /\ state = "CANCELLED" => live["mic"] # "live"

\* session.py:529 "Escape-during-startup doesn't leave a half-wired client
\* behind": once its threads are through, a cancelled session streams nothing.
CancelLeavesNoPreview ==
  Running /\ state = "CANCELLED" /\ boot \in {"off", "done", "dead"} /\ jobs = {}
    => live["ws"] # "live"

=============================================================================
