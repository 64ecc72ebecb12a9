------------------------------ MODULE Recorder ------------------------------
(***************************************************************************)
(* The meeting recorder (meeting/app.py, ui.py, compress.py): a countdown, *)
(* a recording, and a stop thread that stops the capture, frees the lock,  *)
(* has ffmpeg write recording.opus, checks it and trashes the WAV.  The    *)
(* main loop's handlers run between the stop thread's steps; the stop      *)
(* thread talks back by idles, which run in order.  Time to the end of the *)
(* countdown is left out: it may end whenever it runs.                     *)
(***************************************************************************)
EXTENDS Capture

CONSTANT MaxIdles     \* bound: idles queued before a user event is ignored

VARIABLES
  app,        \* the process: "up", "quitting" (quit called), "gone"
  stage,      \* "countdown", then "recording"
  main,       \* what the main loop is in: its handlers, or a step of _initialize
  idles,      \* callbacks posted with GLib.idle_add, in order
  made,       \* the app has its DualStreamCapture (_capture)
  dir,        \* the session directory exists
  lock,       \* the recorder's lock is held
  stopping,   \* _stopping
  compressing,\* _compress_running
  abort,      \* _compress_abort
  done,       \* _session_done
  thread,     \* the stop thread
  mine,       \* the stop thread took a capture from the app
  ffmpeg,     \* "off", "running", and how it exited: "ok", "bad"
  outcome,    \* the compression's result
  wav,        \* recording.wav: "none", "there", "trashed"
  opus,       \* recording.opus: "none", "partial", "full"
  button,     \* the window's button: "none", "stop", "off", "close"
  banner,     \* an error is shown
  polling,    \* the error poll is scheduled
  spawned     \* workbenches started for the session

uiVars == <<button, banner, polling>>
flagVars == <<stopping, compressing, abort, done>>
fileVars == <<dir, wav, opus>>
threadVars == <<thread, mine, ffmpeg, outcome>>
appVars == <<app, stage, main, spawned>>
recorderVars == <<captureVars, appVars, idles, made, lock, flagVars, threadVars,
                  fileVars, uiVars>>

ThreadSteps == {"off", "grab", "halt", "mic", "sys", "finalize", "release", "weigh",
  "launch", "ffmpeg", "trash", "settle", "report", "show", "end"}

RecorderTypeOK ==
  /\ CaptureTypeOK
  /\ app \in {"up", "quitting", "gone"}
  /\ stage \in {"countdown", "recording"}
  /\ main \in {"loop", "sink", "mic", "sys", "attach"}
  /\ idles \in Seq({"init", "compressing", "error", "done", "finalize"})
  /\ {made, dir, lock, mine} \subseteq BOOLEAN
  /\ {stopping, compressing, abort, done} \subseteq BOOLEAN
  /\ thread \in ThreadSteps
  /\ ffmpeg \in {"off", "running", "ok", "bad"}
  /\ outcome \in {"none", "success", "failed", "aborted", "crashed"}
  /\ wav \in {"none", "there", "trashed"}
  /\ opus \in {"none", "partial", "full"}
  /\ button \in {"none", "stop", "off", "close"}
  /\ {banner, polling} \subseteq BOOLEAN
  /\ spawned \in Nat

RecorderInit ==
  /\ CaptureInit
  /\ app = "up" /\ stage = "countdown" /\ main = "loop"
  /\ spawned = 0
  /\ idles = <<>>
  /\ made = FALSE /\ lock = FALSE
  /\ stopping = FALSE /\ compressing = FALSE /\ abort = FALSE /\ done = FALSE
  /\ thread = "off" /\ mine = FALSE /\ ffmpeg = "off" /\ outcome = "none"
  /\ dir = FALSE /\ wav = "none" /\ opus = "none"
  /\ button = "none" /\ banner = FALSE /\ polling = FALSE

Post(msg) == idles' = Append(idles, msg)

\* A handler of the main loop may run.
Handling == app = "up" /\ main = "loop"

\* The user may act before _initialize has run, so it does not count.
UserActs ==
  /\ Handling
  /\ \/ Len(idles) < MaxIdles
     \/ Len(idles) = MaxIdles /\ Head(idles) = "init"

-----------------------------------------------------------------------------
(* The countdown.                                                          *)

\* The last tick, or Enter and Space: the window is built and _initialize
\* waits for the loop to be idle.
CountdownEnds ==
  /\ Handling /\ stage = "countdown"
  /\ stage' = "recording"
  /\ button' = "stop"
  /\ Post("init")
  /\ UNCHANGED <<captureVars, app, main, spawned, made, lock, flagVars,
                 threadVars, fileVars, banner, polling>>

\* Cancel, Escape, the window's close or a signal: back to the welcome screen.
CancelCountdown ==
  /\ Handling /\ stage = "countdown"
  /\ app' = "quitting"
  /\ UNCHANGED <<captureVars, stage, main, spawned, idles, made, lock,
                 flagVars, threadVars, fileVars, uiVars>>

-----------------------------------------------------------------------------
(* _initialize: one idle, in which the main loop handles nothing else.  The *)
(* stop thread does run beside it.                                         *)

\* _show_fatal
Fatal == banner' = TRUE /\ button' = "off" /\ main' = "loop"

InitLock ==
  /\ app # "gone" /\ main = "loop"
  /\ idles # <<>> /\ Head(idles) = "init"
  /\ idles' = Tail(idles)
  /\ \/ \* the lock is taken, or the directory cannot be made
        /\ Fatal
        /\ UNCHANGED <<lock, dir, made>>
     \/ \* debug.log cannot be opened: nothing catches that, nothing is shown
        /\ lock' = TRUE /\ dir' = TRUE
        /\ UNCHANGED <<made, main, button, banner>>
     \/ /\ lock' = TRUE /\ dir' = TRUE /\ made' = TRUE
        /\ main' = "sink"
        /\ UNCHANGED <<button, banner>>
  /\ UNCHANGED <<captureVars, app, stage, spawned, flagVars, threadVars,
                 wav, opus, polling>>

\* A step of capture.start failed: the lock is freed, the capture kept.
InitFails ==
  /\ lock' = FALSE
  /\ Fatal
  /\ UNCHANGED <<app, stage, spawned, idles, made, flagVars, threadVars,
                 dir, opus, polling>>

InitGoesOn(next) ==
  /\ main' = next
  /\ UNCHANGED <<app, stage, spawned, idles, made, lock, flagVars,
                 threadVars, dir, opus, uiVars>>

\* The default sink is resolved, then the file opened.
InitOpen ==
  /\ app # "gone" /\ main = "sink"
  /\ \/ InitFails /\ UNCHANGED <<wavVars, wav>>
     \/ InitGoesOn("mic") /\ OpenWav /\ wav' = "there"
  /\ UNCHANGED <<readerVars, writer, hand, halt>>

\* pw-cat not found is a CaptureError and finalizes the file; any other failure
\* to start it leaves the file open.  The other stream is not stopped.
InitStream(s, next) ==
  /\ app # "gone" /\ main = s
  /\ \/ /\ InitFails
        /\ Finalize \/ UNCHANGED wavVars
        /\ UNCHANGED readerVars
     \/ /\ InitGoesOn(next)
        /\ StartStream(s)
        /\ UNCHANGED wavVars
  /\ UNCHANGED <<writer, hand, halt, wav>>

\* The writer starts, the window is attached, the error poll scheduled; unless
\* the stop thread has taken the capture, whose absence crashes the rest.
InitAttach ==
  /\ app # "gone" /\ main = "attach"
  /\ StartWriter
  /\ UNCHANGED <<readerVars, halt, wavVars, wav>>
  /\ \/ ~made /\ InitFails
     \/ /\ made
        /\ main' = "loop"
        /\ polling' = TRUE
        /\ UNCHANGED <<app, stage, spawned, idles, made, lock, flagVars,
                       threadVars, dir, opus, button, banner>>

PollMicErrors ==      \* mutant: the other stream is not asked
  /\ Handling /\ polling
  /\ IF stopping \/ ~made
     THEN polling' = FALSE /\ UNCHANGED banner
     ELSE /\ lost["mic"]
          /\ banner' = TRUE
          /\ UNCHANGED polling
  /\ UNCHANGED <<captureVars, appVars, idles, made, lock, flagVars, threadVars,
                 fileVars, button>>

\* _check_errors, each half second while the app has its capture.
PollErrors ==
  /\ Handling /\ polling
  /\ IF stopping \/ ~made
     THEN polling' = FALSE /\ UNCHANGED banner
     ELSE /\ \E s \in Streams : lost[s]
          /\ banner' = TRUE
          /\ UNCHANGED polling
  /\ UNCHANGED <<captureVars, appVars, idles, made, lock, flagVars, threadVars,
                 fileVars, button>>

-----------------------------------------------------------------------------
(* What the user and the system ask for.                                   *)

\* _request_stop: the first starts the stop thread, a later one aborts a running
\* compression, one on the done screen posts the end.
RequestStop ==
  /\ IF done
     THEN Post("finalize") /\ UNCHANGED <<stopping, abort, button, polling, thread>>
     ELSE IF stopping
     THEN /\ abort' = (abort \/ compressing)
          /\ UNCHANGED <<idles, stopping, button, polling, thread>>
     ELSE /\ stopping' = TRUE /\ thread' = "grab"
          /\ button' = "off" /\ polling' = FALSE
          /\ UNCHANGED <<abort, idles>>
  /\ UNCHANGED <<compressing, done, mine, ffmpeg, outcome, banner>>

\* The button, which a disabled state keeps from the click; Escape.
StopClicked ==
  /\ UserActs /\ stage = "recording" /\ button \in {"stop", "close"}
  /\ RequestStop
  /\ UNCHANGED <<captureVars, appVars, made, lock, fileVars>>

EscapePressed ==
  /\ UserActs /\ stage = "recording"
  /\ RequestStop
  /\ UNCHANGED <<captureVars, appVars, made, lock, fileVars>>

\* A signal: the header first.  Its handler is gone after it.
Signalled ==
  /\ UserActs /\ stage = "recording"
  /\ IF made THEN RewriteHeader ELSE UNCHANGED wavVars
  /\ RequestStop
  /\ UNCHANGED <<readerVars, writer, hand, halt, appVars, made, lock, fileVars>>

\* close-request.  While the stop thread runs and nothing is compressed the
\* handler lets GTK destroy the window, and with it the application.
WindowClosed ==
  /\ UserActs /\ stage = "recording"
  /\ \/ /\ done \/ ~stopping \/ compressing
        /\ RequestStop
        /\ UNCHANGED app
     \/ /\ ~done /\ stopping /\ ~compressing
        /\ app' = "quitting"
        /\ UNCHANGED <<idles, flagVars, threadVars, uiVars>>
  /\ UNCHANGED <<captureVars, stage, main, spawned, made, lock, fileVars>>

-----------------------------------------------------------------------------
(* Idles the stop thread posts.                                            *)

RunIdle ==
  /\ app # "gone" /\ main = "loop"
  /\ idles # <<>> /\ idles' = Tail(idles)
  /\ UNCHANGED <<captureVars, stage, main, made, lock, flagVars, threadVars,
                 fileVars, polling>>

MarkCompressing ==
  /\ RunIdle /\ Head(idles) = "compressing"
  /\ button' = "off"
  /\ UNCHANGED <<app, spawned, banner>>

ShowError ==
  /\ RunIdle /\ Head(idles) = "error"
  /\ banner' = TRUE
  /\ UNCHANGED <<app, spawned, button>>

MarkDone ==
  /\ RunIdle /\ Head(idles) = "done"
  /\ button' = IF app = "up" THEN "close" ELSE button
  /\ UNCHANGED <<app, spawned, banner>>

\* _finalize_app: the workbench for a session that is done, then quit.
FinalizeApp ==
  /\ RunIdle /\ Head(idles) = "finalize"
  /\ spawned' = IF done /\ dir THEN spawned + 1 ELSE spawned
  /\ app' = "quitting"
  /\ button' = "none"
  /\ UNCHANGED banner

-----------------------------------------------------------------------------
(* _stop_thread.                                                           *)

At(step) == app # "gone" /\ thread = step

\* Steps that touch the capture alone.
Stopping(step, next) ==
  /\ At(step) /\ thread' = next
  /\ UNCHANGED <<mine, ffmpeg, outcome, appVars, idles, made, lock, flagVars,
                 fileVars, uiVars>>

Grab ==
  /\ At("grab")
  /\ mine' = made /\ made' = FALSE
  /\ thread' = IF made THEN "halt" ELSE "release"
  /\ UNCHANGED <<captureVars, ffmpeg, outcome, appVars, idles, lock, flagVars,
                 fileVars, uiVars>>

Halt ==
  /\ Stopping("halt", "mic")
  /\ halt' = TRUE
  /\ UNCHANGED <<readerVars, writer, hand, wavVars>>

TellMic ==
  /\ Stopping("mic", "sys")
  /\ TellStream("mic")
  /\ UNCHANGED <<writer, hand, halt, wavVars>>

TellMicOnly ==      \* mutant: the system stream is left to itself
  Stopping("sys", "finalize") /\ UNCHANGED captureVars

\* The system stream's reader exists once start() has opened the file.
TellSys ==
  /\ Stopping("sys", "finalize")
  /\ IF fd = "none" THEN UNCHANGED readerVars ELSE TellStream("sys")
  /\ UNCHANGED <<writer, hand, halt, wavVars>>

\* The writer, too, is waited for no longer than 3 s, and may still run.
FinalizeWav ==
  /\ Stopping("finalize", "release")
  /\ Finalize
  /\ UNCHANGED <<readerVars, writer, hand, halt>>

ReleaseLock ==
  /\ At("release") /\ thread' = "weigh"
  /\ lock' = FALSE
  /\ UNCHANGED <<captureVars, mine, ffmpeg, outcome, appVars, idles, made, flagVars,
                 fileVars, uiVars>>

\* Nothing recorded: straight to the end.  Otherwise the window is told, an
\* earlier abort is cleared and the compression begins.
Weigh ==
  /\ At("weigh")
  /\ IF dir /\ mine /\ track # <<>>
     THEN /\ Post("compressing")
          /\ abort' = FALSE /\ compressing' = TRUE
          /\ thread' = "launch"
     ELSE /\ Post("finalize")
          /\ thread' = "end"
          /\ UNCHANGED <<abort, compressing>>
  /\ UNCHANGED <<captureVars, mine, ffmpeg, outcome, appVars, made, lock, stopping,
                 done, fileVars, uiVars>>

\* The rest of compress_meeting_wav changes these alone.
Compress(step, next) ==
  /\ At(step) /\ thread' = next
  /\ UNCHANGED <<captureVars, mine, appVars, idles, made, lock, flagVars, dir, uiVars>>

LaunchFfmpeg ==
  \/ /\ Compress("launch", "ffmpeg")
     /\ ffmpeg' = "running" /\ opus' = "partial"
     /\ UNCHANGED <<outcome, wav>>
  \/ \* ffmpeg not found, or not to be run: only the first is caught
     /\ Compress("launch", "settle")
     /\ outcome' \in {"failed", "crashed"}
     /\ UNCHANGED <<ffmpeg, opus, wav>>

\* ffmpeg, which outlives the recorder: it fails, or exits well having written
\* all of the recording or not.
FfmpegExits ==
  /\ ffmpeg = "running"
  /\ \/ ffmpeg' = "bad" /\ UNCHANGED opus
     \/ ffmpeg' = "ok" /\ opus' \in {"partial", "full"}
  /\ UNCHANGED <<captureVars, thread, mine, outcome, appVars, idles, made, lock,
                 flagVars, dir, wav, uiVars>>

\* The poll loop sees the abort, perhaps when ffmpeg has just ended: ffmpeg is
\* stopped and its output removed, if that can be.
AbortFfmpeg ==
  /\ Compress("ffmpeg", "settle")
  /\ ffmpeg # "off" /\ abort
  /\ ffmpeg' = "off" /\ opus' \in {"none", opus} /\ outcome' = "aborted"
  /\ UNCHANGED wav

VerifyTrustsExit ==      \* mutant: a clean exit is enough
  /\ Compress("ffmpeg", IF ffmpeg = "ok" THEN "trash" ELSE "settle")
  /\ ffmpeg \in {"ok", "bad"}
  /\ outcome' = IF ffmpeg = "ok" THEN "success" ELSE "failed"
  /\ UNCHANGED <<ffmpeg, opus, wav>>

\* The exit code, then the duration ffprobe reads: only a whole file passes, as
\* if no difference were tolerated, and ffprobe may fail on that too.
VerifyOpus ==
  /\ ffmpeg \in {"ok", "bad"}
  /\ \/ /\ Compress("ffmpeg", "trash")
        /\ ffmpeg = "ok" /\ opus = "full"
        /\ outcome' = "success"
     \/ /\ Compress("ffmpeg", "settle")
        /\ outcome' = "failed"
  /\ UNCHANGED <<ffmpeg, opus, wav>>

\* _trash_file, whose failure is only logged.
TrashWav ==
  /\ Compress("trash", "settle")
  /\ wav' \in {"trashed", wav}
  /\ UNCHANGED <<ffmpeg, opus, outcome>>

Settle ==
  /\ At("settle") /\ thread' = "report"
  /\ compressing' = FALSE
  /\ UNCHANGED <<captureVars, mine, ffmpeg, outcome, appVars, idles, made, lock,
                 stopping, abort, done, fileVars, uiVars>>

ReportForgets ==      \* mutant: an abort is not passed on to the main loop
  /\ At("report")
  /\ IF outcome \in {"aborted", "crashed"}
     THEN thread' = "end" /\ UNCHANGED <<idles, done>>
     ELSE done' = TRUE /\ thread' = "show" /\ UNCHANGED idles
  /\ UNCHANGED <<captureVars, mine, ffmpeg, outcome, appVars, made, lock, stopping,
                 compressing, abort, fileVars, uiVars>>

\* An abort or a crash ends the app; everything else is done, then shown.
Report ==
  /\ At("report")
  /\ IF outcome \in {"aborted", "crashed"}
     THEN Post("finalize") /\ thread' = "end" /\ UNCHANGED done
     ELSE done' = TRUE /\ thread' = "show" /\ UNCHANGED idles
  /\ UNCHANGED <<captureVars, mine, ffmpeg, outcome, appVars, made, lock, stopping,
                 compressing, abort, fileVars, uiVars>>

ShowDone ==
  /\ At("show") /\ thread' = "end"
  /\ idles' = idles \o IF outcome = "success" THEN <<"done">> ELSE <<"error", "done">>
  /\ UNCHANGED <<captureVars, mine, ffmpeg, outcome, appVars, made, lock, flagVars,
                 fileVars, uiVars>>

StopThread ==
  \/ Grab \/ Halt \/ TellMic \/ TellSys \/ FinalizeWav \/ ReleaseLock \/ Weigh
  \/ LaunchFfmpeg \/ AbortFfmpeg \/ VerifyOpus \/ TrashWav \/ Settle \/ Report
  \/ ShowDone

-----------------------------------------------------------------------------
(* The end of the process, and the whole.                                  *)

Ended ==
  /\ app' = "gone"
  /\ proc' = [s \in Streams |-> FALSE]
  /\ UNCHANGED <<reader, told, heard, queue, lost, writer, hand, halt, wavVars,
                 stage, main, spawned, idles, made, lock, flagVars, threadVars,
                 fileVars, uiVars>>

\* The main loop has returned: the daemon threads end where they are, and the
\* streams with their pipes.
Exit == app = "quitting" /\ Ended

\* kill -9, a power loss, or a second signal, which nothing handles.
Kill == app # "gone" /\ Ended

\* A step of the capture's threads or processes.
Beside(step) ==
  /\ app # "gone"
  /\ step
  /\ UNCHANGED <<appVars, idles, made, lock, flagVars, threadVars, fileVars, uiVars>>

CaptureRuns ==
  Beside(WriterStep) \/ \E s \in Streams : Beside(ReaderStep(s)) \/ Beside(ProcDies(s))

InitializeSteps ==
  InitLock \/ InitOpen \/ InitStream("mic", "sys") \/ InitStream("sys", "attach")
    \/ InitAttach

IdleSteps == MarkCompressing \/ ShowError \/ MarkDone \/ FinalizeApp

UserSteps ==
  CountdownEnds \/ CancelCountdown \/ StopClicked \/ EscapePressed \/ Signalled
    \/ WindowClosed

RecorderNext ==
  InitializeSteps \/ PollErrors \/ UserSteps \/ IdleSteps \/ StopThread
    \/ FfmpegExits \/ CaptureRuns \/ Exit \/ Kill

\* The main loop dispatches what is ready, the stop thread runs on, ffmpeg ends.
\* A reader or a writer need not run, and nobody has to stop a recording.
RecorderFairness ==
  /\ WF_recorderVars(InitializeSteps)
  /\ WF_recorderVars(PollErrors)
  /\ WF_recorderVars(IdleSteps)
  /\ WF_recorderVars(StopThread)
  /\ WF_recorderVars(FfmpegExits)
  /\ WF_recorderVars(Exit)

RecorderSpec == RecorderInit /\ [][RecorderNext]_recorderVars /\ RecorderFairness

-----------------------------------------------------------------------------

\* Whatever fails, aborts or is killed, what was recorded is on disk: the WAV,
\* with the header it has then (HeaderIsHonest), or a whole opus that was verified
\* against it (compress.py:14).
AudioSurvives == track # <<>> => wav = "there" \/ opus = "full"

\* When the stop thread goes on to compress, everything has been told to stop:
\* both streams have ended, even if the stop overtook the start, and the file is
\* closed with its full length (app.py:343-376, capture.py:374).
CompressFollowsStop ==
  compressing =>
    /\ fd = "closed" /\ header = Len(track)
    /\ halt
    /\ \A s \in Streams : told[s] /\ ~proc[s]

\* What ffmpeg reads stays as it is: a reader or a writer that outlived its
\* join, a late signal or a late start changes nothing in the WAV any more
\* (capture.py:264, 382, audio.py:110-155, app.py:466-478).
WavIsFrozen == [][compressing => UNCHANGED wavVars]_recorderVars

\* The done screen always ends up with a button that closes it (ui.py:266-275).
DoneOffersClose ==
  app = "up" /\ done /\ thread = "end" /\ (\A i \in DOMAIN idles : idles[i] # "done")
    => button = "close"

\* A recording that was asked to end reaches a done screen that can be closed, or
\* the end of the process, whatever the compression does (app.py:313-400).
StopEnds == stopping ~> (done /\ button = "close") \/ app = "gone"

\* A stream that ends by itself is reported while the recording goes on
\* (app.py:250-257, capture.py:392).
LostStreamIsShown ==
  (\E s \in Streams : lost[s]) /\ polling ~> banner \/ stopping \/ app # "up"

=============================================================================
