# A TLA+ model of Voxize

Voxize is a push-to-talk dictation program: a headless backend records the
microphone, shows a live transcript, and after Stop sends the recording to a
batch transcription and the transcript to a cleanup model; a GTK or a terminal
frontend draws what the backend says over a pipe. A separate meeting recorder
captures the microphone and the system sound for hours.

This directory specifies the parts of it that do several things at once:

* the backend's session and its threads (`backend/session.py`), the microphone
  lock (`lock.py`) and volume ducking (`ducking.py`);
* the pipe between backend and frontend, the rules of its client, and the two
  frontends with the copies they make (`frontend/`, `tui/`, `gui/`, `clipboard.py`);
* the meeting recorder, from the two sound streams to the compressed file
  (`meeting/capture.py`, `app.py`, `compress.py`, `audio.py`);
* the workbench in which a recorded meeting is transcribed, titled and edited
  (`meeting/process_app.py`, `process_ui.py`, `transcribe.py`, `titling.py`).

Paths below are relative to `src/voxize/` of the repository.

## 1. The system

| part | state | operations | who it talks to |
|---|---|---|---|
| **Session** `backend/session.py` | a state machine (`state.py`), the references `_audio`, `_transcription`, `_lock`, `_client`, the flags `_bootstrap_cancelled`, `_bootstrap_done`, `_closed`, the transcript, the batch and cleanup workers | `start`, `stop`, `cancel`, `close`, `on_signal`; idle callbacks; threads voxize-bootstrap, voxize-stop, voxize-teardown | everything below |
| **Microphone lock** `lock.py` | a file, its flock | `acquire`, `release` | other instances, through the file system |
| **Ducking** `ducking.py` | `_snapshot`, `_active`, a lock; the volumes of PipeWire's streams | `duck`, `restore`, `restore_sync` | other sessions, through the volumes |
| **Audio capture** `audio.py`, `opus.py` | the stream, the WAV file and its header, the Opus encoder | `start`, `stop`, `finalize_wav`, the audio callback | session, live preview |
| **Live preview** `transcribe.py` | an asyncio loop on a thread, a send queue, stop flags | `start`, `send_audio`, `stop`, `cancel` | posts deltas and errors to the main loop |
| **Batch, cleanup** `batch.py`, `cleanup.py` | a worker thread, a cancel flag, the text so far | `start`, `cancel` | post deltas, completion, error |
| **Presenter** `backend/presenter.py` | `Transcript` (stage, text, had_content); `Pipeline` (progress estimate) | `add`, `replace`; `arm`, `upload`, `delta`, `tick` | session |
| **Server** `backend/server.py`, `protocol.py` | the line buffer, closing and exited flags | stdin watch, dispatch, signals, exit | session, frontend |
| **Client rules** `frontend/client.py`, `frontend/pipe.py` | hello, failed, closed; buffers, EOF, finished | `handle`, `fail`, `close`, `hang_up`, hello deadline | server, GUI and TUI |
| **Frontends** `gui/`, `tui/` | widgets; copy, paste, countdown | draw, deliver | client rules, `clipboard.py` |
| **Meeting recorder** `meeting/capture.py`, `meeting/app.py` | two bounded queues, writer thread, WAV; stopping, compress, done flags | start, stop, close, signal; stop and compress thread | its own lock |
| **Meeting processing** `meeting/compress.py`, `transcribe.py`, `titling.py`, `process_app.py` | ffmpeg child, worker threads | compress, abort, transcribe, title | storage |
| **Storage** `storage.py` | session folders | create, prune | session, meeting |
| configuration, checks, recovery script, mock providers, mode switcher, SDK patches | read once, or test doubles | | |

How they interact, and where it is hard:

* The backend has one GLib main loop. Commands, timers and signals are sources
  with a higher priority than `GLib.idle_add`, which the threads use to post
  results. So a **command can overtake any result that is already queued**, and
  every callback finds the state as it is then, not as it was when it was posted.
* The **bootstrap** thread (imports of about two seconds, mic, client, preview)
  publishes into attributes that the main loop, the **stop** and the **teardown**
  threads take away and set to None. Cancellation is a flag that the bootstrap
  looks at between steps.
* All threads are daemons: when the main loop ends, they die where they are.
* Between processes there are two shared things: the lock file and the volumes.

What makes each part correct: while a recording is shown, the mic and the lock
are really held (Session); the batch reads a finished file (Session, audio);
the screen, the clipboard and the reported failure agree at the end (Session,
presenter); at most one instance records (lock); volumes come back (ducking);
nothing is dispatched after close and an error is never painted over (server,
client rules); the meeting file is complete whatever the window does (meeting).

## 2. The modules

| module | models | by |
|---|---|---|
| `Dictation` | what a dictation promises its user | 5 variables, no threads |
| `Session` | `backend/session.py` with what it sees of its providers | one action per command, callback and thread step |
| `MCSession` | instance of `Session` | sets of faults |
| `SessionProofs`, `SessionBatchProofs`, `PromiseProofs` | theorems about `Session`, and that it implements `Dictation` | |
| `MicLock`, `MCMicLock`, `MicLockProofs` | `lock.py`, any number of instances | |
| `Ducking`, `MCDucking`, `DuckingProofs` | `ducking.py`, any sessions and streams | |
| `Capture` | `meeting/capture.py` and the WAV file of `audio.py` | one action per step of a reader, the writer or a process |
| `Recorder`, `RecorderProofs` | `meeting/app.py`, `ui.py`, `compress.py`, around `Capture` | handlers of the window, steps of `_initialize`, of the stop thread |
| `TagEntry` | the key-terms entry of `meeting/process_ui.py` | one operator per key or click |
| `Workbench`, `WorkbenchProofs` | `process_app.py`, `process_ui.py`, `transcribe.py`, `titling.py`, `sessions.py`, with `TagEntry` | handlers, the transcription thread and its request, title threads |
| `Wire` | `backend/server.py`, `protocol.py`, `frontend/pipe.py`, `client.py`, `state.py` | the backend is an instance of `Dictation` that writes events |
| `Card` | what either frontend shows (`tui/card.py`, `gui/ui.py`) | one operator per event |
| `Tui` | `tui/app.py`, `tui/deliver.py` | keys, the copies at their lock, leaving, signals |
| `Gui` | `gui/app.py`, `gui/ui.py`, `clipboard.py` | buttons, focus, idles, closing, signals |
| `Frontend`, `FrontendProofs` | `Wire`, `Card`, `Tui` and `Gui` composed, and its theorems | |

### Session

A main-loop callback is one action: nothing else runs on the main loop, and the
threads do not look into the middle of one. A thread is cut where another can
see or change what it reads. `loop` is the queue of idle sources in order.

| code | model |
|---|---|
| `StateMachine.transition` and `_on_state_change` | `Reach(new, q)`: the new state, what it queues, what it stops |
| `_audio`, `_transcription`, `_lock` | `own[r]`: who holds the reference (bootstrap, session, stop thread, a teardown thread, nobody) |
| the stream, the socket, the flock themselves | `live[r]`: absent, new, live, ended |
| `audio.wav` | `wav`: none, open (placeholder header), final |
| `_bootstrap_cancelled`, `_bootstrap_done` | `cancelled`, `bootDone` |
| `_bootstrap_providers` | `BootBegin` ... `BootFinish`, one per checkpoint or publication |
| `_stop_and_batch` | `StopMic`, `AwaitBoot`, `StopPreview` |
| `_teardown_async`, `_teardown_blocking` | `Abandon`, `Teardown(job)` |
| batch and cleanup workers | `batch`, `cleanup` and `BatchDelta` ... `CleanupFails` |
| `Transcript` | `view`: the stage shown, whether it is a whole text, what the preview said, had_content |
| `result`, `failure`, `no_speech` events | `sent` |
| the process | `phase`: running, leaving (the loop has quit), gone |

A text is one of empty, blank and words: more the code never distinguishes.
`Faults` is the set of failures that may happen: a failing startup check, a busy
lock, no folder or key, an unwritable recovery script, an import, the mic, the
client, the preview, `audio.stop`, a bootstrap longer than 10 s, batch, cleanup.
A provider streams at most `MaxPosts` texts.

`Session` implements `Dictation` (`KeepsThePromise`) under the mapping at
`Promise`: `heard` is "the preview said words", `text` is the stage of the screen
if it shows a whole text, else "partial".

A cancelled worker counts as ended at once: in the code it goes on to its next
chunk, and what it posts until then the main loop drops like a text queued before.

Left out of `Session`: the cost report and usage counters, the warm-up pings,
the level, progress and stall timers, mock mode, and three branches the code
cannot reach (a preview error in INITIALIZING, a blank transcript in
`_begin_cleanup`, a missing recording in `_start_batch`).

### MicLock

`acquire` is `Open` (create or open the path) and `Lock` (flock without
waiting); `release` is `Unlock` and `Unlink`; `Crash` is the end of a process at
any point in between. A file is named after the instance that created it. An
instance takes the lock once, as a backend process does.

### Ducking

The three threads of a session (duck, unduck, and the main thread in
`restore_sync`) take `lock`, and step through the nodes one `wpctl` call at a
time; each call may fail. The snapshot is committed in the step that begins the
work, as in the code. `due` (what was lowered and not put back since) and
`turns` (who had the lock, in order) are history variables for the properties.
The snapshot is in memory only: `Recoverable` is about calls that fail, not about a
process that dies, which takes its snapshot along.
A session starts to capture only when no other does; that is the mic lock.

### Capture and Recorder

Per stream: a pw-cat process (`proc`), a reader thread (`reader`, cut between the
test for a full queue, the drop of the oldest block and the put, where the writer
can take another), its queue, and whether it ended by itself (`lost`). The writer takes a block from
each queue or silence when none came in time, and appends the pair. A block is
its number in its stream, so that order, loss and repetition can be seen.

| code | model |
|---|---|
| `_initialize`, one main-loop callback, beside which the threads run | `main` and `InitLock`, `InitOpen`, `InitStream`, `InitAttach` |
| `_stop_thread` | `thread`, one step for each call another thread can see |
| `GLib.idle_add` of the stop thread | `idles`, in order |
| `_request_stop` for the button, Escape, close, a signal | `RequestStop` in `StopClicked`, `EscapePressed`, `WindowClosed`, `Signalled` |
| `compress_meeting_wav` | `LaunchFfmpeg`, `FfmpegExits`, `AbortFfmpeg`, `VerifyOpus`, `TrashWav` |
| `WavWriter` | `fd`, `track`, `header` with `OpenWav`, `WriteWav`, `RewriteHeader`, `Finalize` |

`capture.stop` waits at most 3 s for a reader and 3 s for the writer and goes on
without them (`capture.py:264`, `382`). So no step of the stop thread waits for
another thread here: a reader or writer may still be anywhere in its loop when the
file is finalized and compressed, and runs on beside that.

What ffmpeg wrote is "partial" or "full"; the duration that ffprobe reads is only
accepted for "full", as if the code tolerated no difference. `Kill` may happen at
any step. Left out: meters, the elapsed time, always-on-top.

The model has these behaviours of the code, which no text in the repository
denies or promises: blocks that are still queued at a stop are not written
(`capture.py:376`); silence for a late block shifts that channel against the
other; when the system stream cannot start, the mic's pw-cat runs on
(`capture.py:320`); a debug log that cannot be opened leaves a window that says
Recording while nothing is recorded (`app.py:205`); a crash of the compression
(an ffmpeg that may not be executed) ends the app without a workbench; an abort
whose output cannot be removed, and a failed compression, leave a partial opus
beside the WAV; two presses of Close can start two workbenches (`app.py:320`);
a close in the middle of a stop ends the process with the WAV's last sizes, which
`AudioSurvives` counts as a recording that survived.

### TagEntry and Workbench

A transcript is a version number, which a transcription or a rename makes new;
files hold versions, or key terms, or nothing. `tmp` is the set of files whose
`.tmp` exists, which the transcription thread and the window share. The request
runs on a thread of its own (`http`), which an abort no longer waits for.
`Reopen` ends the process at any moment and builds a new window from the files;
there are at most `MaxOpens` of them.

`TagEntry` has the list, the selection and the text as variables and every key
and click as an operator. `EditTags` saves the settings with each change. The save
is the callback that ends the change, it may raise (`process_ui.py:842-844`), and
nobody catches that: `RemovalRaises` is a removal left there, with the list shorter,
the file as it was and the selection not corrected, so that it may be past the end;
a key that then needs the selected term fails or deselects. The history variable
`unsaved` says whether the last change of the terms could not be saved.
`SpinSpeakers` saves the same file, and the run's `Replace` too: either of them
makes up for a failure.

Left out: the number of speakers in the settings, the list of sessions, playing,
copying, error bars and progress; of a title only whether there is one, its save
being one step that is taken or not. Again in the model and in the code: a keyring
that fails kills the transcription thread and leaves the window busy for good
(`transcribe.py:176`; `AbortEndsRun` says so); a title left at "Generating..." is
saved as that if the debounce fires, and a failed generation wipes the title; a
failure between the three results leaves a new text beside the old details.
Not in the model: two renames in the same second share one backup name, and two
workbenches on one session.

### Wire, Card, Tui, Gui and Frontend

The backend is `Dictation`, the promise that `Session` is shown to keep
(`KeepsThePromise`): each of its steps writes the events that the session's
handlers write, in their order, to a pipe of `PipeSize`, and a command from stdin
makes it move. So the two halves meet at one module: `Session` implements it,
`Frontend` relies on it, and only on it. `Starts`, `Streams`, `PreviewLost`, `BatchDone`, `FailBatch`,
`CleanupDone`, `CleanupError` are the handlers; `BackendReads` is a command or
EOF; `BackendDies` is a crash, which may cut the last handler's events short.

The frontend's rules are functions from a connection to a connection (`Handle`,
`Fail`, `CloseConn`, `HangUp`, `AtEof`, `CheckHello`), as `ClientCore` is a class
without I/O. `Card` maps an event to the card it leaves; a text on it is known by
where it comes from, and appending to anything but the stream garbles it. `Tui`
adds the coroutines at the clipboard's lock (`tasks`, first in first out), the
question, the leave that waits for the last copy, signals, and what is printed.
`Gui` adds the focus, the copy that waits for it (`pending`), the idles, the
default button, the close that hands a waiting copy to wl-copy.

Left out: level, progress, stalled, cost, context and session events, logs, the
modals that only show, timers, meters and layout, paste; a malformed line; a
display call that fails inside the idle of a copy. A backend that hangs before
its hello is outlived by nobody: the deadline ends the frontend, but fairness does
not make such a backend read its EOF.

## 3. The runs

| run | instance | distinct states | shows |
|---|---|---|---|
| `session` | 2 texts per provider, every fault but `stop` and `slow_boot` | 442,349 | 13 properties below |
| `miclock` | 4 interchangeable instances | 674 | no stale lock, overlap only after a release |
| `ducking` | 2 sessions, 2 streams, failing tools | 777,107 | recoverable snapshots, completed restores, shutdown ends |
| `recorder` | 2 blocks in all, queues of 1, 1 waiting idle | 855,226 | channels in order, an honest header, a recording that survives and is left alone once stopped; stop ends |
| `workbench` | 2 key terms, 2 transcripts and terms in all, 2 openings, 1 title thread | 2,453,272 | files, window and thread agree, with saves that raise; no text is lost; abort ends |
| `frontend` | a pipe of 3 events, 1 waiting command, both frontends | 306,363 | screen, clipboard and stdout say what the backend said; nobody waits for the dead |
| `session_client` | 1 text, no faults | violation | batch can be dispatched without a client |
| `session_exit` | 1 text, no faults | violation | a cancelled session can exit with the mic running |
| `session_escape` | 1 text, no faults | violation | a cancel can leave a preview running |
| `miclock_race` | 3 instances | violation | two instances can hold the lock |
| `ducking_race` | 1 session, 1 stream, no failures | violation | restore can run before duck |
| `ducking_overlap` | 2 sessions, 1 stream, no failures | violation | a snapshot can hold the duck volume |

Properties of `session`:

* `CaptureIsExclusive` -- while WARMING or RECORDING is shown the session itself
  holds a live mic and the lock.
* `BatchReadsFinalWav` -- the upload starts after the file is finished.
* `MicIsNeverOrphaned` -- no interleaving drops the last reference to a live mic.
* `NoWorkAfterTheEnd` -- no batch or cleanup runs for a session that ended.
* `TrashHoldsNoText` -- a trashed folder never had a transcript.
* `OutcomeStands` -- READY: the screen is what was delivered, or the announced
  stand-in for it.
* `TransitionsAreAllowed`, `NothingAfterTheEnd` -- action properties: no illegal
  transition is ever asked for; after the end nothing is shown or delivered.
* `KeepsThePromise` -- refinement of `Dictation`.
* `WorkEnds`, `LockIsFreed`, `PreviewIsStopped` -- liveness.

Properties of `recorder`:

* `HeaderIsHonest` -- the WAV's header never promises more than there is, and is
  exact once the file is closed, though the writer, a signal on the main loop, a
  failed start and the stop thread all write it.
* `ChannelsKeepOrder` -- no block twice or out of order, with drops and padding.
* `AudioSurvives` -- the WAV or a verified opus, whatever fails.
* `CompressFollowsStop` -- when ffmpeg is started both streams have been ended and
  the file is closed with its full length, also when the stop began while
  `_initialize` was still starting streams. The threads may still run.
* `WavIsFrozen` -- an action property: while the recording is compressed nobody
  touches it, be it a reader or a writer that outlived the 3 s its join waited, a
  signal that rewrites the header, or a start that is still under way.
* `StopEnds`, `LostStreamIsShown` -- liveness: each stop comes to a done screen with
  its Close button or to the end of the process; a stream that ended by itself to a
  banner.

Properties of `workbench`, each of which relates a file to what the window or the
thread believes of it, or the list of terms to the selection in it, across runs,
renames, aborts, failed saves and restarts:

* `AbortedRunChangesNothing` -- an aborted run has moved no result into place (the
  title, which the user may type meanwhile, is not one).
* `ViewIsCurrent` -- the preview and the rename rows are the file's.
* `ThreadOwnsItsTmp` -- the `.tmp` the thread moves is its own.
* `ParamsFileIsWindow` -- the settings on disk are the window's, unless the last
  change of the key terms could not be saved. With a failing save they differ in the
  code; the property says that this ends with the next save or the next opening.
* `SelectionIsATerm` -- an action property: the selection is past the end of the
  list only after a removal that could not be saved, and only until the next key or
  click that touches the list or the selection.
* `NoTextLost` -- a transcript gives way only to the run that started from it, or
  has been put into a backup.
* `AbortEndsRun` -- liveness.
* `WorkbenchTypeOK` includes that the key terms stay distinct.

Properties of `frontend`:

* `ReadyShowsOutcome` -- the card of a READY dictation shows what the backend
  holds with the notice that explains it; only a transcript can be copied.
* `CleanedIsNotOvertaken` -- neither a slow clipboard tool nor a copy that waited
  for the focus puts the batch text over the cleaned one, but for a user who
  copies between two idles, and then the cleaned one is still to come.
* `PrintsOnlyTheOutcome` -- what the terminal frontend prints is the outcome, and
  a signal prints nothing, even while the last copy delays the exit.
* `NobodyIsLeftWaiting` -- liveness: a dead or silent backend is reported, a
  cancelled dictation closes its frontend, a frontend that ends frees the backend.

**Bounds.** Two texts per provider give: no text, a first text that replaces the
stage before it, and one more text of the same stage; further ones repeat the
last case, since a callback looks only at whether the stage changes. The queue
needs no bound: each thread posts a bounded number of tasks. Four lock instances
are one more than the smallest overlap needs. Two streams let a call fail
between two others; two sessions are the shortest overlap.
Two blocks from the two streams together and queues of one let a queue overflow,
drop while the writer takes, and pad; they are two of one channel, whose order can
then break, or one of each, which make a pair. A user acts only while no idle waits
but the countdown's (`MaxIdles`), so a stop can overtake that one and its thread run
beside `_initialize`. The theorems of `RecorderProofs` lift the safety properties to
any number and depth.
Transcripts and key terms are bounded together when one is added (`MaxKept`),
since no property needs many of both: two transcripts are a text and its
replacement, by a run, a rename or both; two terms give the list a first and a
last one; one of each is enough for what a run does with the settings. Two
openings are a restart. `WorkbenchProofs` lifts the safety properties to any
number of either. Three events hold the longest burst of a handler (text, failure,
state), so the frontend may be as far behind as a whole handler; a full pipe makes
the backend wait, as a blocking write does.
The `session` run leaves out two faults on purpose. With `stop` a raising
`audio.stop` leaves the placeholder header (`BatchReadsFinalWav` is then false,
and nothing says it should hold); with `slow_boot` the stop thread goes on after
10 s and the bootstrap may publish a preview later (`PreviewIsStopped` is false).
Both are listed as hazards.

**Fairness.** `Fairness` of `Session`: the main loop serves its idle sources and
the warming timer (a 5 s timeout ends WARMING), threads that can run do, the
process leaves once its loop quit, and a provider ends a request, with a result
or an error, because the SDK's calls have timeouts. Nothing is assumed of the
user, of signals, of delays, or of texts arriving. `Ducking`: threads run and a
tool call ends within its 2 s timeout. `Recorder`: the main loop runs its idles
and polls, the stop thread and ffmpeg run on; of the readers and the writer
nothing is assumed, and nobody has to stop a recording. `Workbench`:
the transcription thread and idles run; nothing is assumed of the service.
`Frontend`: pipes are read, the hello deadline fires, clipboard tools end by their
time-outs; nothing is assumed of the backend but that it reads its stdin once it
is up. `Session`, `MicLock`, `Ducking` and `Recorder` all stop for good after
their last process has ended; `Session` says so with `Finished`, the other runs
switch the deadlock check off. `Frontend` may rest for good only in `AtRest`.

**Violations.** Each of the six states what a comment or a document says, and is
false in the code: see `findings` in PROJECT.json.
* `session_client`: Stop while the client is being built. `_begin_transcribing`
  sets the flag that makes the bootstrap drop the client for which the stop
  thread then waits.
* `session_exit`: close while the bootstrap is inside `audio.start`; the CANCELLED
  handler finds `_audio` None.
* `session_escape`: cancel after the last checkpoint; the teardown's `cancel` comes
  before `start`, which resets the stop flag, or finds no preview at all.
* `miclock_race`: A holds, B opens, A unlinks, B locks the nameless file, C
  creates a new one and locks that.
* `ducking_race`: the unduck thread gets the lock first, and the streams stay
  lowered until the `restore_sync` of the close.
* `ducking_overlap`: the lock of the mic is free before the volumes are back.

## 4. What is proved

For every value of the constants, checked by TLAPS:

| theorem | statement |
|---|---|
| `SessionTypes` | `Spec => []TypeOK` |
| `CaptureHoldsMicAndLock` | `Spec => []CaptureIsExclusive` |
| `TransitionsStayLegal` | `Spec => TransitionsAreAllowed` |
| `TheEndIsFinal` | `Spec => NothingAfterTheEnd` |
| `BatchGetsTheRecording` | `"stop" \notin Faults` gives `Spec => []BatchReadsFinalWav` |
| `MicAlwaysHasAnOwner` | `"stop" \notin Faults` gives `Spec => []MicIsNeverOrphaned` |
| `NobodyWorksAfterTheEnd` | `Spec => []NoWorkAfterTheEnd` |
| `SessionKeepsThePromise` | `Spec => KeepsThePromise`: the refinement of `Dictation` |
| `OutcomeAlwaysStands`, `TrashIsEmpty` | `Spec => []OutcomeStands`, `Spec => []TrashHoldsNoText` |
| `LockTypes`, `LocksAreNeverStale`, `ExclusionUntilRelease`, `RefusalsAreTrue` | the three properties of `MicLock`, and that a refusal is true (`RefusalIsTrue`) |
| `DuckTypes`, `SnapshotsRecover`, `RestoringIsComplete` | the three safety properties of `Ducking` |
| `RecorderTypes`, `RecordingSurvives`, `WavIsReadable`, `BlocksInOrder`, `CompressionFindsRest`, `RecordingIsFrozen`, `DoneScreenCloses` | `RecorderTypeOK`, `AudioSurvives`, `HeaderIsHonest`, `ChannelsKeepOrder`, `CompressFollowsStop`, `WavIsFrozen`: all safety properties of `Recorder`; and `DoneOffersClose`, that a done screen is left with its Close button |
| `WorkbenchTypes`, `AbortIsClean`, `WindowShowsTheFile`, `TmpIsTheThreads`, `SettingsAreTheWindows`, `SelectionStaysATerm`, `TextsAreKept` | all safety properties of `Workbench` |
| `FrontendTypes`, `ReadyIsTheOutcome`, `PrintsTheOutcome`, `CleanedStays` | `FrontendTypeOK`, `ReadyShowsOutcome`, `PrintsOnlyTheOutcome`, `CleanedIsNotOvertaken`: all safety properties of `Frontend` |

The assumptions are those named in the modules: `MaxPosts` is a natural number,
`Faults` is a set of known faults (any: `stop` and `slow_boot` too), `None` is no
instance, `ToolsFail` is a Boolean, `MaxBlocks` is a natural number and
`QueueDepth` a positive one, the empty text is no key term, the workbench's
bounds are positive, and the pipe's are natural numbers. Two theorems assume in their statement that
stopping the sound stream does not raise: the code only logs it when it does, and
both are false then.

*Capture.* `CaptureIsExclusive` is not inductive: it says who has the mic, not
who could take it. `OwnInv` adds: who has the mic follows from where the
bootstrap is (`BootOwns`); a posted "enter warming" means the mic was published
and a posted mic error means there is none (`MicErrorIsLast`), so the two cannot
both be waiting; a teardown thread owns what it has left to stop, and no two
share anything (`JobsOwn`); what is held is on (`HeldIsLive`); and a session that
has not left its first states has given nothing away (`StartKeeps`,
`CaptureKeeps`). The proof goes by commands, bootstrap steps, threads, and idle
callbacks; the last rest on lemmas about taking the head of the queue and
appending to it.

*The upload and the mic.* `BatchInv` adds to `OwnInv` what the stop thread has
done: `begin_transcribing` waits at most once, never before the stop, and finds
the mic in the session's hands (`BeginsOnce`); the stop thread's first step is
ahead exactly while it owns the mic, after it the file is final, and the upload is
asked for only later (`StopperOwns`). All steps but six (the stop, its callback,
the opening and publishing of the mic, the stop thread, the start of the upload)
are `Calm`: they give up what the session has and post nothing that counts, and
one lemma covers them. `WorkInv` says the same of the workers: each is started by
a task that waits once, has ended when its result waits, and is cancelled by the
only transition that leaves it at work.

*Transitions and the end.* Both follow from one lemma on what any step does to
`state`, `view` and `sent`, given `TypeOK` and `OwnInv`.

*The promise.* `PromiseInv` adds to `WorkInv` what the screen owes, and it all
comes down to one order: a worker queues its deltas before its result, so when the
result runs they all have. A transcript with words has them on the screen or on
their way there (`BatchShown`), which is why nothing that is trashed held a text;
it stands whole until the first cleaned word replaces it (`CleanShown`); what was
delivered follows from the state (`Delivered`). Most steps are `Still`: they move
no text and deliver nothing, and one lemma maps them to a step of `Dictation` or
to a stutter. The callbacks that do move a text have a lemma each, which names the
action of `Dictation` that they are.

*Lock.* `OneFile` is the strengthening: until somebody unlinks, all open
descriptors are of the file the path names, so flock excludes.

*Ducking.* `DuckInv`: the thread inside is the lock's holder (`LockInv`); what it
has to do is in the snapshot, and a restorer has all that is due still to do
(`WorkInv`); threads not asked for do not run (`CallsInv`). `TurnsInv` adds that a
thread has one turn and the one inside had the last, so the duck thread lowers
nothing after a restorer's turn.

*Recorder.* Five invariants, each inductive given those before it. `Types` adds to
the types that a reader which has dropped a block has room for the next
(`DropLeavesRoom`): that bounds the queue. `AudioInv`: no ffmpeg before its
launch, a trashed WAV only for a whole opus that no ffmpeg writes any more.
`HeaderIsHonest` needs nothing more. `OrderInv` follows a block on its way: in
each stream what is in the file, in the writer's hand and in the queue is
increasing in that order, and all of it comes before the block a reader holds
(`Latest`). For the stop, `StartInv` says how far the start has come (no track
without a writer, no writer without both streams and the file, one `_initialize`
ever), and `StopInv` what each step of the stop thread has brought to rest: it
stays so, because only a start could undo it and a start that has not reached
the writer finds the writer halted and leaves the file empty (`Quiet`). For the
button, `DoneInv`: the done screen is the last thing the stop thread posts, behind
the one that disables the button, and a fatal error cannot come after it, because
by then the writer had started and with it the start was over.

*Workbench.* One invariant (`WorkbenchInv`) with a part per property: while a run
is on, the window shows nothing and edits nothing, so the thread's copy of the
terms is the window's and its `.tmp` its own; until the first result is moved the
files are those the run started with, and so is the text the first result replaces.
Of a change that could not be saved the invariant knows that what the file then
holds is still a list of distinct terms (`FileIsDistinct`), from which the next window
is built. `SelectionIsATerm` follows from a lemma on the keys and clicks
(`SelectionStep`): each ends, wherever the selection was before, with one among the
terms or none.

*Frontend.* What a card shows depends on events that are still in the pipe, so the
invariants speak of both. `DictInv` is what a dictation's state says of its result
and verdict. `TextInv`: a text to be added finds, or will find, a text of the same
stage on the card, and none is on its way when the screen is emptied. `EndInv`:
READY comes last; a failure, "no speech" or the cleaned result has nothing but
READY behind it; and the reader has been told, or will be before READY, all that
READY stands for (`Told`). To show that the backend keeps these, its handlers are
first summed up in what one of them may write (`Script`). A READY card then stays
as it is, which gives the printed text (`PrintInv`). For the copies, `LineInv`:
each frontend has one queue of copies, no batch copy waits behind a cleaned one at
the terminal's lock, and a window that has written or queued the cleaned text has
no other one waiting for the focus. `WordInv`: once the cleaned text is out, no
result is still to be read and every batch copy among the idles has a cleaned one
behind it; and READY is not read before the cleaned text is out. `WordInv` needs
`EndInv` for that, since a READY card can be copied from again.

Before they were proved, the invariants of `Frontend` were checked by TLC on all
states of the `frontend` run.

Only model-checked: the liveness properties `WorkEnds`, `LockIsFreed`,
`PreviewIsStopped`, `ShutdownEnds`, `StopEnds`, `LostStreamIsShown`,
`AbortEndsRun` and `NobodyIsLeftWaiting`, because fairness is out of the prover's
reach. What is safety in `StopEnds`, that a done screen is left with its button, is
proved (`DoneScreenCloses`). Every invariant and every action property that a run checks is a theorem.
Two of them, for a `Faults` without `stop`, are false with it, as said above.

## 5. Plan

Done: `Session` and `Dictation`, `MicLock`, `Ducking`, `Capture` and `Recorder`,
`TagEntry` and `Workbench`, `Wire` to `Frontend`, and the theorems for their safety
properties. Next, in this order:

1. Safety properties under the liveness ones: what is stuck is only ever waiting
   for a step that fairness gives it.
2. `Progress`: `Pipeline`'s estimate as an operator over event sequences.
3. `Preview`: the asyncio session of `transcribe.py`, its send queue, stop against
   connect.
4. The dictation's audio callback with the signal's `finalize_wav`, on `Capture`'s
   file.

## 6. Not modelled

* Drawing: widgets, layout, meters, timers, styles; `scripts/` draws screenshots.
* Prompts, prices, usage reports, context files: data without a state to explore.
* `storage.py`: directory names and pruning by date, calls in a row that keep no
  state; what may fail of them is an input of `Session` and `Recorder`.
* Configuration, checks and secrets: read once at startup, failures are inputs.
* The recovery script: writes a shell script once; its failure is an input.
* Mode switching: one menu whose effect on a dictation is a close with trash.
* Mock providers and the patches of a third-party SDK.
* The progress estimate, the live preview's asyncio session and the Opus encoder:
  in the plan.
