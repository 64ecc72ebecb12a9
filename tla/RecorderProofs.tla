--------------------------- MODULE RecorderProofs ---------------------------
(* The meeting recorder, for any number of blocks and any queue.            *)
EXTENDS Recorder, TLAPS

\* A reader that has dropped a block has room for the next one.
DropLeavesRoom ==
  \A s \in Streams : reader[s] = "dropping" => Len(queue[s]) < QueueDepth

-----------------------------------------------------------------------------
(* Types                                                                   *)

\* What RecorderTypeOK says of the variables of its own module.
AppTypeOK ==
  /\ app \in {"up", "quitting", "gone"}
  /\ stage \in {"countdown", "recording"}
  /\ main \in {"loop", "sink", "mic", "sys", "attach"}
  /\ idles \in Seq({"init", "compressing", "error", "done", "finalize"})
  /\ {made, dir, lock, mine} \subseteq BOOLEAN
  /\ {stopping, compressing, abort, done} \subseteq BOOLEAN
  /\ thread \in ThreadSteps
  /\ ffmpeg \in {"off", "running", "ok", "bad"}
  /\ outcome \in {"none", "success", "failed", "aborted", "crashed"}
  /\ wav \in {"none", "there", "trashed"}
  /\ opus \in {"none", "partial", "full"}
  /\ button \in {"none", "stop", "off", "close"}
  /\ {banner, polling} \subseteq BOOLEAN
  /\ spawned \in Nat

Types == CaptureTypeOK /\ DropLeavesRoom /\ AppTypeOK

\* Every variable has its type at the start.
LEMMA TypeInit == RecorderInit => Types
<1> SUFFICES ASSUME RecorderInit PROVE Types
  OBVIOUS
<1>1. 0 \in Blocks /\ Len(<<>>) = 0 /\ <<>> \in Seq(Blocks)
  BY CaptureAssumption DEF Blocks
<1>2. queue = [s \in Streams |-> <<>>] /\ reader = [s \in Streams |-> "off"]
  BY DEF RecorderInit, CaptureInit
<1>3. DropLeavesRoom /\ \A s \in Streams : Len(queue[s]) <= QueueDepth
  BY <1>1, <1>2, CaptureAssumption DEF DropLeavesRoom
<1>4. CaptureTypeOK
  <2>1. /\ proc \in [Streams -> BOOLEAN] /\ told \in [Streams -> BOOLEAN]
        /\ lost \in [Streams -> BOOLEAN]
        /\ reader \in [Streams -> {"off", "reading", "full", "dropping", "ended"}]
    BY DEF RecorderInit, CaptureInit
  <2>2. heard \in [Streams -> Blocks] /\ hand \in [Streams -> Blocks]
    BY <1>1 DEF RecorderInit, CaptureInit, Silence
  <2>3. queue \in [Streams -> Seq(Blocks)]
    BY <1>1, <1>2
  <2>4. track \in Seq([Streams -> Blocks])
    BY DEF RecorderInit, CaptureInit
  <2>5. header = Placeholder /\ halt = FALSE /\ fd = "none" /\ writer = "off"
    BY DEF RecorderInit, CaptureInit
  <2> QED
    BY <1>3, <2>1, <2>2, <2>3, <2>4, <2>5 DEF CaptureTypeOK
<1>5. AppTypeOK
  <2>1. idles = <<>> /\ spawned = 0 /\ thread = "off"
    BY DEF RecorderInit
  <2>2. /\ {made, dir, lock, mine} \subseteq BOOLEAN
        /\ {stopping, compressing, abort, done} \subseteq BOOLEAN
        /\ {banner, polling} \subseteq BOOLEAN
    BY DEF RecorderInit
  <2>3. /\ idles \in Seq({"init", "compressing", "error", "done", "finalize"})
        /\ spawned \in Nat /\ thread \in ThreadSteps
    BY <2>1 DEF ThreadSteps
  <2>4. /\ app = "up" /\ stage = "countdown" /\ main = "loop"
        /\ ffmpeg = "off" /\ outcome = "none" /\ wav = "none" /\ opus = "none"
        /\ button = "none"
    BY DEF RecorderInit
  <2> QED
    BY <2>2, <2>3, <2>4 DEF AppTypeOK
<1> QED
  BY <1>3, <1>4, <1>5 DEF Types

\* The steps of the capture's threads and processes keep the types.
LEMMA CaptureStep ==
  ASSUME CaptureTypeOK, DropLeavesRoom,
         WriterStep \/ \E s \in Streams : ReaderStep(s) \/ ProcDies(s)
  PROVE  CaptureTypeOK' /\ DropLeavesRoom'
<1> USE DEF CaptureTypeOK, DropLeavesRoom, wavVars, readerVars
<1>1. ASSUME NEW s \in Streams, Read(s) PROVE CaptureTypeOK' /\ DropLeavesRoom'
  <2>1. heard[s] + 1 \in Blocks
    BY <1>1, CaptureAssumption DEF Read, Delivering, Streams, Blocks
  <2>2. /\ queue'[s] \in Seq(Blocks) /\ Len(queue'[s]) <= QueueDepth
        /\ reader'[s] = "dropping" => Len(queue'[s]) < QueueDepth
    <3>1. CASE Len(queue[s]) < QueueDepth
      <4>1. /\ queue'[s] = Append(queue[s], heard[s] + 1)
            /\ reader'[s] # "dropping"
        BY <1>1, <3>1, CaptureAssumption DEF Read
      <4>2. Len(queue[s]) \in Nat /\ queue[s] \in Seq(Blocks)
        OBVIOUS
      <4>3. queue'[s] \in Seq(Blocks) /\ Len(queue'[s]) = Len(queue[s]) + 1
        BY <2>1, <4>1, <4>2
      <4> QED
        BY <3>1, <4>1, <4>2, <4>3, CaptureAssumption
    <3>2. CASE Len(queue[s]) >= QueueDepth
      BY <1>1, <3>2, CaptureAssumption DEF Read
    <3> QED
      BY <3>1, <3>2, CaptureAssumption
  <2>3. /\ heard' = [heard EXCEPT ![s] = heard[s] + 1]
        /\ \A r \in Streams \ {s} : queue'[r] = queue[r] /\ reader'[r] = reader[r]
        /\ queue' = [queue EXCEPT ![s] = queue'[s]]
        /\ reader' = [reader EXCEPT ![s] = reader'[s]]
        /\ reader'[s] \in {"reading", "full", "ended"}
    BY <1>1 DEF Read
  <2>4. queue' \in [Streams -> Seq(Blocks)] /\ heard' \in [Streams -> Blocks]
    BY <2>1, <2>2, <2>3
  <2>5. reader' \in [Streams -> {"off", "reading", "full", "dropping", "ended"}]
    BY <2>3
  <2>6. \A r \in Streams : Len(queue'[r]) <= QueueDepth
    BY <2>2, <2>3
  <2>7. DropLeavesRoom'
    BY <2>2, <2>3
  <2> QED
    BY <1>1, <2>4, <2>5, <2>6, <2>7 DEF Read
<1>2. ASSUME NEW s \in Streams, PutAfterDrop(s) PROVE CaptureTypeOK' /\ DropLeavesRoom'
  <2>1. /\ Append(queue[s], heard[s]) \in Seq(Blocks)
        /\ Len(Append(queue[s], heard[s])) <= QueueDepth
    BY <1>2, CaptureAssumption DEF PutAfterDrop
  <2> QED
    BY <1>2, <2>1 DEF PutAfterDrop
<1>8. ASSUME NEW s \in Streams, DropOldest(s) PROVE CaptureTypeOK' /\ DropLeavesRoom'
  <2>1. /\ reader' = [reader EXCEPT ![s] = "dropping"]
        /\ queue' = [queue EXCEPT ![s] = queue'[s]]
        /\ queue'[s] = IF queue[s] = <<>> THEN queue[s] ELSE Tail(queue[s])
    BY <1>8 DEF DropOldest
  <2>2. queue'[s] \in Seq(Blocks) /\ Len(queue'[s]) < QueueDepth
    <3>1. CASE queue[s] = <<>>
      BY <2>1, <3>1, CaptureAssumption
    <3>2. CASE queue[s] # <<>>
      <4>1. Len(Tail(queue[s])) = Len(queue[s]) - 1 /\ Tail(queue[s]) \in Seq(Blocks)
        BY <3>2
      <4>2. Len(queue[s]) \in Nat /\ Len(queue[s]) <= QueueDepth
        OBVIOUS
      <4> QED
        BY <2>1, <3>2, <4>1, <4>2, CaptureAssumption
    <3> QED
      BY <3>1, <3>2
  <2>3. \A r \in Streams : Len(queue'[r]) <= QueueDepth
    <3>1. \A r \in Streams : r # s => queue'[r] = queue[r]
      BY <2>1
    <3>2. Len(queue'[s]) <= QueueDepth
      BY <2>2, CaptureAssumption
    <3> QED
      BY <3>1, <3>2
  <2> QED
    BY <1>8, <2>1, <2>2, <2>3 DEF DropOldest
<1>3. ASSUME NEW s \in Streams, ReadEnds(s) PROVE CaptureTypeOK' /\ DropLeavesRoom'
  BY <1>3 DEF ReadEnds
<1>4. ASSUME NEW s \in Streams, ProcDies(s) PROVE CaptureTypeOK' /\ DropLeavesRoom'
  BY <1>4 DEF ProcDies
<1>5. ASSUME NEW s \in Streams, TakeBlock(s)
      PROVE  /\ hand' \in [Streams -> Blocks] /\ queue' \in [Streams -> Seq(Blocks)]
             /\ \A r \in Streams : Len(queue'[r]) <= Len(queue[r])
  <2>1. CASE queue[s] = <<>>
    <3>1. hand' = [hand EXCEPT ![s] = Silence] /\ queue' = queue
      BY <1>5, <2>1 DEF TakeBlock
    <3>2. Silence \in Blocks /\ \A r \in Streams : Len(queue[r]) \in Nat
      BY CaptureAssumption DEF Silence, Blocks
    <3> QED
      BY <3>1, <3>2
  <2>2. CASE queue[s] # <<>>
    <3>1. /\ Head(queue[s]) \in Blocks /\ Tail(queue[s]) \in Seq(Blocks)
          /\ Len(Tail(queue[s])) <= Len(queue[s])
      BY <2>2
    <3>2. /\ hand' = [hand EXCEPT ![s] = Head(queue[s])]
          /\ queue' = [queue EXCEPT ![s] = Tail(queue[s])]
      BY <1>5, <2>2 DEF TakeBlock
    <3>3. \A r \in Streams : Len(queue[r]) \in Nat
      OBVIOUS
    <3> QED
      BY <3>1, <3>2, <3>3
  <2> QED
    BY <2>1, <2>2
<1>6. CASE TakeMic \/ TakeSys
  <2>1. /\ hand' \in [Streams -> Blocks] /\ queue' \in [Streams -> Seq(Blocks)]
        /\ \A r \in Streams : Len(queue'[r]) <= Len(queue[r])
    BY <1>5, <1>6 DEF TakeMic, TakeSys, Streams
  <2>2. writer' \in {"mic", "sys", "ready", "done"}
    BY <1>6 DEF TakeMic, TakeSys, LoopTop
  <2>3. \A r \in Streams : Len(queue[r]) \in Nat /\ Len(queue'[r]) \in Nat
    BY <2>1
  <2> QED
    BY <1>6, <2>1, <2>2, <2>3, CaptureAssumption DEF TakeMic, TakeSys
<1>7. CASE WritePair
  <2>1. track' \in Seq([Streams -> Blocks])
    BY <1>7 DEF WritePair, WriteWav
  <2>2. header' \in {Placeholder} \cup Nat
    BY <1>7, <2>1 DEF WritePair, Rewritten
  <2>3. hand' \in [Streams -> Blocks]
    BY <1>7, CaptureAssumption DEF WritePair, Silence, Blocks
  <2> QED
    BY <1>7, <2>1, <2>2, <2>3 DEF WritePair, WriteWav, LoopTop
<1> QED
  BY <1>1, <1>2, <1>3, <1>4, <1>6, <1>7, <1>8 DEF WriterStep, ReaderStep

\* What the app does to the capture keeps the capture's types: a stream that is
\* told or started,
LEMMA StreamCalls ==
  ASSUME CaptureTypeOK, DropLeavesRoom, UNCHANGED <<writer, hand, halt, wavVars>>,
         NEW s \in Streams, StartStream(s) \/ TellStream(s)
  PROVE  CaptureTypeOK' /\ DropLeavesRoom'
<1> USE DEF CaptureTypeOK, DropLeavesRoom, wavVars
<1>1. /\ proc' \in [Streams -> BOOLEAN] /\ told' \in [Streams -> BOOLEAN]
      /\ reader' \in [Streams -> {"off", "reading", "full", "dropping", "ended"}]
      /\ \A r \in Streams : reader'[r] = "dropping" => reader[r] = "dropping"
  BY DEF StartStream, TellStream
<1> QED
  BY <1>1 DEF StartStream, TellStream

\* a file that is opened, rewritten or closed,
LEMMA FileCalls ==
  ASSUME CaptureTypeOK, DropLeavesRoom, UNCHANGED <<readerVars, writer, hand, halt>>,
         OpenWav \/ RewriteHeader \/ Finalize
  PROVE  CaptureTypeOK' /\ DropLeavesRoom'
<1> USE DEF CaptureTypeOK, DropLeavesRoom, readerVars
<1>1. Len(track) \in Nat
  OBVIOUS
<1>2. track' \in Seq([Streams -> Blocks])
  <2>1. track' = <<>> \/ track' = track
    BY DEF OpenWav, RewriteHeader, Finalize
  <2>2. <<>> \in Seq([Streams -> Blocks]) /\ track \in Seq([Streams -> Blocks])
    OBVIOUS
  <2> QED
    BY <2>1, <2>2
<1>3. header' \in {Placeholder} \cup Nat /\ fd' \in {"none", "open", "closed"}
  BY <1>1 DEF OpenWav, RewriteHeader, Finalize, Rewritten
<1> QED
  BY <1>2, <1>3

\* or nothing at all.
LEMMA CaptureRests ==
  ASSUME CaptureTypeOK, DropLeavesRoom, UNCHANGED captureVars
  PROVE  CaptureTypeOK' /\ DropLeavesRoom'
BY DEF CaptureTypeOK, DropLeavesRoom, wavVars, readerVars, captureVars

\* The steps of _initialize keep the types.
LEMMA InitializeTypes == ASSUME Types, InitializeSteps PROVE Types'
<1> USE DEF Types
<1>1. CASE InitLock
  <2>1. CaptureTypeOK' /\ DropLeavesRoom'
    BY <1>1, CaptureRests DEF InitLock
  <2>2. idles' \in Seq({"init", "compressing", "error", "done", "finalize"})
    BY <1>1 DEF InitLock, AppTypeOK
  <2>3. /\ UNCHANGED <<flagVars, threadVars>>
        /\ {lock', dir', made', banner'} \subseteq BOOLEAN
    BY <1>1 DEF InitLock, AppTypeOK, Fatal
  <2> QED
    BY <1>1, <2>1, <2>2, <2>3 DEF InitLock, AppTypeOK, Fatal, flagVars, threadVars
<1>2. CASE InitOpen
  <2>1. CaptureTypeOK' /\ DropLeavesRoom'
    <3>1. CASE UNCHANGED wavVars
      BY <1>2, <3>1, CaptureRests DEF InitOpen, captureVars
    <3>2. CASE OpenWav
      BY <1>2, <3>2, FileCalls DEF InitOpen
    <3> QED
      BY <1>2, <3>1, <3>2 DEF InitOpen
  <2> QED
    BY <1>2, <2>1 DEF InitOpen, InitFails, InitGoesOn, AppTypeOK, Fatal, flagVars,
                     threadVars, uiVars
<1>3. ASSUME NEW s \in Streams, NEW next \in {"sys", "attach"}, InitStream(s, next)
      PROVE  Types'
  <2>1. CaptureTypeOK' /\ DropLeavesRoom'
    <3>1. CASE UNCHANGED readerVars /\ Finalize
      BY <1>3, <3>1, FileCalls DEF InitStream
    <3>2. CASE UNCHANGED readerVars /\ UNCHANGED wavVars
      BY <1>3, <3>2, CaptureRests DEF InitStream, captureVars
    <3>3. CASE StartStream(s) /\ UNCHANGED wavVars
      BY <1>3, <3>3, StreamCalls DEF InitStream
    <3> QED
      BY <1>3, <3>1, <3>2, <3>3 DEF InitStream
  <2> QED
    BY <1>3, <2>1 DEF InitStream, InitFails, InitGoesOn, AppTypeOK, Fatal, flagVars,
                     threadVars, uiVars
<1>4. CASE InitAttach
  <2>1. CaptureTypeOK' /\ DropLeavesRoom'
    BY <1>4 DEF InitAttach, StartWriter, LoopTop, CaptureTypeOK, DropLeavesRoom,
               wavVars, readerVars
  <2> QED
    BY <1>4, <2>1 DEF InitAttach, InitFails, AppTypeOK, Fatal, flagVars, threadVars
<1> QED
  BY <1>1, <1>2, <1>3, <1>4 DEF InitializeSteps, Streams

\* What the user and the system ask for keeps the types.
LEMMA UserTypes == ASSUME Types, UserSteps PROVE Types'
<1> USE DEF Types
<1> DEFINE Msgs == {"init", "compressing", "error", "done", "finalize"}
<1>1. CaptureTypeOK' /\ DropLeavesRoom'
  <2>1. CASE UNCHANGED captureVars
    BY <2>1, CaptureRests
  <2>2. CASE RewriteHeader /\ UNCHANGED <<readerVars, writer, hand, halt>>
    BY <2>2, FileCalls
  <2> QED
    BY <2>1, <2>2 DEF UserSteps, CountdownEnds, CancelCountdown, StopClicked,
       EscapePressed, Signalled, WindowClosed, captureVars
<1>2. idles \in Seq(Msgs)
  BY DEF AppTypeOK
<1>3. Append(idles, "init") \in Seq(Msgs) /\ Append(idles, "finalize") \in Seq(Msgs)
  BY <1>2
<1>4. CASE CountdownEnds \/ CancelCountdown
  BY <1>1, <1>3, <1>4 DEF CountdownEnds, CancelCountdown, Post, AppTypeOK, flagVars,
     threadVars, fileVars, uiVars
<1>5. ASSUME RequestStop
      PROVE  /\ idles' \in Seq(Msgs) /\ button' \in {"none", "stop", "off", "close"}
             /\ {stopping', compressing', abort', done'} \subseteq BOOLEAN
             /\ thread' \in ThreadSteps /\ mine' = mine /\ ffmpeg' = ffmpeg
             /\ outcome' = outcome /\ {banner', polling'} \subseteq BOOLEAN
  BY <1>2, <1>3, <1>5 DEF RequestStop, Post, AppTypeOK, ThreadSteps
<1>6. CASE StopClicked \/ EscapePressed \/ Signalled
  <2>1. RequestStop /\ UNCHANGED <<appVars, made, lock, fileVars>>
    BY <1>6 DEF StopClicked, EscapePressed, Signalled
  <2> QED
    BY <1>1, <1>5, <2>1 DEF AppTypeOK, appVars, fileVars
<1>7. CASE WindowClosed
  <2>1. CASE RequestStop /\ UNCHANGED app
    BY <1>1, <1>5, <1>7, <2>1 DEF WindowClosed, AppTypeOK, fileVars
  <2>2. CASE app' = "quitting" /\ UNCHANGED <<idles, flagVars, threadVars, uiVars>>
    BY <1>1, <1>7, <2>2 DEF WindowClosed, AppTypeOK, fileVars, flagVars, threadVars,
       uiVars
  <2> QED
    BY <1>7, <2>1, <2>2 DEF WindowClosed
<1> QED
  BY <1>4, <1>6, <1>7 DEF UserSteps

\* The idles the main loop runs keep the types, and so does the error poll.
LEMMA IdleTypes == ASSUME Types, IdleSteps \/ PollErrors PROVE Types'
<1> USE DEF Types
<1>1. CaptureTypeOK' /\ DropLeavesRoom'
  BY CaptureRests DEF IdleSteps, PollErrors, MarkCompressing, ShowError, MarkDone,
     FinalizeApp, RunIdle
<1>2. CASE PollErrors
  <2>1. banner' \in BOOLEAN /\ polling' \in BOOLEAN
    <3>1. banner' \in {TRUE, banner} /\ polling' \in {FALSE, polling}
      BY <1>2 DEF PollErrors
    <3> QED
      BY <3>1 DEF AppTypeOK
  <2> QED
    BY <1>1, <1>2, <2>1 DEF PollErrors, AppTypeOK, appVars, flagVars, threadVars, fileVars
<1>3. CASE IdleSteps
  <2>1. RunIdle
    BY <1>3 DEF IdleSteps, MarkCompressing, ShowError, MarkDone, FinalizeApp
  <2>2. idles' \in Seq({"init", "compressing", "error", "done", "finalize"})
    BY <2>1 DEF RunIdle, AppTypeOK
  <2>3. /\ app' \in {"up", "quitting", "gone"} /\ spawned' \in Nat
        /\ button' \in {"none", "stop", "off", "close"} /\ banner' \in BOOLEAN
    <3>1. /\ app' \in {app, "quitting"} /\ spawned' \in {spawned, spawned + 1}
          /\ button' \in {"none", "off", "close", button} /\ banner' \in {TRUE, banner}
      BY <1>3 DEF IdleSteps, MarkCompressing, ShowError, MarkDone, FinalizeApp
    <3>2. spawned \in Nat /\ banner \in BOOLEAN
      BY DEF AppTypeOK
    <3>3. app \in {"up", "quitting", "gone"} /\ button \in {"none", "stop", "off", "close"}
      BY DEF AppTypeOK
    <3>4. spawned' \in Nat
      BY <3>1, <3>2
    <3>5. banner' \in BOOLEAN
      BY <3>1, <3>2
    <3> QED
      BY <3>1, <3>3, <3>4, <3>5
  <2> QED
    BY <1>1, <2>1, <2>2, <2>3 DEF RunIdle, AppTypeOK, flagVars, threadVars, fileVars
<1> QED
  BY <1>2, <1>3

\* The stop thread keeps the types, up to the weighing of the recording
LEMMA StopTypes ==
  ASSUME Types,
         Grab \/ Halt \/ TellMic \/ TellSys \/ FinalizeWav \/ ReleaseLock \/ Weigh
  PROVE  Types'
<1> USE DEF Types
<1>1. CASE Grab \/ ReleaseLock \/ Weigh
  <2>1. CaptureTypeOK' /\ DropLeavesRoom'
    BY <1>1, CaptureRests DEF Grab, ReleaseLock, Weigh
  <2>2. idles' \in Seq({"init", "compressing", "error", "done", "finalize"})
    BY <1>1 DEF Grab, ReleaseLock, Weigh, Post, AppTypeOK
  <2> QED
    BY <1>1, <2>1, <2>2 DEF Grab, ReleaseLock, Weigh, AppTypeOK, appVars, flagVars,
       fileVars, uiVars, ThreadSteps
<1>2. CASE Halt \/ TellMic \/ TellSys \/ FinalizeWav
  <2>1. AppTypeOK'
    <3>1. PICK step, next \in ThreadSteps : Stopping(step, next)
      BY <1>2 DEF Halt, TellMic, TellSys, FinalizeWav, ThreadSteps
    <3> QED
      BY <3>1 DEF Stopping, AppTypeOK, appVars, flagVars, fileVars, uiVars
  <2>2. CASE Halt
    BY <2>1, <2>2 DEF Halt, CaptureTypeOK, DropLeavesRoom, readerVars, wavVars
  <2>3. CASE TellMic \/ TellSys
    <3>1. CASE UNCHANGED readerVars
      BY <2>1, <2>3, <3>1, CaptureRests DEF TellMic, TellSys, captureVars
    <3>2. CASE TellStream("mic") \/ TellStream("sys")
      BY <2>1, <2>3, <3>2, StreamCalls DEF TellMic, TellSys, Streams
    <3> QED
      BY <2>3, <3>1, <3>2 DEF TellMic, TellSys
  <2>4. CASE FinalizeWav
    BY <2>1, <2>4, FileCalls DEF FinalizeWav
  <2> QED
    BY <1>2, <2>2, <2>3, <2>4
<1> QED
  BY <1>1, <1>2

\* and from the launch of the compression on, with ffmpeg beside it.
LEMMA CompressionTypes ==
  ASSUME Types,
         LaunchFfmpeg \/ AbortFfmpeg \/ VerifyOpus \/ TrashWav \/ Settle \/ Report
           \/ ShowDone \/ FfmpegExits
  PROVE  Types'
<1> USE DEF Types
<1>1. CaptureTypeOK' /\ DropLeavesRoom'
  BY CaptureRests DEF LaunchFfmpeg, AbortFfmpeg, VerifyOpus, TrashWav, Settle, Report,
     ShowDone, FfmpegExits, Compress
<1>2. CASE LaunchFfmpeg \/ AbortFfmpeg \/ VerifyOpus \/ TrashWav
  BY <1>1, <1>2 DEF LaunchFfmpeg, AbortFfmpeg, VerifyOpus, TrashWav, Compress,
     AppTypeOK, appVars, flagVars, uiVars, ThreadSteps
<1>3. CASE Settle \/ Report \/ ShowDone
  <2>1. idles' \in Seq({"init", "compressing", "error", "done", "finalize"})
    <3>1. idles \in Seq({"init", "compressing", "error", "done", "finalize"})
      BY DEF AppTypeOK
    <3>2. CASE Settle \/ Report
      BY <3>1, <3>2 DEF Settle, Report, Post
    <3>3. CASE ShowDone
      <4> DEFINE more == IF outcome = "success" THEN <<"done">> ELSE <<"error", "done">>
      <4>1. more \in Seq({"init", "compressing", "error", "done", "finalize"})
        <5>1. <<"done">> \in Seq({"init", "compressing", "error", "done", "finalize"})
          OBVIOUS
        <5>2. <<"error", "done">> \in Seq({"init", "compressing", "error", "done", "finalize"})
          OBVIOUS
        <5> QED
          BY <5>1, <5>2
      <4>2. idles' = idles \o more
        BY <3>3 DEF ShowDone
      <4> QED
        BY <3>1, <4>1, <4>2
    <3> QED
      BY <1>3, <3>2, <3>3
  <2> QED
    BY <1>1, <1>3, <2>1 DEF Settle, Report, ShowDone, AppTypeOK, appVars, flagVars,
       fileVars, uiVars, ThreadSteps
<1>4. CASE FfmpegExits
  BY <1>1, <1>4 DEF FfmpegExits, AppTypeOK, appVars, flagVars, uiVars
<1> QED
  BY <1>2, <1>3, <1>4

\* The end of the process keeps the types.
LEMMA EndTypes == ASSUME Types, Ended PROVE Types'
<1>1. proc' \in [Streams -> BOOLEAN]
  BY DEF Ended
<1>2. CaptureTypeOK' /\ DropLeavesRoom'
  BY <1>1 DEF Ended, Types, CaptureTypeOK, DropLeavesRoom, wavVars
<1> QED
  BY <1>2 DEF Ended, Types, AppTypeOK, flagVars, threadVars, fileVars, uiVars

\* Every step keeps the types.
LEMMA TypeStep == Types /\ [RecorderNext]_recorderVars => Types'
<1> SUFFICES ASSUME Types, [RecorderNext]_recorderVars PROVE Types'
  OBVIOUS
<1>1. CASE CaptureRuns
  <2>1. CaptureTypeOK' /\ DropLeavesRoom'
    BY <1>1, CaptureStep DEF CaptureRuns, Beside, Types
  <2> QED
    BY <1>1, <2>1 DEF CaptureRuns, Beside, Types, AppTypeOK, appVars, flagVars,
       threadVars, fileVars, uiVars
<1>2. CASE UNCHANGED recorderVars
  <2>1. CaptureTypeOK' /\ DropLeavesRoom'
    BY <1>2, CaptureRests DEF Types, recorderVars
  <2> QED
    BY <1>2, <2>1 DEF recorderVars, Types, AppTypeOK, appVars, flagVars, threadVars,
       fileVars, uiVars
<1> QED
  BY <1>1, <1>2, InitializeTypes, UserTypes, IdleTypes, StopTypes, CompressionTypes,
     EndTypes DEF RecorderNext, StopThread, Exit, Kill

\* The types hold in every state.
LEMMA TypesHold == RecorderSpec => []Types
BY TypeInit, TypeStep, PTL DEF RecorderSpec

\* Every variable of the recorder keeps its type; above all no queue grows
\* past its depth, whoever drops its oldest block (capture.py:229-239).
THEOREM RecorderTypes == RecorderSpec => []RecorderTypeOK
<1>1. Types => RecorderTypeOK
  BY DEF Types, AppTypeOK, RecorderTypeOK
<1> QED
  BY <1>1, TypesHold, PTL

-----------------------------------------------------------------------------
(* The recording survives                                                  *)

Early == ThreadSteps \ {"ffmpeg", "trash", "settle", "report", "show", "end"}

\* What AudioSurvives rests on: the WAV exists while there is a track, ffmpeg
\* is off until it is launched, and the WAV is trashed only for a whole opus
\* that no ffmpeg writes any more.
AudioInv ==
  /\ thread # "off" => stopping
  /\ thread \in Early => ffmpeg = "off"
  /\ thread = "trash" => opus = "full" /\ ffmpeg = "ok"
  /\ wav = "trashed" => /\ opus = "full" /\ ffmpeg # "running"
                        /\ thread \in {"settle", "report", "show", "end"}
  /\ fd = "none" => track = <<>>
  /\ fd # "none" => wav # "none"

\* Steps that leave the stop thread's part alone keep AudioInv when they keep
\* the file's part.
LEMMA FilePart ==
  ASSUME AudioInv, UNCHANGED <<stopping, thread, ffmpeg, opus, wav>>,
         fd' = "none" => fd = "none" /\ track' = <<>>, fd = "none" => fd' = "none"
  PROVE  AudioInv'
BY DEF AudioInv

\* Every step keeps AudioInv.
LEMMA AudioStep == AudioInv /\ Types /\ [RecorderNext]_recorderVars => AudioInv'
<1> SUFFICES ASSUME AudioInv, Types, [RecorderNext]_recorderVars PROVE AudioInv'
  OBVIOUS
<1>0. fd \in {"none", "open", "closed"} /\ thread \in ThreadSteps
  BY DEF Types, CaptureTypeOK, AppTypeOK
<1>1. CASE InitializeSteps
  <2>1. CASE InitOpen
    BY <2>1, <1>0 DEF InitOpen, InitFails, InitGoesOn, OpenWav, AudioInv, flagVars,
       threadVars, wavVars
  <2>2. CASE InitLock \/ InitAttach
    BY <2>2, FilePart DEF InitLock, InitAttach, InitFails, AudioInv, flagVars, threadVars,
       wavVars, captureVars
  <2>3. ASSUME NEW s \in Streams, NEW next \in {"sys", "attach"}, InitStream(s, next)
        PROVE  AudioInv'
    <3>1. /\ UNCHANGED <<stopping, thread, ffmpeg, opus, wav>>
          /\ Finalize \/ UNCHANGED wavVars
      BY <2>3 DEF InitStream, InitFails, InitGoesOn, flagVars, threadVars
    <3> QED
      BY <3>1, FilePart DEF Finalize, wavVars, AudioInv
  <2> QED
    BY <1>1, <2>1, <2>2, <2>3 DEF InitializeSteps, Streams
<1>2. CASE CaptureRuns
  <2>1. UNCHANGED <<stopping, thread, ffmpeg, opus, wav, fd>>
    BY <1>2 DEF CaptureRuns, Beside, flagVars, threadVars, fileVars, WriterStep, TakeMic,
       TakeSys, WritePair, WriteWav, ReaderStep, Read, DropOldest, PutAfterDrop, ReadEnds, ProcDies,
       wavVars
  <2>2. fd = "none" => track' = track
    BY <1>2 DEF CaptureRuns, Beside, WriterStep, TakeMic, TakeSys, WritePair, WriteWav,
       ReaderStep, Read, DropOldest, PutAfterDrop, ReadEnds, ProcDies, wavVars
  <2> QED
    BY <2>1, <2>2, FilePart DEF AudioInv
<1>3. CASE IdleSteps \/ PollErrors \/ Exit \/ Kill \/ UNCHANGED recorderVars
  BY <1>3, FilePart DEF IdleSteps, PollErrors, Exit, Kill, Ended, MarkCompressing,
     ShowError, MarkDone, FinalizeApp, RunIdle, AudioInv, recorderVars, captureVars,
     wavVars, flagVars, threadVars, fileVars
<1>4. CASE UserSteps
  <2>1. /\ UNCHANGED <<ffmpeg, opus, wav, fd, track>>
        /\ \/ UNCHANGED <<stopping, thread>>
           \/ ~stopping /\ stopping' /\ thread' = "grab"
    BY <1>4 DEF UserSteps, CountdownEnds, CancelCountdown, StopClicked, EscapePressed,
       Signalled, WindowClosed, RequestStop, RewriteHeader, captureVars, wavVars, flagVars,
       threadVars, fileVars
  <2> QED
    BY <2>1, <1>0 DEF AudioInv, Early, ThreadSteps
<1>5. CASE Grab \/ Halt \/ TellMic \/ TellSys \/ FinalizeWav \/ ReleaseLock \/ Weigh
  <2>1. /\ thread \in Early /\ thread # "off" /\ thread' \in ThreadSteps
        /\ UNCHANGED <<stopping, ffmpeg, opus, wav>>
        /\ thread' # "off" /\ thread' # "trash"
    BY <1>5 DEF Grab, Halt, TellMic, TellSys, FinalizeWav,
       ReleaseLock, Weigh, At, Stopping, Early, ThreadSteps, flagVars, fileVars
  <2>2. track' = track /\ (fd' = "none" <=> fd = "none")
    BY <1>5 DEF Grab, Halt, TellMic, TellSys, FinalizeWav,
       ReleaseLock, Weigh, Stopping, Finalize, captureVars, wavVars
  <2> QED
    BY <2>1, <2>2 DEF AudioInv, Early
<1>6. CASE LaunchFfmpeg \/ AbortFfmpeg \/ VerifyOpus \/ TrashWav
  <2>1. UNCHANGED <<stopping, fd, track>>
    BY <1>6 DEF LaunchFfmpeg, AbortFfmpeg, VerifyOpus, TrashWav, Compress, flagVars,
       captureVars, wavVars
  <2>2. CASE LaunchFfmpeg
    BY <2>1, <2>2, <1>0 DEF LaunchFfmpeg, Compress, At, AudioInv, Early, ThreadSteps
  <2>3. CASE AbortFfmpeg
    BY <2>1, <2>3, <1>0 DEF AbortFfmpeg, Compress, At, AudioInv, Early, ThreadSteps
  <2>4. CASE VerifyOpus
    BY <2>1, <2>4, <1>0 DEF VerifyOpus, Compress, At, AudioInv, Early, ThreadSteps
  <2>5. CASE TrashWav
    BY <2>1, <2>5, <1>0 DEF TrashWav, Compress, At, AudioInv, Early, ThreadSteps
  <2> QED
    BY <1>6, <2>2, <2>3, <2>4, <2>5
<1>7. CASE Settle \/ Report \/ ShowDone
  <2>1. /\ UNCHANGED <<stopping, ffmpeg, opus, wav, fd, track>>
        /\ thread \in {"settle", "report", "show"} /\ thread' \in {"report", "show", "end"}
    BY <1>7 DEF Settle, Report, ShowDone, At, flagVars, fileVars, captureVars, wavVars
  <2> QED
    BY <2>1, <1>0 DEF AudioInv, Early, ThreadSteps
<1>8. CASE FfmpegExits
  BY <1>8, <1>0 DEF FfmpegExits, AudioInv, Early, ThreadSteps, flagVars, captureVars, wavVars
<1> QED
  BY <1>1, <1>2, <1>3, <1>4, <1>5, <1>6, <1>7, <1>8 DEF RecorderNext, StopThread

\* Whatever fails, aborts or is killed, what was recorded is on disk whole, as
\* the WAV or as a verified opus (compress.py:14, app.py:343-400).
THEOREM RecordingSurvives == RecorderSpec => []AudioSurvives
<1>1. RecorderInit => AudioInv
  BY DEF RecorderInit, CaptureInit, AudioInv, Early, ThreadSteps
<1>2. AudioInv /\ Types => AudioSurvives
  BY DEF AudioInv, Types, AppTypeOK, AudioSurvives
<1>3. RecorderSpec => []AudioInv
  BY <1>1, AudioStep, TypesHold, PTL DEF RecorderSpec
<1> QED
  BY <1>2, <1>3, TypesHold, PTL

-----------------------------------------------------------------------------
(* The header                                                              *)

\* Every step keeps the header honest.
LEMMA HeaderStep == HeaderIsHonest /\ Types /\ [RecorderNext]_recorderVars => HeaderIsHonest'
<1> SUFFICES ASSUME HeaderIsHonest, Types, [RecorderNext]_recorderVars
             PROVE  HeaderIsHonest'
  OBVIOUS
<1>0. /\ fd \in {"none", "open", "closed"} /\ track \in Seq([Streams -> Blocks])
      /\ Len(track) \in Nat /\ header \in Int
  BY DEF Types, CaptureTypeOK, Placeholder
<1>1. CASE UNCHANGED wavVars
  BY <1>1 DEF HeaderIsHonest, wavVars
<1>2. CASE OpenWav
  BY <1>2 DEF OpenWav, HeaderIsHonest, Placeholder
<1>3. CASE RewriteHeader \/ Finalize
  BY <1>0, <1>3 DEF RewriteHeader, Finalize, Rewritten, HeaderIsHonest
<1>4. CASE WritePair
  <2>1. CASE fd = "open"
    <3>1. hand \in [Streams -> Blocks]
      BY DEF Types, CaptureTypeOK
    <3>2. Len(track') = Len(track) + 1
      BY <1>0, <1>4, <2>1, <3>1 DEF WritePair, WriteWav
    <3> QED
      BY <1>0, <1>4, <2>1, <3>2 DEF WritePair, WriteWav, Rewritten, HeaderIsHonest
  <2>2. CASE fd # "open"
    BY <1>4, <2>2 DEF WritePair, WriteWav, Rewritten, HeaderIsHonest
  <2> QED
    BY <2>1, <2>2
<1>5. UNCHANGED wavVars \/ OpenWav \/ RewriteHeader \/ Finalize \/ WritePair
  <2>1. CASE InitializeSteps
    BY <2>1 DEF InitializeSteps, InitLock, InitOpen, InitStream, InitAttach, captureVars
  <2>2. CASE UserSteps \/ IdleSteps \/ PollErrors
    BY <2>2 DEF UserSteps, CountdownEnds, CancelCountdown, StopClicked, EscapePressed,
       Signalled, WindowClosed, IdleSteps, MarkCompressing, ShowError, MarkDone,
       FinalizeApp, RunIdle, PollErrors, captureVars
  <2>3. CASE StopThread
    BY <2>3 DEF StopThread, Grab, Halt, TellMic, TellSys, FinalizeWav,
       ReleaseLock, Weigh, LaunchFfmpeg, AbortFfmpeg, VerifyOpus, TrashWav,
       Settle, Report, ShowDone, Compress, captureVars
  <2>4. CASE CaptureRuns
    BY <2>4 DEF CaptureRuns, Beside, WriterStep, TakeMic, TakeSys, ReaderStep, Read,
       DropOldest, PutAfterDrop, ReadEnds, ProcDies
  <2>5. CASE FfmpegExits \/ Exit \/ Kill \/ UNCHANGED recorderVars
    BY <2>5 DEF FfmpegExits, Exit, Kill, Ended, recorderVars, captureVars
  <2> QED
    BY <2>1, <2>2, <2>3, <2>4, <2>5 DEF RecorderNext
<1> QED
  BY <1>1, <1>2, <1>3, <1>4, <1>5

\* The WAV header never states more than the file holds, and states exactly
\* that once the file is closed, whichever of the writer, a signal, a failed
\* start and the stop thread touched it last (audio.py:110-155).
THEOREM WavIsReadable == RecorderSpec => []HeaderIsHonest
<1>1. RecorderInit => HeaderIsHonest
  BY DEF RecorderInit, CaptureInit, HeaderIsHonest, Placeholder
<1> QED
  BY <1>1, HeaderStep, TypesHold, PTL DEF RecorderSpec

-----------------------------------------------------------------------------
(* The order of the blocks                                                 *)

\* The reader of stream s holds a block that the full queue refused,
Holds(s) == reader[s] \in {"full", "dropping"}

\* and the last block it does not hold any more.
Latest(s) == IF Holds(s) THEN heard[s] - 1 ELSE heard[s]

WaitInOrder(s) ==
  /\ Silence <= Latest(s)
  /\ \A i, j \in 1 .. Len(queue[s]) : i < j => queue[s][i] < queue[s][j]
  /\ \A i \in 1 .. Len(queue[s]) :
       Silence < queue[s][i] /\ hand[s] < queue[s][i] /\ queue[s][i] <= Latest(s)
  /\ hand[s] # Silence => hand[s] <= Latest(s)

WrittenInOrder(s) ==
  /\ \A i \in 1 .. Len(track) : track[i][s] # Silence =>
       /\ track[i][s] <= Latest(s)
       /\ hand[s] # Silence => track[i][s] < hand[s]
       /\ \A j \in 1 .. Len(queue[s]) : track[i][s] < queue[s][j]
  /\ \A i, j \in 1 .. Len(track) :
       i < j /\ track[i][s] # Silence /\ track[j][s] # Silence => track[i][s] < track[j][s]

\* What ChannelsKeepOrder rests on: on its way from the reader through the
\* queue and the writer's hand to the file, a stream's blocks stand in order.
OrderInv == \A s \in Streams : WaitInOrder(s) /\ WrittenInOrder(s)

\* The elements of a longer and of a shorter sequence.
LEMMA AppendAt ==
  ASSUME NEW S, NEW q \in Seq(S), NEW b \in S
  PROVE  /\ Len(q) \in Nat /\ Len(Append(q, b)) = Len(q) + 1
         /\ \A i \in 1 .. Len(q) : Append(q, b)[i] = q[i]
         /\ Append(q, b)[Len(q) + 1] = b
OBVIOUS

LEMMA TailAt ==
  ASSUME NEW S, NEW q \in Seq(S), q # <<>>
  PROVE  /\ Len(q) \in Nat \ {0} /\ Len(Tail(q)) = Len(q) - 1
         /\ \A i \in 1 .. Len(q) - 1 : Tail(q)[i] = q[i + 1]
         /\ \A i \in 1 .. Len(q) : q[i] \in S
         /\ Head(q) = q[1] /\ Tail(q) \in Seq(S)
OBVIOUS

\* What the types say of one stream.
LEMMA StreamTypes ==
  ASSUME Types, NEW s \in Streams
  PROVE  /\ queue[s] \in Seq(Blocks) /\ Len(queue[s]) \in Nat
         /\ heard[s] \in Nat /\ hand[s] \in Nat /\ Silence = 0
         /\ \A i \in 1 .. Len(queue[s]) : queue[s][i] \in Nat
         /\ track \in Seq([Streams -> Blocks]) /\ Len(track) \in Nat
         /\ \A i \in 1 .. Len(track) : track[i][s] \in Nat
<1>1. Blocks \subseteq Nat
  BY CaptureAssumption DEF Blocks
<1>2. /\ queue[s] \in Seq(Blocks) /\ heard[s] \in Blocks /\ hand[s] \in Blocks
      /\ track \in Seq([Streams -> Blocks])
  BY DEF Types, CaptureTypeOK
<1>3. \A i \in 1 .. Len(track) : track[i] \in [Streams -> Blocks]
  BY <1>2
<1>4. \A i \in 1 .. Len(track) : track[i][s] \in Blocks
  BY <1>3
<1>5. \A i \in 1 .. Len(queue[s]) : queue[s][i] \in Blocks
  BY <1>2
<1>6. /\ heard[s] \in Nat /\ hand[s] \in Nat
      /\ \A i \in 1 .. Len(queue[s]) : queue[s][i] \in Nat
      /\ \A i \in 1 .. Len(track) : track[i][s] \in Nat
  BY <1>1, <1>2, <1>4, <1>5
<1>7. Len(queue[s]) \in Nat /\ Len(track) \in Nat
  BY <1>2
<1> QED
  BY <1>2, <1>6, <1>7 DEF Silence

\* The file stays in order while its blocks stay, the writer's hand keeps its
\* block or is empty, and what waits is what waited or came later.
LEMMA WrittenRests ==
  ASSUME Types, NEW s \in Streams, WrittenInOrder(s), track' = track,
         Latest(s)' \in Int, Latest(s) <= Latest(s)',
         hand'[s] = hand[s] \/ hand'[s] = Silence,
         \A j \in 1 .. Len(queue'[s]) :
           \/ \E k \in 1 .. Len(queue[s]) : queue'[s][j] = queue[s][k]
           \/ queue'[s][j] \in Nat /\ Latest(s) < queue'[s][j]
  PROVE  WrittenInOrder(s)'
<1>0. /\ \A i \in 1 .. Len(queue[s]) : queue[s][i] \in Nat
      /\ \A i \in 1 .. Len(track) : track[i][s] \in Nat
      /\ heard[s] \in Nat /\ hand[s] \in Nat /\ Silence = 0
      /\ Len(queue[s]) \in Nat /\ Len(track) \in Nat
  BY StreamTypes
<1>1. Latest(s) \in Int
  BY <1>0 DEF Latest
<1>2. ASSUME NEW i \in 1 .. Len(track), track[i][s] # Silence
      PROVE  /\ track[i][s] <= Latest(s)'
             /\ hand'[s] # Silence => track[i][s] < hand'[s]
             /\ \A j \in 1 .. Len(queue'[s]) : track[i][s] < queue'[s][j]
  <2>1. /\ track[i][s] <= Latest(s) /\ track[i][s] \in Nat
        /\ hand[s] # Silence => track[i][s] < hand[s]
        /\ \A j \in 1 .. Len(queue[s]) : track[i][s] < queue[s][j]
    BY <1>0, <1>2 DEF WrittenInOrder
  <2>2. ASSUME NEW j \in 1 .. Len(queue'[s]) PROVE track[i][s] < queue'[s][j]
    <3>1. CASE \E k \in 1 .. Len(queue[s]) : queue'[s][j] = queue[s][k]
      BY <2>1, <3>1
    <3>2. CASE queue'[s][j] \in Nat /\ Latest(s) < queue'[s][j]
      BY <1>1, <2>1, <3>2
    <3> QED
      BY <2>2, <3>1, <3>2
  <2> QED
    BY <1>1, <2>1, <2>2
<1>3. \A i, j \in 1 .. Len(track) :
        i < j /\ track[i][s] # Silence /\ track[j][s] # Silence => track[i][s] < track[j][s]
  BY DEF WrittenInOrder
<1>4. Silence' = Silence
  BY DEF Silence
<1> QED
  BY <1>2, <1>3, <1>4 DEF WrittenInOrder

\* What waits stays in order when a block later than all that passed joins it.
LEMMA WaitAppended ==
  ASSUME Types, NEW s \in Streams, WaitInOrder(s), hand'[s] = hand[s],
         Latest(s) \in Int, Latest(s)' \in Nat, Latest(s) < Latest(s)',
         Len(queue'[s]) = Len(queue[s]) + 1,
         \A i \in 1 .. Len(queue[s]) : queue'[s][i] = queue[s][i],
         queue'[s][Len(queue[s]) + 1] = Latest(s)'
  PROVE  WaitInOrder(s)'
<1>0. /\ \A i \in 1 .. Len(queue[s]) : queue[s][i] \in Nat
      /\ hand[s] \in Nat /\ Silence = 0 /\ Len(queue[s]) \in Nat
  BY StreamTypes
<1>1. /\ \A i, j \in 1 .. Len(queue[s]) : i < j => queue[s][i] < queue[s][j]
      /\ \A i \in 1 .. Len(queue[s]) :
           Silence < queue[s][i] /\ hand[s] < queue[s][i] /\ queue[s][i] <= Latest(s)
      /\ hand[s] # Silence => hand[s] <= Latest(s)
      /\ Silence <= Latest(s)
  BY DEF WaitInOrder
<1>2. ASSUME NEW i \in 1 .. Len(queue'[s])
      PROVE  /\ Silence < queue'[s][i] /\ hand'[s] < queue'[s][i]
             /\ queue'[s][i] <= Latest(s)'
  <2>1. CASE i \in 1 .. Len(queue[s])
    BY <1>0, <1>1, <2>1
  <2>2. CASE i = Len(queue[s]) + 1
    BY <1>0, <1>1, <2>2
  <2> QED
    BY <1>0, <1>2, <2>1, <2>2
<1>3. ASSUME NEW i \in 1 .. Len(queue'[s]), NEW j \in 1 .. Len(queue'[s]), i < j
      PROVE  queue'[s][i] < queue'[s][j]
  <2>1. i \in 1 .. Len(queue[s])
    BY <1>0, <1>3
  <2>2. CASE j \in 1 .. Len(queue[s])
    BY <1>1, <1>3, <2>1, <2>2
  <2>3. CASE j = Len(queue[s]) + 1
    BY <1>0, <1>1, <2>1, <2>3
  <2> QED
    BY <1>0, <1>3, <2>2, <2>3
<1>4. Silence <= Latest(s)' /\ (hand'[s] # Silence => hand'[s] <= Latest(s)')
  BY <1>0, <1>1
<1>5. Silence' = Silence
  BY DEF Silence
<1> QED
  BY <1>2, <1>3, <1>4, <1>5 DEF WaitInOrder

\* A stream whose blocks stay where they are stays in order,
LEMMA OrderStays ==
  ASSUME Types, NEW s \in Streams, WaitInOrder(s), WrittenInOrder(s),
         queue'[s] = queue[s], hand'[s] = hand[s],
         Latest(s) \in Int, Latest(s)' \in Int, Latest(s) <= Latest(s)',
         track' = track \/ track' = <<>>
  PROVE  WaitInOrder(s)' /\ WrittenInOrder(s)'
<1>0. /\ \A i \in 1 .. Len(queue[s]) : queue[s][i] \in Nat
      /\ \A i \in 1 .. Len(track) : track[i][s] \in Nat
      /\ hand[s] \in Nat /\ Silence = 0
      /\ Len(queue[s]) \in Nat /\ Len(track) \in Nat
  BY StreamTypes
<1>1. WaitInOrder(s)'
  BY <1>0 DEF WaitInOrder
<1>2. CASE track' = track
  <2>1. \A j \in 1 .. Len(queue'[s]) :
          \E k \in 1 .. Len(queue[s]) : queue'[s][j] = queue[s][k]
    OBVIOUS
  <2> QED
    BY <1>1, <1>2, <2>1, WrittenRests
<1>3. CASE track' = <<>>
  <2>1. 1 .. Len(track') = {}
    BY <1>3
  <2> QED
    BY <1>1, <2>1 DEF WrittenInOrder
<1> QED
  BY <1>1, <1>2, <1>3

\* in particular when its reader takes no block in hand.
LEMMA OrderRests ==
  ASSUME Types, NEW s \in Streams, WaitInOrder(s), WrittenInOrder(s),
         queue'[s] = queue[s], hand'[s] = hand[s], heard'[s] = heard[s],
         Holds(s)' => Holds(s), track' = track \/ track' = <<>>
  PROVE  WaitInOrder(s)' /\ WrittenInOrder(s)'
<1>1. heard[s] \in Nat
  BY StreamTypes
<1>2. Latest(s) \in Int /\ Latest(s)' \in Int /\ Latest(s) <= Latest(s)'
  BY <1>1 DEF Latest
<1> QED
  BY <1>2, OrderStays

\* A block that is read is the latest, if there is room for it.
LEMMA OrderRead ==
  ASSUME Types, NEW s \in Streams, WaitInOrder(s), WrittenInOrder(s), Read(s)
  PROVE  WaitInOrder(s)' /\ WrittenInOrder(s)'
<1>0. /\ \A i \in 1 .. Len(queue[s]) : queue[s][i] \in Nat
      /\ \A i \in 1 .. Len(track) : track[i][s] \in Nat
      /\ heard[s] \in Nat /\ hand[s] \in Nat /\ Silence = 0
      /\ Len(queue[s]) \in Nat /\ Len(track) \in Nat
  BY StreamTypes
<1>1. /\ heard'[s] = heard[s] + 1 /\ UNCHANGED <<hand, track>>
      /\ ~Holds(s) /\ heard'[s] \in Blocks
  BY <1>0, CaptureAssumption DEF Read, Delivering, Streams, wavVars, Blocks, Types, CaptureTypeOK, Holds
<1>2. /\ Latest(s) \in Int /\ Latest(s)' \in Int
      /\ Latest(s) = heard[s] /\ Latest(s) <= Latest(s)'
  BY <1>0, <1>1 DEF Latest
<1>3. CASE Len(queue[s]) < QueueDepth
  <2>1. queue'[s] = Append(queue[s], heard[s] + 1) /\ ~Holds(s)'
    BY <1>3, CaptureAssumption DEF Read, Types, CaptureTypeOK, Holds
  <2>2. /\ Len(queue'[s]) = Len(queue[s]) + 1
        /\ \A i \in 1 .. Len(queue[s]) : queue'[s][i] = queue[s][i]
        /\ queue'[s][Len(queue[s]) + 1] = heard[s] + 1
    <3>1. queue[s] \in Seq(Blocks)
      BY StreamTypes
    <3> QED
      BY <1>1, <2>1, <3>1, AppendAt
  <2>3. Latest(s)' = heard[s] + 1
    BY <1>1, <2>1 DEF Latest
  <2>4. WaitInOrder(s)'
    BY <1>0, <1>1, <1>2, <2>2, <2>3, WaitAppended
  <2>5. WrittenInOrder(s)'
    <3>1. ASSUME NEW j \in 1 .. Len(queue'[s])
          PROVE  \/ \E k \in 1 .. Len(queue[s]) : queue'[s][j] = queue[s][k]
                 \/ queue'[s][j] = heard[s] + 1
      BY <1>0, <2>2, <3>1
    <3>2. ASSUME NEW j \in 1 .. Len(queue'[s])
          PROVE  \/ \E k \in 1 .. Len(queue[s]) : queue'[s][j] = queue[s][k]
                 \/ queue'[s][j] \in Nat /\ Latest(s) < queue'[s][j]
      BY <1>0, <1>2, <3>1, <3>2
    <3> QED
      BY <1>1, <1>2, <3>2, WrittenRests
  <2> QED
    BY <2>4, <2>5
<1>4. CASE Len(queue[s]) >= QueueDepth
  <2>1. queue' = queue
    BY <1>4, CaptureAssumption DEF Read, Types, CaptureTypeOK
  <2> QED
    BY <1>1, <1>2, <2>1, OrderStays
<1> QED
  BY <1>3, <1>4, CaptureAssumption

\* A drop takes the oldest of what waits.
LEMMA OrderDrop ==
  ASSUME Types, NEW s \in Streams, WaitInOrder(s), WrittenInOrder(s), DropOldest(s)
  PROVE  WaitInOrder(s)' /\ WrittenInOrder(s)'
<1>0. /\ \A i \in 1 .. Len(queue[s]) : queue[s][i] \in Nat
      /\ \A i \in 1 .. Len(track) : track[i][s] \in Nat
      /\ heard[s] \in Nat /\ hand[s] \in Nat /\ Silence = 0
      /\ Len(queue[s]) \in Nat /\ Len(track) \in Nat
  BY StreamTypes
<1>1. /\ UNCHANGED <<heard, hand, track>> /\ Holds(s) /\ Holds(s)'
      /\ queue'[s] = IF queue[s] = <<>> THEN queue[s] ELSE Tail(queue[s])
  BY DEF DropOldest, wavVars, Types, CaptureTypeOK, Holds
<1>2. /\ Latest(s) \in Int /\ Latest(s)' \in Int /\ Latest(s)' = Latest(s)
  BY <1>0, <1>1 DEF Latest
<1>3. CASE queue[s] = <<>>
  BY <1>1, <1>3, OrderRests
<1>4. CASE queue[s] # <<>>
  <2>1. /\ Len(queue'[s]) = Len(queue[s]) - 1
        /\ \A i \in 1 .. Len(queue[s]) - 1 : queue'[s][i] = queue[s][i + 1]
    <3>1. queue[s] \in Seq(Blocks)
      BY StreamTypes
    <3> QED
      BY <1>1, <1>4, <3>1, TailAt
  <2>2. \A i \in 1 .. Len(queue'[s]) :
          i + 1 \in 1 .. Len(queue[s]) /\ queue'[s][i] = queue[s][i + 1]
    BY <1>0, <2>1
  <2>3. WaitInOrder(s)'
    <3>1. ASSUME NEW i \in 1 .. Len(queue'[s]), NEW j \in 1 .. Len(queue'[s]), i < j
          PROVE  queue'[s][i] < queue'[s][j]
      <4>1. /\ i + 1 \in 1 .. Len(queue[s]) /\ j + 1 \in 1 .. Len(queue[s])
            /\ i + 1 < j + 1
            /\ queue'[s][i] = queue[s][i + 1] /\ queue'[s][j] = queue[s][j + 1]
        BY <1>0, <2>2, <3>1
      <4>2. queue[s][i + 1] < queue[s][j + 1]
        BY <4>1 DEF WaitInOrder
      <4> QED
        BY <4>1, <4>2
    <3>2. ASSUME NEW i \in 1 .. Len(queue'[s])
          PROVE  /\ Silence < queue'[s][i] /\ hand'[s] < queue'[s][i]
                 /\ queue'[s][i] <= Latest(s)'
      <4>1. PICK k \in 1 .. Len(queue[s]) : queue'[s][i] = queue[s][k]
        BY <2>2, <3>2
      <4>2. /\ Silence < queue[s][k] /\ hand[s] < queue[s][k]
            /\ queue[s][k] <= Latest(s) /\ queue[s][k] \in Nat
        BY <1>0, <4>1 DEF WaitInOrder
      <4> QED
        BY <1>1, <1>2, <4>1, <4>2
    <3> QED
      BY <1>0, <1>1, <1>2, <3>1, <3>2 DEF WaitInOrder
  <2>4. WrittenInOrder(s)'
    <3>1. \A j \in 1 .. Len(queue'[s]) :
            \E k \in 1 .. Len(queue[s]) : queue'[s][j] = queue[s][k]
      BY <2>2
    <3>2. Latest(s)' \in Int /\ Latest(s) <= Latest(s)'
      BY <1>2
    <3> QED
      BY <1>1, <3>1, <3>2, WrittenRests
  <2> QED
    BY <2>3, <2>4
<1> QED
  BY <1>3, <1>4

\* The block put after a drop is the latest.
LEMMA OrderPut ==
  ASSUME Types, NEW s \in Streams, WaitInOrder(s), WrittenInOrder(s), PutAfterDrop(s)
  PROVE  WaitInOrder(s)' /\ WrittenInOrder(s)'
<1>0. /\ \A i \in 1 .. Len(queue[s]) : queue[s][i] \in Nat
      /\ \A i \in 1 .. Len(track) : track[i][s] \in Nat
      /\ heard[s] \in Nat /\ hand[s] \in Nat /\ Silence = 0
      /\ Len(queue[s]) \in Nat /\ Len(track) \in Nat
  BY StreamTypes
<1>1. /\ UNCHANGED <<hand, track>> /\ heard'[s] = heard[s]
      /\ Holds(s) /\ ~Holds(s)' /\ heard[s] \in Blocks
      /\ queue'[s] = Append(queue[s], heard[s])
  BY <1>0 DEF PutAfterDrop, wavVars, Types, CaptureTypeOK, Holds
<1>2. Latest(s) = heard[s] - 1 /\ Latest(s)' = heard[s]
  BY <1>0, <1>1 DEF Latest
<1>3. /\ Len(queue'[s]) = Len(queue[s]) + 1
      /\ \A i \in 1 .. Len(queue[s]) : queue'[s][i] = queue[s][i]
      /\ queue'[s][Len(queue[s]) + 1] = heard[s]
  <2>1. queue[s] \in Seq(Blocks)
    BY StreamTypes
  <2> QED
    BY <1>1, <2>1, AppendAt
<1>4. 0 < heard[s]
  BY <1>0, <1>2 DEF WaitInOrder
<1>5. WaitInOrder(s)'
  <2>1. /\ Latest(s) \in Int /\ Latest(s)' \in Nat /\ Latest(s) < Latest(s)'
        /\ hand'[s] = hand[s] /\ queue'[s][Len(queue[s]) + 1] = Latest(s)'
    BY <1>0, <1>1, <1>2, <1>3
  <2> QED
    BY <1>3, <2>1, WaitAppended
<1>6. WrittenInOrder(s)'
  <2>1. ASSUME NEW j \in 1 .. Len(queue'[s])
        PROVE  \/ \E k \in 1 .. Len(queue[s]) : queue'[s][j] = queue[s][k]
               \/ queue'[s][j] = heard[s]
    BY <1>0, <1>3, <2>1
  <2>2. ASSUME NEW j \in 1 .. Len(queue'[s])
        PROVE  \/ \E k \in 1 .. Len(queue[s]) : queue'[s][j] = queue[s][k]
               \/ queue'[s][j] \in Nat /\ Latest(s) < queue'[s][j]
    BY <1>0, <1>2, <2>1, <2>2
  <2>3. /\ Latest(s)' \in Int /\ Latest(s) <= Latest(s)' /\ track' = track
        /\ hand'[s] = hand[s]
    BY <1>0, <1>1, <1>2
  <2> QED
    BY <2>2, <2>3, WrittenRests
<1> QED
  BY <1>5, <1>6

\* The writer takes the oldest block, or silence.
LEMMA OrderTake ==
  ASSUME Types, NEW s \in Streams, WaitInOrder(s), WrittenInOrder(s), TakeBlock(s),
         UNCHANGED <<heard, reader, track>>
  PROVE  WaitInOrder(s)' /\ WrittenInOrder(s)'
<1>0. /\ \A i \in 1 .. Len(queue[s]) : queue[s][i] \in Nat
      /\ \A i \in 1 .. Len(track) : track[i][s] \in Nat
      /\ heard[s] \in Nat /\ hand[s] \in Nat /\ Silence = 0
      /\ Len(queue[s]) \in Nat /\ Len(track) \in Nat
  BY StreamTypes
<1>1. Latest(s) \in Int /\ Latest(s)' = Latest(s)
  BY <1>0 DEF Latest, Holds
<1>2. CASE queue[s] = <<>>
  <2>1. hand'[s] = Silence /\ queue' = queue
    BY <1>2 DEF TakeBlock, Types, CaptureTypeOK
  <2> QED
    BY <1>0, <1>1, <1>2, <2>1, WrittenRests DEF WaitInOrder
<1>3. CASE queue[s] # <<>>
  <2>1. hand'[s] = queue[s][1] /\ queue'[s] = Tail(queue[s])
    BY <1>3, TailAt DEF TakeBlock, Types, CaptureTypeOK
  <2>2. /\ 1 \in 1 .. Len(queue[s])
        /\ \A i \in 1 .. Len(queue'[s]) :
             /\ i + 1 \in 1 .. Len(queue[s]) /\ 1 < i + 1
             /\ queue'[s][i] = queue[s][i + 1]
    <3>1. queue[s] \in Seq(Blocks)
      BY StreamTypes
    <3>2. /\ Len(queue[s]) \in Nat \ {0} /\ Len(queue'[s]) = Len(queue[s]) - 1
          /\ \A i \in 1 .. Len(queue[s]) - 1 : queue'[s][i] = queue[s][i + 1]
      BY <1>3, <2>1, <3>1, TailAt
    <3> QED
      BY <3>2
  <2>3. WaitInOrder(s)'
    BY <1>0, <1>1, <2>1, <2>2 DEF WaitInOrder
  <2>4. WrittenInOrder(s)'
    BY <1>0, <1>1, <2>1, <2>2 DEF WrittenInOrder
  <2> QED
    BY <2>3, <2>4
<1> QED
  BY <1>2, <1>3

\* What is written comes after what is in the file.
LEMMA OrderWrite ==
  ASSUME Types, NEW s \in Streams, WaitInOrder(s), WrittenInOrder(s), WritePair
  PROVE  WaitInOrder(s)' /\ WrittenInOrder(s)'
<1>0. /\ \A i \in 1 .. Len(queue[s]) : queue[s][i] \in Nat
      /\ \A i \in 1 .. Len(track) : track[i][s] \in Nat
      /\ heard[s] \in Nat /\ hand[s] \in Nat /\ Silence = 0
      /\ Len(queue[s]) \in Nat /\ Len(track) \in Nat
  BY StreamTypes
<1>1. /\ UNCHANGED readerVars /\ hand'[s] = Silence
      /\ hand \in [Streams -> Blocks]
  BY DEF WritePair, Types, CaptureTypeOK
<1>2. Latest(s) \in Int /\ Latest(s)' = Latest(s)
  BY <1>0, <1>1 DEF Latest, Holds, readerVars
<1>3. WaitInOrder(s)'
  BY <1>0, <1>1, <1>2 DEF WaitInOrder, readerVars
<1>4. CASE track' = track
  <2>1. \A j \in 1 .. Len(queue'[s]) :
          \E k \in 1 .. Len(queue[s]) : queue'[s][j] = queue[s][k]
    BY <1>1 DEF readerVars
  <2>2. WrittenInOrder(s)'
    BY <1>1, <1>2, <1>4, <2>1, WrittenRests
  <2> QED
    BY <1>3, <2>2
<1>5. CASE track' = Append(track, hand)
  <2>1. /\ Len(track') = Len(track) + 1
        /\ \A i \in 1 .. Len(track) : track'[i] = track[i]
        /\ track'[Len(track) + 1] = hand
    BY <1>1, <1>5, StreamTypes, AppendAt
  <2>2. ASSUME NEW i \in 1 .. Len(track'), track'[i][s] # Silence
        PROVE  /\ track'[i][s] <= Latest(s)'
               /\ \A j \in 1 .. Len(queue'[s]) : track'[i][s] < queue'[s][j]
    <3>1. CASE i \in 1 .. Len(track)
      BY <1>0, <1>1, <1>2, <2>1, <2>2, <3>1 DEF WrittenInOrder, readerVars
    <3>2. CASE i = Len(track) + 1
      BY <1>0, <1>1, <1>2, <2>1, <2>2, <3>2 DEF WaitInOrder, readerVars
    <3> QED
      BY <1>0, <2>1, <3>1, <3>2
  <2>3. ASSUME NEW i \in 1 .. Len(track'), NEW j \in 1 .. Len(track'), i < j,
               track'[i][s] # Silence, track'[j][s] # Silence
        PROVE  track'[i][s] < track'[j][s]
    <3>1. i \in 1 .. Len(track) /\ track'[i] = track[i]
      BY <1>0, <2>1, <2>3
    <3>2. CASE j \in 1 .. Len(track)
      BY <2>1, <2>3, <3>1, <3>2 DEF WrittenInOrder
    <3>3. CASE j = Len(track) + 1
      BY <1>0, <2>1, <2>3, <3>1, <3>3 DEF WrittenInOrder
    <3> QED
      BY <1>0, <2>1, <3>2, <3>3
  <2>4. hand'[s] = Silence /\ Silence' = Silence
    BY <1>1 DEF Silence
  <2> QED
    BY <1>3, <2>2, <2>3, <2>4 DEF WrittenInOrder
<1> QED
  BY <1>3, <1>4, <1>5 DEF WritePair, WriteWav

\* A stream's steps touch that stream alone.
LEMMA OthersRest ==
  ASSUME NEW s \in Streams, ReaderStep(s) \/ ProcDies(s),
         Types, NEW r \in Streams, r # s \/ ReadEnds(s) \/ ProcDies(s)
  PROVE  /\ queue'[r] = queue[r] /\ hand'[r] = hand[r] /\ heard'[r] = heard[r]
         /\ Holds(r)' => Holds(r)
         /\ track' = track
BY DEF ReaderStep, Holds, Read, DropOldest, PutAfterDrop, ReadEnds, ProcDies, wavVars, Types, CaptureTypeOK

\* Every step keeps the blocks in order.
LEMMA OrderStep == OrderInv /\ Types /\ [RecorderNext]_recorderVars => OrderInv'
<1> SUFFICES ASSUME OrderInv, Types, [RecorderNext]_recorderVars, NEW r \in Streams
             PROVE  WaitInOrder(r)' /\ WrittenInOrder(r)'
  BY DEF OrderInv
<1>0. WaitInOrder(r) /\ WrittenInOrder(r)
  BY DEF OrderInv
<1>1. ASSUME NEW s \in Streams, ReaderStep(s) \/ ProcDies(s)
      PROVE  WaitInOrder(r)' /\ WrittenInOrder(r)'
  BY <1>0, <1>1, OrderRead, OrderDrop, OrderPut, OthersRest, OrderRests DEF ReaderStep
<1>2. CASE WriterStep
  <2>1. ASSUME NEW s \in Streams, TakeBlock(s), UNCHANGED <<heard, reader, track>>
        PROVE  WaitInOrder(r)' /\ WrittenInOrder(r)'
    <3>1. CASE r = s
      BY <1>0, <2>1, <3>1, OrderTake
    <3>2. CASE r # s
      <4>1. queue'[r] = queue[r] /\ hand'[r] = hand[r]
        BY <2>1, <3>2 DEF TakeBlock, Types, CaptureTypeOK
      <4> QED
        BY <1>0, <2>1, <4>1, OrderRests DEF Holds
    <3> QED
      BY <3>1, <3>2
  <2> QED
    BY <1>0, <1>2, <2>1, OrderWrite DEF WriterStep, TakeMic, TakeSys, Streams, wavVars
<1>3. ASSUME UNCHANGED <<queue, hand, heard>>, track' = track \/ track' = <<>>,
             Holds(r)' => Holds(r)
      PROVE  WaitInOrder(r)' /\ WrittenInOrder(r)'
  BY <1>0, <1>3, OrderRests
<1>4. CASE InitializeSteps
  BY <1>3, <1>4 DEF InitializeSteps, InitLock, InitOpen, InitStream, InitAttach, OpenWav,
     StartWriter, StartStream, Finalize, captureVars, readerVars, wavVars, Types,
     CaptureTypeOK, Holds
<1>5. CASE UserSteps \/ IdleSteps \/ PollErrors
  BY <1>3, <1>5 DEF UserSteps, CountdownEnds, CancelCountdown, StopClicked, EscapePressed,
     Signalled, WindowClosed, IdleSteps, MarkCompressing, ShowError, MarkDone,
     FinalizeApp, RunIdle, PollErrors, RewriteHeader, captureVars, readerVars, wavVars,
     Holds
<1>6. CASE StopThread
  BY <1>3, <1>6 DEF StopThread, Grab, Halt, TellMic, TellSys, FinalizeWav, ReleaseLock,
     Weigh, LaunchFfmpeg, AbortFfmpeg, VerifyOpus, TrashWav, Settle, Report, ShowDone,
     Compress, TellStream, Finalize, captureVars, readerVars, wavVars, Holds
<1>7. CASE FfmpegExits \/ Exit \/ Kill \/ UNCHANGED recorderVars
  BY <1>3, <1>7 DEF FfmpegExits, Exit, Kill, Ended, recorderVars, captureVars, readerVars,
     wavVars, Holds
<1> QED
  BY <1>1, <1>2, <1>4, <1>5, <1>6, <1>7 DEF RecorderNext, CaptureRuns, Beside

\* In each channel of the file the blocks stand in the order they were heard,
\* none of them twice, for any queue and any length (capture.py:229-239,
\* 336-345).
THEOREM BlocksInOrder == RecorderSpec => []ChannelsKeepOrder
<1>1. RecorderInit => OrderInv
  BY DEF RecorderInit, CaptureInit, OrderInv, WaitInOrder, WrittenInOrder,
     Latest, Holds, Silence
<1>2. OrderInv => ChannelsKeepOrder
  BY DEF OrderInv, WrittenInOrder, ChannelsKeepOrder
<1> QED
  BY <1>1, <1>2, OrderStep, TypesHold, PTL DEF RecorderSpec

-----------------------------------------------------------------------------
(* The compression follows the stop                                        *)

NoInit == \A i \in 1 .. Len(idles) : idles[i] # "init"

\* How far the start has come: there is a track only after the writer, the
\* writer only after the streams and the file, and _initialize runs once.
StartInv ==
  /\ track # <<>> => writer # "off"
  /\ writer # "off" => /\ main = "loop" /\ NoInit /\ stage = "recording"
                       /\ \A s \in Streams : reader[s] # "off"
                       /\ fd # "none"
  /\ main \in {"sys", "attach"} => reader["mic"] # "off"
  /\ main = "attach" => reader["sys"] # "off"
  /\ main \in {"mic", "sys", "attach"} => fd # "none"
  /\ main # "loop" => NoInit /\ stage = "recording"
  /\ stage = "countdown" => NoInit
  /\ \A i, j \in 1 .. Len(idles) : idles[i] = "init" /\ idles[j] = "init" => i = j

\* Message m or a report is queued, or the next idle runs.
IdlesMove(m) ==
  \/ idles' = idles
  \/ idles' = Append(idles, m)
  \/ idles' = idles \o <<"error", "done">>
  \/ idles # <<>> /\ idles' = Tail(idles)

\* Nothing that is queued or run after the countdown queues _initialize.
LEMMA NoNewInit ==
  ASSUME Types, NEW m \in {"compressing", "error", "done", "finalize"},
         IdlesMove(m)
  PROVE  /\ NoInit => NoInit'
         /\ StartInv => \A i, j \in 1 .. Len(idles') :
                          idles'[i] = "init" /\ idles'[j] = "init" => i = j
<1> DEFINE Msgs == {"init", "compressing", "error", "done", "finalize"}
<1>1. idles \in Seq(Msgs) /\ Len(idles) \in Nat
  BY DEF Types, AppTypeOK
<1>2. CASE idles' = idles
  BY <1>2 DEF NoInit, StartInv
<1>3. CASE idles # <<>> /\ idles' = Tail(idles)
  <2>1. /\ Len(idles') = Len(idles) - 1
        /\ \A i \in 1 .. Len(idles) - 1 : idles'[i] = idles[i + 1]
    BY <1>1, <1>3, TailAt
  <2>2. \A i \in 1 .. Len(idles') :
          i \in Nat /\ i + 1 \in 1 .. Len(idles) /\ idles'[i] = idles[i + 1]
    BY <1>1, <2>1
  <2>3. ASSUME StartInv, NEW i \in 1 .. Len(idles'), NEW j \in 1 .. Len(idles'),
               idles'[i] = "init", idles'[j] = "init"
        PROVE  i = j
    <3>1. i + 1 = j + 1
      BY <2>2, <2>3 DEF StartInv
    <3> QED
      BY <2>2, <3>1
  <2> QED
    BY <2>2, <2>3 DEF NoInit
<1>4. CASE \/ idles' = Append(idles, m)
          \/ idles' = idles \o <<"error", "done">>
  <2>1. \A i \in 1 .. Len(idles') :
          idles'[i] = "init" => i \in 1 .. Len(idles) /\ idles'[i] = idles[i]
    <3>1. CASE idles' = Append(idles, m)
      BY <1>1, <3>1
    <3>2. CASE idles' = idles \o <<"error", "done">>
      BY <1>1, <3>2
    <3> QED
      BY <1>4, <3>1, <3>2
  <2> QED
    BY <2>1 DEF NoInit, StartInv
<1> QED
  BY <1>2, <1>3, <1>4 DEF IdlesMove

\* A step that takes the start no further, and leaves no stream that was
\* started unstarted, keeps StartInv.
LEMMA StartRests ==
  ASSUME Types, StartInv, stage' = stage, main' = main \/ main' = "loop",
         writer' = writer, track' = track \/ track' = <<>>,
         fd' = "none" => fd = "none",
         \A s \in Streams : reader'[s] = "off" => reader[s] = "off",
         NEW m \in {"compressing", "error", "done", "finalize"},
         IdlesMove(m)
  PROVE  StartInv'
<1>1. /\ NoInit => NoInit'
      /\ \A i, j \in 1 .. Len(idles') : idles'[i] = "init" /\ idles'[j] = "init" => i = j
  BY NoNewInit
<1>2. "mic" \in Streams /\ "sys" \in Streams
  BY DEF Streams
<1> QED
  BY <1>1, <1>2 DEF StartInv

\* The steps of _initialize keep StartInv: each needs the one before it.
LEMMA StartInitialize == ASSUME Types, StartInv, InitializeSteps PROVE StartInv'
<1>0. /\ "mic" \in Streams /\ "sys" \in Streams
      /\ "done" \in {"compressing", "error", "done", "finalize"}
      /\ reader \in [Streams -> {"off", "reading", "full", "dropping", "ended"}]
  BY DEF Streams, Types, CaptureTypeOK
<1>1. CASE InitLock
  <2>1. /\ idles # <<>> /\ Head(idles) = "init" /\ idles' = Tail(idles)
        /\ UNCHANGED captureVars /\ stage' = stage /\ main' \in {"loop", "sink"}
    BY <1>1 DEF InitLock, Fatal
  <2>2. /\ Len(idles') = Len(idles) - 1 /\ Len(idles) \in Nat \ {0}
        /\ \A i \in 1 .. Len(idles) - 1 : idles'[i] = idles[i + 1]
        /\ idles[1] = "init"
    <3>1. idles \in Seq({"init", "compressing", "error", "done", "finalize"})
      BY DEF Types, AppTypeOK
    <3> QED
      BY <2>1, <3>1, TailAt
  <2>3. NoInit'
    <3>1. ASSUME NEW i \in 1 .. Len(idles'), idles'[i] = "init" PROVE FALSE
      <4>1. /\ i + 1 \in 1 .. Len(idles) /\ 1 \in 1 .. Len(idles) /\ i + 1 # 1
            /\ idles[i + 1] = "init"
        BY <2>2, <3>1
      <4> QED
        BY <2>2, <4>1 DEF StartInv
    <3> QED
      BY <3>1 DEF NoInit
  <2>4. ~NoInit
    BY <2>2 DEF NoInit
  <2>5. writer = "off" /\ stage = "recording" /\ track = <<>>
    BY <2>4 DEF StartInv, Types, AppTypeOK
  <2> QED
    BY <2>1, <2>3, <2>5 DEF StartInv, captureVars, wavVars, NoInit
<1>2. CASE InitOpen
  <2>1. CASE InitFails
    <3>1. /\ stage' = stage /\ main' = "loop" /\ writer' = writer /\ track' = track
          /\ fd' = fd /\ reader' = reader /\ idles' = idles
      BY <1>2, <2>1 DEF InitOpen, InitFails, InitGoesOn, Fatal, OpenWav, wavVars, readerVars
    <3> QED
      BY <1>0, <3>1, StartRests DEF IdlesMove
  <2>2. CASE InitGoesOn("mic")
    <3>1. /\ stage' = stage /\ main = "sink" /\ main' = "mic" /\ writer' = writer
          /\ track' = <<>> /\ fd' = "open" /\ reader' = reader /\ idles' = idles
      BY <1>2, <2>2 DEF InitOpen, InitFails, InitGoesOn, Fatal, OpenWav, readerVars
    <3>2. writer = "off" /\ NoInit /\ stage = "recording" /\ NoInit'
      BY <3>1 DEF StartInv, NoInit
    <3> QED
      BY <3>1, <3>2 DEF StartInv
  <2> QED
    BY <1>2, <2>1, <2>2 DEF InitOpen
<1>3. ASSUME NEW s \in Streams, NEW next \in {"sys", "attach"}, InitStream(s, next),
             s = "mic" <=> next = "sys"
      PROVE  StartInv'
  <2>1. /\ main = s /\ stage' = stage /\ writer' = writer /\ track' = track
        /\ idles' = idles /\ (fd' = "none" => fd = "none")
    BY <1>3 DEF InitStream, InitFails, InitGoesOn, Finalize, wavVars
  <2>2. CASE InitFails
    <3>1. main' = "loop" /\ reader' = reader
      BY <1>3, <2>2 DEF InitStream, InitFails, InitGoesOn, Fatal, Streams, readerVars
    <3> QED
      BY <1>0, <2>1, <3>1, StartRests DEF IdlesMove
  <2>3. CASE InitGoesOn(next) /\ StartStream(s)
    <3>1. /\ main' = next /\ reader'[s] # "off"
          /\ \A r \in Streams : reader[r] # "off" => reader'[r] # "off"
      BY <1>0, <2>3 DEF InitGoesOn, StartStream
    <3>2. writer = "off" /\ NoInit /\ stage = "recording" /\ NoInit' /\ fd # "none"
      BY <2>1 DEF StartInv, NoInit, Streams
    <3>3. s = "sys" => reader["mic"] # "off"
      BY <2>1 DEF StartInv
    <3> QED
      BY <1>0, <1>3, <2>1, <3>1, <3>2, <3>3 DEF StartInv, Streams
  <2> QED
    BY <1>3, <2>2, <2>3 DEF InitStream
<1>4. CASE InitAttach
  <2>1. /\ main = "attach" /\ main' = "loop" /\ UNCHANGED <<stage, idles, reader, fd>>
        /\ writer' # "off"
    BY <1>4 DEF InitAttach, InitFails, Fatal, StartWriter, LoopTop, readerVars, wavVars
  <2>2. /\ NoInit /\ NoInit' /\ stage = "recording" /\ fd # "none"
        /\ \A s \in Streams : reader[s] # "off"
    BY <2>1 DEF StartInv, NoInit, Streams
  <2> QED
    BY <2>1, <2>2 DEF StartInv
<1> QED
  BY <1>1, <1>2, <1>3, <1>4, <1>0 DEF InitializeSteps

\* Every step keeps StartInv.
LEMMA StartStep == StartInv /\ Types /\ [RecorderNext]_recorderVars => StartInv'
<1> SUFFICES ASSUME StartInv, Types, [RecorderNext]_recorderVars PROVE StartInv'
  OBVIOUS
<1> DEFINE Late == {"compressing", "error", "done", "finalize"}
<1>0. /\ "done" \in Late /\ "compressing" \in Late /\ "finalize" \in Late
      /\ reader \in [Streams -> {"off", "reading", "full", "dropping", "ended"}]
  BY DEF Types, CaptureTypeOK
<1>1. CASE CountdownEnds
  <2>1. /\ stage = "countdown" /\ stage' = "recording" /\ main = "loop" /\ main' = "loop"
        /\ idles' = Append(idles, "init") /\ UNCHANGED captureVars
    BY <1>1 DEF CountdownEnds, Handling, Post
  <2>2. writer = "off" /\ NoInit /\ track = <<>>
    BY <2>1 DEF StartInv
  <2>3. idles \in Seq({"init", "compressing", "error", "done", "finalize"})
    BY DEF Types, AppTypeOK
  <2>4. /\ Len(idles) \in Nat /\ Len(idles') = Len(idles) + 1
        /\ \A i \in 1 .. Len(idles) : idles'[i] # "init"
    BY <2>1, <2>2, <2>3, AppendAt DEF NoInit
  <2>5. \A i \in 1 .. Len(idles') : idles'[i] = "init" => i = Len(idles) + 1
    BY <2>4
  <2>6. \A i, j \in 1 .. Len(idles') : idles'[i] = "init" /\ idles'[j] = "init" => i = j
    BY <2>5
  <2> QED
    BY <2>1, <2>2, <2>6 DEF StartInv, captureVars, wavVars
<1>2. CASE CaptureRuns
  <2>1. UNCHANGED <<stage, main, idles, fd>>
    BY <1>2 DEF CaptureRuns, Beside, appVars, WriterStep, TakeMic, TakeSys, WritePair,
       WriteWav, ReaderStep, Read, DropOldest, PutAfterDrop, ReadEnds, ProcDies, wavVars
  <2>2. \A s \in Streams : reader[s] # "off" <=> reader'[s] # "off"
    BY <1>0, <1>2 DEF CaptureRuns, Beside, WriterStep, TakeMic, TakeSys, WritePair,
       ReaderStep, Read, DropOldest, PutAfterDrop, ReadEnds, ProcDies, readerVars
  <2>3. /\ writer # "off" <=> writer' # "off"
        /\ track' = track \/ writer # "off"
    BY <1>2 DEF CaptureRuns, Beside, WriterStep, TakeMic, TakeSys, WritePair, LoopTop,
       ReaderStep, Read, DropOldest, PutAfterDrop, ReadEnds, ProcDies, wavVars
  <2>4. NoInit <=> NoInit'
    BY <2>1 DEF NoInit
  <2>5. "mic" \in Streams /\ "sys" \in Streams
    BY DEF Streams
  <2>6. \A i, j \in 1 .. Len(idles') : idles'[i] = "init" /\ idles'[j] = "init" => i = j
    BY <2>1 DEF StartInv
  <2> QED
    BY <2>1, <2>2, <2>3, <2>4, <2>5, <2>6 DEF StartInv
<1>3. ASSUME NEW m \in Late,
             IdlesMove(m),
             UNCHANGED <<stage, main, writer, track, reader>>, fd' = "none" => fd = "none"
      PROVE  StartInv'
  BY <1>3, StartRests DEF IdlesMove
<1>4. CASE UserSteps /\ ~CountdownEnds
  <2>1. /\ idles' = idles \/ idles' = Append(idles, "finalize")
        /\ UNCHANGED <<stage, main, writer, track, reader, fd>>
    BY <1>4 DEF UserSteps, CancelCountdown, StopClicked, EscapePressed, Signalled,
       WindowClosed, RequestStop, Post, RewriteHeader, captureVars, readerVars, wavVars,
       appVars
  <2> QED
    BY <1>0, <1>3, <2>1 DEF IdlesMove
<1>5. CASE IdleSteps
  <2>1. /\ idles # <<>> /\ idles' = Tail(idles)
        /\ UNCHANGED <<stage, main, writer, track, reader, fd>>
    BY <1>5 DEF IdleSteps, MarkCompressing, ShowError, MarkDone, FinalizeApp, RunIdle,
       captureVars, readerVars, wavVars
  <2> QED
    BY <1>0, <1>3, <2>1 DEF IdlesMove
<1>6. CASE StopThread
  <2>1. /\ \/ idles' = idles \/ idles' = Append(idles, "compressing")
           \/ idles' = Append(idles, "finalize") \/ idles' = idles \o <<"done">>
           \/ idles' = idles \o <<"error", "done">>
        /\ UNCHANGED <<stage, main, writer, track, reader>> /\ (fd' = "none" => fd = "none")
    BY <1>6 DEF StopThread, Grab, Halt, TellMic, TellSys, FinalizeWav,
       ReleaseLock, Weigh, LaunchFfmpeg, AbortFfmpeg, VerifyOpus, TrashWav,
       Settle, Report, ShowDone, Compress, Stopping, TellStream, Finalize, Post,
       captureVars, readerVars, wavVars, appVars
  <2>2. idles \o <<"done">> = Append(idles, "done")
    BY DEF Types, AppTypeOK
  <2>3. PICK m \in Late :
          \/ idles' = idles \/ idles' = Append(idles, m)
          \/ idles' = idles \o <<"error", "done">>
    BY <1>0, <2>1, <2>2
  <2>4. UNCHANGED <<stage, main, writer, track, reader>> /\ (fd' = "none" => fd = "none")
    BY <2>1
  <2>5. IdlesMove(m)
    BY <2>3 DEF IdlesMove
  <2> QED
    BY <1>3, <2>4, <2>5
<1>7. CASE PollErrors \/ FfmpegExits \/ Exit \/ Kill \/ UNCHANGED recorderVars
  <2>1. UNCHANGED <<idles, stage, main, writer, track, reader, fd>>
    BY <1>7 DEF PollErrors, FfmpegExits, Exit, Kill, Ended, recorderVars, captureVars,
       readerVars, wavVars, appVars
  <2> QED
    BY <1>0, <1>3, <2>1 DEF IdlesMove
<1> QED
  BY <1>1, <1>2, <1>4, <1>5, <1>6, <1>7, StartInitialize DEF RecorderNext, UserSteps

\* The parts of the stop thread's way after each of its steps, up to the end
\* of the compression.
AfterFinalize == {"release", "weigh", "launch", "ffmpeg", "trash", "settle"}
AfterTellSys == AfterFinalize \cup {"finalize"}
AfterTellMic == AfterTellSys \cup {"sys"}
AfterHalt == AfterTellMic \cup {"mic"}

\* Nothing is written and, once the writer is told to halt, nothing will be.
Quiet == writer \in {"off", "done"} /\ track = <<>>

\* A stream that is told and has no process gets none any more, and a file
\* that is closed with its full length stays so.
Stopped(s) == told[s] /\ ~proc[s]
Closed == fd = "closed" /\ header = Len(track)

\* What CompressFollowsStop rests on: what each step of the stop thread has
\* brought to rest stays so, unless the start had not come as far as the
\* writer, and then the file stays empty.
RestInv ==
  /\ thread \in AfterHalt => halt
  /\ thread \in AfterTellMic => Quiet \/ Stopped("mic")
  /\ thread \in AfterTellSys => Quiet \/ Stopped("sys")
  /\ thread \in AfterFinalize => Quiet \/ Closed

StopInv ==
  /\ mine => RestInv
  /\ compressing => /\ mine /\ track # <<>>
                    /\ thread \in {"launch", "ffmpeg", "trash", "settle"}

\* What a step may do to the writer and the file.
LEMMA WriterMoves ==
  ASSUME [RecorderNext]_recorderVars
  PROVE  \/ writer' = writer /\ track' = track
         \/ writer' = writer /\ track' = <<>> /\ main = "sink"
         \/ main = "attach" /\ track' = track /\ writer' = IF halt THEN "done" ELSE "mic"
         \/ WriterStep
<1>1. CASE InitializeSteps
  BY <1>1 DEF InitializeSteps, InitLock, InitOpen, InitStream, InitAttach, OpenWav,
     StartWriter, LoopTop, Finalize, captureVars, wavVars
<1>2. CASE UserSteps \/ IdleSteps \/ PollErrors
  BY <1>2 DEF UserSteps, CountdownEnds, CancelCountdown, StopClicked, EscapePressed,
     Signalled, WindowClosed, IdleSteps, MarkCompressing, ShowError, MarkDone,
     FinalizeApp, RunIdle, PollErrors, RewriteHeader, captureVars, wavVars
<1>3. CASE StopThread
  BY <1>3 DEF StopThread, Grab, Halt, TellMic, TellSys, FinalizeWav,
     ReleaseLock, Weigh, LaunchFfmpeg, AbortFfmpeg, VerifyOpus, TrashWav,
     Settle, Report, ShowDone, Compress, Finalize, captureVars, wavVars
<1>4. CASE CaptureRuns
  BY <1>4 DEF CaptureRuns, Beside, ReaderStep, Read, DropOldest, PutAfterDrop, ReadEnds, ProcDies,
     wavVars
<1>5. CASE FfmpegExits \/ Exit \/ Kill \/ UNCHANGED recorderVars
  BY <1>5 DEF FfmpegExits, Exit, Kill, Ended, recorderVars, captureVars, wavVars
<1> QED
  BY <1>1, <1>2, <1>3, <1>4, <1>5 DEF RecorderNext

\* With the writer told to halt, a quiet file stays quiet.
LEMMA QuietStays ==
  ASSUME StartInv, [RecorderNext]_recorderVars, halt, Quiet
  PROVE  Quiet'
BY WriterMoves DEF Quiet, StartInv, WriterStep, TakeMic, TakeSys, WritePair

\* Once the writer has run, what has come to rest stays so.
LEMMA RestStays ==
  ASSUME Types, StartInv, [RecorderNext]_recorderVars, writer # "off"
  PROVE  /\ \A s \in Streams : Stopped(s) => Stopped(s)'
         /\ fd = "closed" => UNCHANGED wavVars
         /\ track # <<>> => track' # <<>>
<1> USE DEF Stopped
<1>0. /\ proc \in [Streams -> BOOLEAN] /\ "mic" \in Streams /\ "sys" \in Streams
      /\ told \in [Streams -> BOOLEAN]
      /\ track \in Seq([Streams -> Blocks]) /\ hand \in [Streams -> Blocks]
  BY DEF Types, CaptureTypeOK, Streams
<1>1. main = "loop" /\ NoInit
  BY DEF StartInv
<1>2. CASE InitializeSteps
  <2>1. InitLock
    BY <1>1, <1>2 DEF InitializeSteps, InitOpen, InitStream, InitAttach
  <2> QED
    BY <2>1 DEF InitLock, captureVars, readerVars, wavVars
<1>3. CASE UserSteps \/ IdleSteps \/ PollErrors \/ FfmpegExits \/ UNCHANGED recorderVars
  <2>1. /\ UNCHANGED <<readerVars, writer, fd, track>>
        /\ header' = header \/ fd = "open"
    BY <1>3 DEF UserSteps, CountdownEnds, CancelCountdown, StopClicked, EscapePressed,
       Signalled, WindowClosed, IdleSteps, MarkCompressing, ShowError, MarkDone,
       FinalizeApp, RunIdle, PollErrors, RewriteHeader, Rewritten, FfmpegExits,
       recorderVars, captureVars, wavVars
  <2> QED
    BY <2>1 DEF readerVars, wavVars
<1>4. CASE Exit \/ Kill
  BY <1>4 DEF Exit, Kill, Ended, wavVars
<1>5. CASE StopThread
  <2>1. track' = track /\ (fd = "closed" => UNCHANGED wavVars)
    BY <1>5 DEF StopThread, Grab, Halt, TellMic, TellSys, FinalizeWav, ReleaseLock, Weigh,
       LaunchFfmpeg, AbortFfmpeg, VerifyOpus, TrashWav, Settle, Report, ShowDone, Compress,
       TellStream, Finalize, captureVars, readerVars, wavVars
  <2>2. \A s \in Streams : Stopped(s) => Stopped(s)'
    BY <1>0, <1>5 DEF StopThread, Grab, Halt, TellMic, TellSys, FinalizeWav, ReleaseLock,
       Weigh, LaunchFfmpeg, AbortFfmpeg, VerifyOpus, TrashWav, Settle, Report, ShowDone,
       Compress, TellStream, captureVars, readerVars
  <2> QED
    BY <2>1, <2>2
<1>6. CASE CaptureRuns
  <2>1. \A s \in Streams : Stopped(s) => Stopped(s)'
    BY <1>0, <1>6 DEF CaptureRuns, Beside, WriterStep, TakeMic, TakeSys, WritePair,
       ReaderStep, Read, DropOldest, PutAfterDrop, ReadEnds, ProcDies, readerVars
  <2>2. fd = "closed" => UNCHANGED wavVars
    BY <1>6 DEF CaptureRuns, Beside, WriterStep, TakeMic, TakeSys, WritePair, WriteWav,
       Rewritten, ReaderStep, Read, DropOldest, PutAfterDrop, ReadEnds, ProcDies, wavVars
  <2>3. track # <<>> => track' # <<>>
    <3>1. track' = track \/ track' = Append(track, hand)
      BY <1>6 DEF CaptureRuns, Beside, WriterStep, TakeMic, TakeSys, WritePair, WriteWav,
         ReaderStep, Read, DropOldest, PutAfterDrop, ReadEnds, ProcDies, wavVars
    <3> QED
      BY <1>0, <3>1
  <2> QED
    BY <2>1, <2>2, <2>3
<1> QED
  BY <1>2, <1>3, <1>4, <1>5, <1>6 DEF RecorderNext

\* What a step of the stop thread has brought to rest stays at rest.
LEMMA RestKept ==
  ASSUME Types, StartInv, [RecorderNext]_recorderVars, RestInv, thread \in AfterHalt,
         halt'
  PROVE  /\ thread \in AfterTellMic => Quiet' \/ Stopped("mic")'
         /\ thread \in AfterTellSys => Quiet' \/ Stopped("sys")'
         /\ thread \in AfterFinalize => Quiet' \/ Closed'
<1>1. CASE Quiet
  BY <1>1, QuietStays DEF RestInv
<1>2. CASE ~Quiet
  <2>1. writer # "off"
    BY <1>2 DEF Quiet, StartInv
  <2>2. /\ Stopped("mic") => Stopped("mic")'
        /\ Stopped("sys") => Stopped("sys")'
        /\ Closed => Closed'
    BY <2>1, RestStays DEF Streams, Closed, wavVars
  <2> QED
    BY <1>2, <2>2 DEF RestInv
<1> QED
  BY <1>1, <1>2

\* What the invariants above say together.
StopFacts == Types /\ AudioInv /\ HeaderIsHonest /\ StartInv

\* A step that is not the stop thread's keeps StopInv; a first stop request
\* only starts the thread.
LEMMA StopRests ==
  ASSUME StopFacts, StopInv, [RecorderNext]_recorderVars,
         UNCHANGED <<mine, halt, compressing>>,
         thread' = thread \/ (~stopping /\ thread' = "grab")
  PROVE  StopInv'
<1>1. CASE thread' = thread
  <2>1. ASSUME RestInv PROVE RestInv'
    <3>1. CASE thread \in AfterHalt
      <4>1. halt'
        BY <2>1, <3>1 DEF RestInv
      <4> QED
        BY <1>1, <2>1, <3>1, <4>1, RestKept DEF RestInv, StopFacts
    <3>2. CASE thread \notin AfterHalt
      BY <1>1, <3>2 DEF RestInv, AfterHalt, AfterTellMic, AfterTellSys
    <3> QED
      BY <3>1, <3>2
  <2>2. compressing => track' # <<>>
    BY RestStays DEF StopInv, StopFacts, StartInv
  <2> QED
    BY <1>1, <2>1, <2>2 DEF StopInv
<1>2. CASE ~stopping /\ thread' = "grab"
  <2>1. thread = "off"
    BY <1>2 DEF StopFacts, AudioInv
  <2>2. RestInv'
    BY <1>2 DEF RestInv, AfterHalt, AfterTellMic, AfterTellSys, AfterFinalize
  <2>3. ~compressing
    BY <2>1 DEF StopInv
  <2> QED
    BY <2>2, <2>3 DEF StopInv
<1> QED
  BY <1>1, <1>2

\* The stop thread's steps up to the release of the lock: each brings its part
\* to rest.
LEMMA StopStops ==
  ASSUME StopFacts, StopInv, [RecorderNext]_recorderVars,
         Grab \/ Halt \/ TellMic \/ TellSys \/ FinalizeWav
  PROVE  StopInv'
<1> USE DEF AfterHalt, AfterTellMic, AfterTellSys, AfterFinalize
<1>0. /\ "mic" \in Streams /\ "sys" \in Streams
      /\ proc \in [Streams -> BOOLEAN]
      /\ told \in [Streams -> BOOLEAN]
      /\ fd \in {"none", "open", "closed"}
  BY DEF Streams, StopFacts, Types, CaptureTypeOK
<1>1. CASE Grab
  <2>1. /\ thread = "grab" /\ thread' = IF made THEN "halt" ELSE "release"
        /\ mine' = made /\ compressing' = compressing
    BY <1>1 DEF Grab, At, flagVars
  <2>2. ~compressing
    BY <2>1 DEF StopInv
  <2>3. mine' => RestInv'
    BY <2>1 DEF RestInv
  <2> QED
    BY <2>1, <2>2, <2>3 DEF StopInv
<1>2. ASSUME NEW step, NEW next, Stopping(step, next),
             step \notin {"launch", "ffmpeg", "trash", "settle"}, mine => RestInv'
      PROVE  StopInv'
  BY <1>2 DEF Stopping, At, flagVars, StopInv
<1>3. CASE Halt
  BY <1>2, <1>3 DEF Halt, Stopping, RestInv
<1>4. writer = "off" => Quiet
  BY DEF StopFacts, StartInv, Quiet
<1>5. ASSUME halt, writer = "off" PROVE Quiet'
  BY <1>4, <1>5, QuietStays DEF StopFacts
<1>6. CASE TellMic
  <2>1. Stopping("mic", "sys") /\ halt' = halt /\ Stopped("mic")'
    BY <1>0, <1>6 DEF TellMic, TellStream, Stopped
  <2>2. mine => RestInv'
    BY <2>1 DEF Stopping, At, RestInv, StopInv
  <2> QED
    BY <1>2, <2>1, <2>2
<1>7. CASE TellSys
  <2>1. Stopping("sys", "finalize") /\ halt' = halt
    BY <1>7 DEF TellSys
  <2>2. ASSUME mine PROVE RestInv'
    <3>1. RestInv /\ halt /\ thread = "sys" /\ thread' = "finalize"
      BY <2>1, <2>2 DEF Stopping, At, RestInv, StopInv
    <3>2. Quiet' \/ Stopped("mic")'
      BY <2>1, <3>1, RestKept DEF StopFacts
    <3>3. Quiet' \/ Stopped("sys")'
      <4>1. CASE fd = "none"
        BY <1>5, <3>1, <4>1 DEF StopFacts, StartInv
      <4>2. CASE fd # "none"
        BY <1>0, <1>7, <4>2 DEF TellSys, TellStream, Stopped
      <4> QED
        BY <4>1, <4>2
    <3> QED
      BY <2>1, <3>1, <3>2, <3>3 DEF RestInv
  <2> QED
    BY <1>2, <2>1, <2>2
<1>8. CASE FinalizeWav
  <2>1. Stopping("finalize", "release") /\ halt' = halt /\ Finalize
    BY <1>8 DEF FinalizeWav
  <2>2. ASSUME mine PROVE RestInv'
    <3>1. RestInv /\ halt /\ thread = "finalize" /\ thread' = "release"
      BY <2>1, <2>2 DEF Stopping, At, RestInv, StopInv
    <3>2. (Quiet' \/ Stopped("mic")') /\ (Quiet' \/ Stopped("sys")')
      BY <2>1, <3>1, RestKept DEF StopFacts
    <3>3. Quiet' \/ Closed'
      <4>1. CASE fd = "none"
        BY <1>5, <3>1, <4>1 DEF StopFacts, StartInv
      <4>2. CASE fd # "none"
        BY <1>0, <2>1, <4>2 DEF Finalize, StopFacts, HeaderIsHonest, Closed
      <4> QED
        BY <4>1, <4>2
    <3> QED
      BY <2>1, <3>1, <3>2, <3>3 DEF RestInv
  <2> QED
    BY <1>2, <2>1, <2>2
<1> QED
  BY <1>1, <1>3, <1>6, <1>7, <1>8

\* The rest of the stop thread finds everything at rest and leaves it so.
LEMMA StopCompresses ==
  ASSUME StopFacts, StopInv, [RecorderNext]_recorderVars,
         ReleaseLock \/ Weigh \/ LaunchFfmpeg \/ AbortFfmpeg \/ VerifyOpus \/ TrashWav
           \/ Settle \/ Report \/ ShowDone
  PROVE  StopInv'
<1>1. ASSUME mine, thread \in AfterFinalize PROVE RestInv'
  <2>1. RestInv /\ thread \in AfterHalt
    BY <1>1 DEF StopInv, AfterHalt, AfterTellMic, AfterTellSys
  <2>2. halt /\ halt'
    <3>1. UNCHANGED halt
      BY DEF ReleaseLock, Weigh, LaunchFfmpeg, AbortFfmpeg, VerifyOpus, TrashWav, Settle,
         Report, ShowDone, Compress, captureVars
    <3> QED
      BY <2>1, <3>1 DEF RestInv
  <2>3. /\ Quiet' \/ Stopped("mic")'
        /\ Quiet' \/ Stopped("sys")'
        /\ Quiet' \/ Closed'
    <3>1. thread \in AfterTellMic /\ thread \in AfterTellSys
      BY <1>1 DEF AfterTellMic, AfterTellSys
    <3> QED
      BY <1>1, <2>1, <2>2, <3>1, RestKept DEF StopFacts
  <2> QED
    BY <2>2, <2>3 DEF RestInv
<1>2. /\ mine' = mine /\ track' = track
      /\ thread \in AfterFinalize \cup {"report", "show"}
  BY DEF ReleaseLock, Weigh, LaunchFfmpeg, AbortFfmpeg, VerifyOpus, TrashWav, Settle,
     Report, ShowDone, Compress, At, AfterFinalize, captureVars, wavVars
<1>3. /\ compressing' => \/ compressing
                         \/ mine /\ track # <<>> /\ thread' = "launch"
      /\ compressing' => thread' \in {"launch", "ffmpeg", "trash", "settle"}
  <2>1. CASE ReleaseLock \/ Weigh
    BY <2>1 DEF ReleaseLock, Weigh, At, StopInv, flagVars
  <2>2. CASE LaunchFfmpeg \/ AbortFfmpeg \/ VerifyOpus \/ TrashWav
    BY <2>2 DEF LaunchFfmpeg, AbortFfmpeg, VerifyOpus, TrashWav, Compress, At, flagVars
  <2>3. CASE Settle \/ Report \/ ShowDone
    BY <2>3 DEF Settle, Report, ShowDone, At, StopInv, flagVars
  <2> QED
    BY <2>1, <2>2, <2>3
<1>4. ASSUME thread \in {"report", "show"} PROVE RestInv'
  <2>1. thread' \in {"show", "end"}
    BY <1>4 DEF ReleaseLock, Weigh, LaunchFfmpeg, AbortFfmpeg, VerifyOpus, TrashWav, Settle,
       Report, ShowDone, Compress, At
  <2> QED
    BY <2>1 DEF RestInv, AfterHalt, AfterTellMic, AfterTellSys, AfterFinalize
<1> QED
  BY <1>1, <1>2, <1>3, <1>4 DEF StopInv

\* Every step keeps StopInv.
LEMMA StopStep == StopInv /\ StopFacts /\ [RecorderNext]_recorderVars => StopInv'
<1> SUFFICES ASSUME StopInv, StopFacts, [RecorderNext]_recorderVars PROVE StopInv'
  OBVIOUS
<1>1. CASE StopThread
  BY <1>1, StopStops, StopCompresses DEF StopThread
<1>2. CASE InitializeSteps
  BY <1>2, StopRests DEF InitializeSteps, InitLock, InitOpen, InitStream, InitAttach,
     InitFails, InitGoesOn, captureVars, flagVars, threadVars
<1>3. CASE UserSteps
  BY <1>3, StopRests DEF UserSteps, CountdownEnds, CancelCountdown, StopClicked,
     EscapePressed, Signalled, WindowClosed, RequestStop, captureVars, flagVars, threadVars
<1>4. CASE IdleSteps \/ PollErrors \/ FfmpegExits
  BY <1>4, StopRests DEF IdleSteps, MarkCompressing, ShowError, MarkDone, FinalizeApp,
     RunIdle, PollErrors, FfmpegExits, captureVars, flagVars, threadVars
<1>5. CASE CaptureRuns
  BY <1>5, StopRests DEF CaptureRuns, Beside, WriterStep, TakeMic, TakeSys, WritePair,
     ReaderStep, Read, DropOldest, PutAfterDrop, ReadEnds, ProcDies, flagVars, threadVars
<1>6. CASE Exit \/ Kill \/ UNCHANGED recorderVars
  BY <1>6, StopRests DEF Exit, Kill, Ended, recorderVars, captureVars, flagVars, threadVars
<1> QED
  BY <1>1, <1>2, <1>3, <1>4, <1>5, <1>6 DEF RecorderNext

\* The invariants hold together.
LEMMA StopHolds == RecorderSpec => [](StopFacts /\ StopInv)
<1>1. RecorderInit => AudioInv /\ HeaderIsHonest /\ StartInv /\ StopInv
  <2>1. RecorderInit => AudioInv /\ HeaderIsHonest
    BY DEF RecorderInit, CaptureInit, AudioInv, Early, ThreadSteps, HeaderIsHonest,
       Placeholder
  <2>2. RecorderInit => StartInv
    BY DEF RecorderInit, CaptureInit, StartInv, NoInit
  <2>3. RecorderInit => StopInv
    BY DEF RecorderInit, StopInv
  <2> QED
    BY <2>1, <2>2, <2>3
<1>2. StopFacts <=> Types /\ AudioInv /\ HeaderIsHonest /\ StartInv
  BY DEF StopFacts
<1> QED
  BY <1>1, <1>2, AudioStep, HeaderStep, StartStep, StopStep, TypesHold, PTL
     DEF RecorderSpec

\* When the compression begins, and until it has ended, both streams have
\* ended and the file is closed with its full length, even if the stop overtook
\* the start or went on without a thread that did not end (app.py:343-376,
\* capture.py:246-268, 290-385).
THEOREM CompressionFindsRest == RecorderSpec => []CompressFollowsStop
<1>1. StopInv => CompressFollowsStop
  BY DEF StopInv, RestInv, Quiet, Stopped, Closed, CompressFollowsStop, Streams,
     AfterHalt, AfterTellMic, AfterTellSys, AfterFinalize
<1> QED
  BY <1>1, StopHolds, PTL

\* While the compression runs nothing writes to the WAV or its header: no reader
\* or writer that outlived its join, no signal and no late start (capture.py:264,
\* 382, audio.py:110-155, app.py:466-478).
THEOREM RecordingIsFrozen == RecorderSpec => WavIsFrozen
<1>1. StopFacts /\ StopInv /\ [RecorderNext]_recorderVars =>
        [compressing => UNCHANGED wavVars]_recorderVars
  <2> SUFFICES ASSUME StopFacts, StopInv, [RecorderNext]_recorderVars, compressing
               PROVE  UNCHANGED wavVars
    OBVIOUS
  <2>1. ~Quiet /\ RestInv /\ thread \in AfterFinalize
    BY DEF StopInv, Quiet, AfterFinalize
  <2>2. fd = "closed" /\ writer # "off"
    BY <2>1 DEF RestInv, Closed, StopFacts, StartInv, StopInv
  <2> QED
    BY <2>2, RestStays DEF StopFacts
<1> QED
  BY <1>1, StopHolds, PTL DEF RecorderSpec, WavIsFrozen

-----------------------------------------------------------------------------
(* The done screen                                                         *)

NoneQueued(m) == \A i \in 1 .. Len(idles) : idles[i] # m

\* What DoneOffersClose rests on: the stop thread posts the done screen as its
\* last word, after the one that disables the button; by then the start is over,
\* so that no fatal error can disable it either.
DoneInv ==
  /\ thread \in {"launch", "ffmpeg", "trash", "settle", "report", "show"} \/ done =>
       writer # "off"
  /\ done => thread \in {"show", "end"}
  /\ thread # "end" => NoneQueued("done")
  /\ \A i, j \in 1 .. Len(idles) :
       idles[i] = "compressing" /\ idles[j] = "done" => i < j
  /\ app = "up" /\ done /\ thread = "end" /\ NoneQueued("done") =>
       button = "close" /\ NoneQueued("compressing")

\* A message of another kind leaves the two kinds in their order.
LEMMA OtherMessage ==
  ASSUME Types, DoneInv, NEW m \in {"init", "error", "finalize"}, Post(m)
  PROVE  /\ \A n \in {"done", "compressing"} : NoneQueued(n) <=> NoneQueued(n)'
         /\ \A i, j \in 1 .. Len(idles') :
              idles'[i] = "compressing" /\ idles'[j] = "done" => i < j
<1>1. /\ Len(idles) \in Nat /\ Len(idles') = Len(idles) + 1
      /\ \A i \in 1 .. Len(idles) : idles'[i] = idles[i]
      /\ idles'[Len(idles) + 1] = m
  BY DEF Types, AppTypeOK, Post
<1>2. \A i \in 1 .. Len(idles') : i \in 1 .. Len(idles) \/ i = Len(idles) + 1
  BY <1>1
<1>3. 1 .. Len(idles) \subseteq 1 .. Len(idles')
  BY <1>1
<1>4. ASSUME NEW n \in {"done", "compressing"} PROVE NoneQueued(n) <=> NoneQueued(n)'
  BY <1>1, <1>2, <1>3 DEF NoneQueued
<1>5. ASSUME NEW i \in 1 .. Len(idles'), NEW j \in 1 .. Len(idles'),
             idles'[i] = "compressing", idles'[j] = "done"
      PROVE  i < j
  BY <1>1, <1>2, <1>5 DEF DoneInv
<1> QED
  BY <1>4, <1>5

\* The next idle is the only one that is gone once it runs.
LEMMA IdleTaken ==
  ASSUME Types, DoneInv, idles # <<>>, idles' = Tail(idles)
  PROVE  /\ \A n \in {"done", "compressing"} :
              /\ NoneQueued(n) => NoneQueued(n)'
              /\ NoneQueued(n)' /\ Head(idles) # n => NoneQueued(n)
         /\ Head(idles) = "done" => NoneQueued("compressing")'
         /\ \A i, j \in 1 .. Len(idles') :
              idles'[i] = "compressing" /\ idles'[j] = "done" => i < j
         /\ \A n \in {"done", "compressing"} : NoneQueued(n) => Head(idles) # n
<1>1. /\ Len(idles) \in Nat \ {0} /\ Len(idles') = Len(idles) - 1
      /\ \A i \in 1 .. Len(idles) - 1 : idles'[i] = idles[i + 1]
      /\ Head(idles) = idles[1]
  <2>1. idles \in Seq({"init", "compressing", "error", "done", "finalize"})
    BY DEF Types, AppTypeOK
  <2> QED
    BY <2>1, TailAt
<1>2. \A i \in 1 .. Len(idles') :
        i \in Nat /\ i + 1 \in 1 .. Len(idles) /\ idles'[i] = idles[i + 1]
  BY <1>1
<1>3. \A i \in 1 .. Len(idles) : i = 1 \/ (i - 1 \in 1 .. Len(idles') /\ idles'[i - 1] = idles[i])
  BY <1>1
<1>4. 1 \in 1 .. Len(idles)
  BY <1>1
<1>5. ASSUME NEW n \in {"done", "compressing"}
      PROVE  /\ NoneQueued(n) => NoneQueued(n)'
             /\ NoneQueued(n)' /\ Head(idles) # n => NoneQueued(n)
             /\ NoneQueued(n) => Head(idles) # n
  <2>1. NoneQueued(n) => NoneQueued(n)'
    BY <1>2 DEF NoneQueued
  <2>2. NoneQueued(n)' /\ Head(idles) # n => NoneQueued(n)
    BY <1>1, <1>3 DEF NoneQueued
  <2>3. NoneQueued(n) => Head(idles) # n
    BY <1>1, <1>4 DEF NoneQueued
  <2> QED
    BY <2>1, <2>2, <2>3
<1>6. ASSUME NEW i \in 1 .. Len(idles'), NEW j \in 1 .. Len(idles'),
             idles'[i] = "compressing", idles'[j] = "done"
      PROVE  i < j
  <2>1. i + 1 < j + 1
    BY <1>2, <1>6 DEF DoneInv
  <2> QED
    BY <1>2, <2>1
<1>7. ASSUME Head(idles) = "done", NEW i \in 1 .. Len(idles'), idles'[i] = "compressing"
      PROVE  FALSE
  <2>1. i + 1 < 1
    BY <1>1, <1>2, <1>4, <1>7 DEF DoneInv
  <2> QED
    BY <1>2, <2>1
<1> QED
  BY <1>5, <1>6, <1>7 DEF NoneQueued

\* What a step leaves of DoneInv when it posts nothing and keeps the thread
\* where it is.
LEMMA DoneRests ==
  ASSUME DoneInv, UNCHANGED <<idles, thread, done>>, writer # "off" => writer' # "off",
         app' = "up" /\ done => app = "up" /\ button' = button
  PROVE  DoneInv'
BY DEF DoneInv, NoneQueued

\* The writer has started once and for all.
LEMMA WriterStarted ==
  ASSUME [RecorderNext]_recorderVars, writer # "off" PROVE writer' # "off"
BY WriterMoves DEF WriterStep, TakeMic, TakeSys, WritePair, LoopTop

\* The stop thread keeps DoneInv.
LEMMA DoneStop ==
  ASSUME StopFacts, DoneInv, [RecorderNext]_recorderVars, StopThread
  PROVE  DoneInv'
<1>0. writer # "off" => writer' # "off"
  BY WriterStarted
<1>1. CASE Grab \/ Halt \/ TellMic \/ TellSys \/ FinalizeWav \/ ReleaseLock
  <2>1. /\ UNCHANGED <<idles, done>> /\ thread # "end" /\ thread # "show"
        /\ thread' \notin {"launch", "ffmpeg", "trash", "settle", "report", "show", "end"}
    BY <1>1 DEF Grab, Halt, TellMic, TellSys, FinalizeWav,
       ReleaseLock, Stopping, At, flagVars
  <2> QED
    BY <1>0, <2>1 DEF DoneInv, NoneQueued
<1>2. CASE LaunchFfmpeg \/ AbortFfmpeg \/ VerifyOpus \/ TrashWav \/ Settle
  <2>1. /\ UNCHANGED <<idles, done>>
        /\ thread \in {"launch", "ffmpeg", "trash", "settle"}
        /\ thread' \in {"ffmpeg", "trash", "settle", "report"}
    BY <1>2 DEF LaunchFfmpeg, AbortFfmpeg, VerifyOpus, TrashWav, Settle, Compress, At,
       flagVars
  <2> QED
    BY <1>0, <2>1 DEF DoneInv, NoneQueued
<1>3. CASE Weigh
  <2>1. thread = "weigh" /\ ~done /\ done' = done /\ NoneQueued("done")
    BY <1>3 DEF Weigh, At, DoneInv
  <2>2. CASE Post("compressing") /\ thread' = "launch" /\ track # <<>>
    <3>1. writer' # "off"
      BY <1>0, <2>2 DEF StopFacts, StartInv
    <3>2. /\ Len(idles) \in Nat /\ Len(idles') = Len(idles) + 1
          /\ \A i \in 1 .. Len(idles) : idles'[i] = idles[i]
          /\ idles'[Len(idles) + 1] = "compressing"
      BY <2>2 DEF StopFacts, Types, AppTypeOK, Post
    <3>3. NoneQueued("done")'
      BY <2>1, <3>2 DEF NoneQueued
    <3> QED
      BY <2>1, <2>2, <3>1, <3>3 DEF DoneInv, NoneQueued
  <2>3. CASE Post("finalize") /\ thread' = "end"
    <3>1. \A i, j \in 1 .. Len(idles') :
            idles'[i] = "compressing" /\ idles'[j] = "done" => i < j
      BY <2>3, OtherMessage DEF StopFacts
    <3> QED
      BY <2>1, <2>3, <3>1 DEF DoneInv
  <2> QED
    BY <1>3, <2>2, <2>3 DEF Weigh
<1>4. CASE Report
  <2>1. thread = "report" /\ ~done /\ writer' # "off" /\ NoneQueued("done")
    BY <1>0, <1>4 DEF Report, At, DoneInv
  <2>2. CASE Post("finalize") /\ thread' = "end" /\ UNCHANGED done
    <3>1. \A i, j \in 1 .. Len(idles') :
            idles'[i] = "compressing" /\ idles'[j] = "done" => i < j
      BY <2>2, OtherMessage DEF StopFacts
    <3> QED
      BY <2>1, <2>2, <3>1 DEF DoneInv
  <2>3. CASE done' /\ thread' = "show" /\ UNCHANGED idles
    BY <2>1, <2>3 DEF DoneInv, NoneQueued
  <2>4. \/ Post("finalize") /\ thread' = "end" /\ UNCHANGED done
        \/ done' /\ thread' = "show" /\ UNCHANGED idles
    <3>1. CASE outcome \in {"aborted", "crashed"}
      BY <1>4, <3>1 DEF Report
    <3>2. CASE outcome \notin {"aborted", "crashed"}
      BY <1>4, <3>2 DEF Report
    <3> QED
      BY <3>1, <3>2
  <2> QED
    BY <2>2, <2>3, <2>4
<1>5. CASE ShowDone
  <2>1. /\ thread = "show" /\ thread' = "end" /\ done' = done /\ NoneQueued("done")
        /\ writer' # "off"
        /\ idles' = idles \o <<"done">> \/ idles' = idles \o <<"error", "done">>
    BY <1>0, <1>5 DEF ShowDone, At, flagVars, DoneInv
  <2>2. PICK n \in {Len(idles) + 1, Len(idles) + 2} :
          /\ Len(idles) \in Nat /\ Len(idles') = n /\ idles'[n] = "done"
          /\ \A i \in 1 .. Len(idles) : idles'[i] = idles[i]
          /\ \A i \in 1 .. n : i \in 1 .. Len(idles) \/ idles'[i] \in {"error", "done"}
          /\ \A i \in 1 .. n : i \notin 1 .. Len(idles) /\ idles'[i] = "done" => i = n
    <3>1. idles \in Seq({"init", "compressing", "error", "done", "finalize"})
      BY DEF StopFacts, Types, AppTypeOK
    <3> QED
      BY <2>1, <3>1
  <2>3. ~NoneQueued("done")'
    BY <2>2 DEF NoneQueued
  <2>4. ASSUME NEW i \in 1 .. Len(idles'), NEW j \in 1 .. Len(idles'),
               idles'[i] = "compressing", idles'[j] = "done"
        PROVE  i < j
    <3>1. i \in 1 .. Len(idles)
      BY <2>2, <2>4
    <3>2. j \notin 1 .. Len(idles)
      BY <2>1, <2>2, <2>4 DEF NoneQueued
    <3> QED
      BY <2>2, <3>1, <3>2
  <2> QED
    BY <2>1, <2>3, <2>4 DEF DoneInv
<1> QED
  BY <1>1, <1>2, <1>3, <1>4, <1>5 DEF StopThread

\* The main loop's handlers and idles keep DoneInv.
LEMMA DoneLoop ==
  ASSUME StopFacts, DoneInv, [RecorderNext]_recorderVars, UserSteps \/ IdleSteps
  PROVE  DoneInv'
<1>0. writer' = writer
  BY DEF UserSteps, CountdownEnds, CancelCountdown, StopClicked, EscapePressed,
     Signalled, WindowClosed, IdleSteps, MarkCompressing, ShowError, MarkDone,
     FinalizeApp, RunIdle, captureVars
<1>1. CASE CountdownEnds
  <2>1. /\ stage = "countdown" /\ Post("init") /\ UNCHANGED <<thread, done>>
    BY <1>1 DEF CountdownEnds, flagVars, threadVars
  <2>2. writer = "off"
    BY <2>1 DEF StopFacts, StartInv
  <2>3. ~done
    BY <2>2 DEF DoneInv
  <2> QED
    BY <1>0, <2>1, <2>2, <2>3, OtherMessage DEF DoneInv, StopFacts
<1>2. CASE CancelCountdown
  BY <1>0, <1>2, DoneRests DEF CancelCountdown, flagVars, threadVars, uiVars
<1>3. ASSUME RequestStop, app' = app PROVE DoneInv'
  <2>1. CASE done
    <3>1. Post("finalize") /\ UNCHANGED <<thread, done, button>>
      BY <1>3, <2>1 DEF RequestStop
    <3> QED
      BY <1>0, <1>3, <3>1, OtherMessage DEF DoneInv, StopFacts
  <2>2. CASE ~done /\ stopping
    BY <1>0, <1>3, <2>2, DoneRests DEF RequestStop
  <2>3. CASE ~done /\ ~stopping
    <3>1. /\ thread' = "grab" /\ UNCHANGED <<idles, done>>
      BY <1>3, <2>3 DEF RequestStop
    <3>2. thread = "off"
      BY <2>3 DEF StopFacts, AudioInv
    <3> QED
      BY <1>0, <2>3, <3>1, <3>2 DEF DoneInv, NoneQueued
  <2> QED
    BY <2>1, <2>2, <2>3
<1>4. CASE StopClicked \/ EscapePressed \/ Signalled
  BY <1>3, <1>4 DEF StopClicked, EscapePressed, Signalled, appVars
<1>5. CASE WindowClosed
  <2>1. CASE app' = "quitting" /\ UNCHANGED <<idles, flagVars, threadVars, uiVars>>
    BY <1>0, <2>1, DoneRests DEF flagVars, threadVars, uiVars
  <2> QED
    BY <1>3, <1>5, <2>1 DEF WindowClosed
<1>6. CASE IdleSteps
  <2>1. /\ idles # <<>> /\ idles' = Tail(idles) /\ UNCHANGED <<thread, done>>
        /\ app' = app \/ app' = "quitting"
    BY <1>6 DEF IdleSteps, MarkCompressing, ShowError, MarkDone, FinalizeApp, RunIdle,
       flagVars, threadVars
  <2>2. \/ Head(idles) = "compressing" /\ button' = "off" /\ app' = app
        \/ Head(idles) = "error" /\ button' = button /\ app' = app
        \/ /\ Head(idles) = "done" /\ app' = app
           /\ button' = IF app = "up" THEN "close" ELSE button
        \/ app' = "quitting"
    BY <1>6 DEF IdleSteps, MarkCompressing, ShowError, MarkDone, FinalizeApp
  <2>3. ASSUME app' = "up", done, thread = "end", NoneQueued("done")'
        PROVE  button' = "close" /\ NoneQueued("compressing")'
    BY <2>1, <2>2, <2>3, IdleTaken DEF DoneInv, StopFacts
  <2> QED
    BY <1>0, <2>1, <2>3, IdleTaken DEF DoneInv, StopFacts
<1> QED
  BY <1>1, <1>2, <1>4, <1>5, <1>6 DEF UserSteps

\* Every step keeps DoneInv.
LEMMA DoneStep == DoneInv /\ StopFacts /\ [RecorderNext]_recorderVars => DoneInv'
<1> SUFFICES ASSUME DoneInv, StopFacts, [RecorderNext]_recorderVars PROVE DoneInv'
  OBVIOUS
<1>0. writer # "off" => writer' # "off"
  BY WriterStarted
<1>1. CASE InitializeSteps
  <2>1. main # "loop" \/ ~NoInit
    <3>1. ASSUME InitLock PROVE ~NoInit
      <4>1. idles # <<>> /\ Head(idles) = "init"
        BY <3>1 DEF InitLock
      <4>2. 1 \in 1 .. Len(idles) /\ idles[1] = "init"
        BY <4>1 DEF StopFacts, Types, AppTypeOK
      <4> QED
        BY <4>2 DEF NoInit
    <3> QED
      BY <1>1, <3>1 DEF InitializeSteps, InitOpen, InitStream, InitAttach
  <2>2. writer = "off"
    BY <2>1 DEF StopFacts, StartInv
  <2>3. /\ thread \notin {"launch", "ffmpeg", "trash", "settle", "report", "show"}
        /\ ~done
    BY <2>2 DEF DoneInv
  <2>4. UNCHANGED <<thread, done>>
    BY <1>1 DEF InitializeSteps, InitLock, InitOpen, InitStream, InitAttach, InitFails,
       InitGoesOn, flagVars, threadVars
  <2>5. CASE idles' = idles
    BY <2>3, <2>4, <2>5 DEF DoneInv, NoneQueued
  <2>6. CASE idles # <<>> /\ idles' = Tail(idles)
    BY <2>3, <2>4, <2>6, IdleTaken DEF DoneInv, StopFacts
  <2> QED
    BY <1>1, <2>5, <2>6 DEF InitializeSteps, InitLock, InitOpen, InitStream, InitAttach,
       InitFails, InitGoesOn
<1>2. CASE PollErrors \/ FfmpegExits \/ CaptureRuns
  BY <1>0, <1>2, DoneRests DEF PollErrors, FfmpegExits, CaptureRuns, Beside, appVars,
     flagVars, threadVars, uiVars
<1>3. CASE Exit \/ Kill \/ UNCHANGED recorderVars
  BY <1>0, <1>3, DoneRests DEF Exit, Kill, Ended, recorderVars, appVars, flagVars,
     threadVars, uiVars
<1> QED
  BY <1>1, <1>2, <1>3, DoneStop, DoneLoop DEF RecorderNext

\* Once the stop thread has ended on the done screen and its idles have run, the
\* button closes the window: neither the message that the compression began nor
\* an error of the start comes after it (app.py:378-400, ui.py:266-275).
THEOREM DoneScreenCloses == RecorderSpec => []DoneOffersClose
<1>1. RecorderInit => AudioInv /\ HeaderIsHonest /\ StartInv /\ DoneInv
  <2>1. RecorderInit => AudioInv /\ HeaderIsHonest
    BY DEF RecorderInit, CaptureInit, AudioInv, Early, ThreadSteps, HeaderIsHonest,
       Placeholder
  <2>2. RecorderInit => StartInv
    BY DEF RecorderInit, CaptureInit, StartInv, NoInit
  <2>3. RecorderInit => DoneInv
    BY DEF RecorderInit, DoneInv, NoneQueued
  <2> QED
    BY <2>1, <2>2, <2>3
<1>2. Types /\ DoneInv => DoneOffersClose
  BY DEF DoneInv, DoneOffersClose, NoneQueued, Types, AppTypeOK
<1>3. StopFacts <=> Types /\ AudioInv /\ HeaderIsHonest /\ StartInv
  BY DEF StopFacts
<1> QED
  BY <1>1, <1>2, <1>3, AudioStep, HeaderStep, StartStep, DoneStep, TypesHold, PTL
     DEF RecorderSpec

=============================================================================
