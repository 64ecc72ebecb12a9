----------------------------- MODULE PromiseProofs -----------------------------
(***************************************************************************)
(* Session keeps the promise of Dictation, step by step: what the screen   *)
(* holds and what was delivered follow from the order in which a worker    *)
(* queues its deltas and its result, for every number of them.             *)
(***************************************************************************)
EXTENDS SessionBatchProofs

\* What an `early` source posted runs before what a `late` one did.
Before(early, late) ==
  \A i, j \in 1..Len(loop) : loop[i] = early /\ loop[j] = late => i < j

\* A transcript that has words has them on the screen, or on their way there.
BatchShown ==
  /\ batch = "none" => batchText = "empty" /\ ~Waits("batch_delta")
  /\ Before("batch_delta", "batch_done")
  /\ state = "TRANSCRIBING" => view.had \/ batchText = "empty" \/ Waits("batch_delta")

\* The transcript stands whole until the first cleaned words replace it.
CleanShown ==
  /\ cleanup = "none" => cleanPosts = 0
  /\ cleanPosts = 0 => ~Waits("cleanup_delta")
  /\ Before("cleanup_delta", "cleanup_done")
  /\ state = "CLEANING" /\ cleanup # "none" =>
       IF cleanPosts = 0 THEN view.stage = "batch" /\ view.whole
       ELSE view.stage = "cleaned" \/ Waits("cleanup_delta")

HadShown ==
  ~view.had => view.stage = "none" /\ view.liveText = "empty" /\ sent.result = "none"

TrashIsOver == trashed => state \in Terminal /\ TrashHoldsNoText

\* What has been delivered by when.
Delivered ==
  /\ Recording \/ state = "TRANSCRIBING" => sent.result = "none" /\ sent.verdict = "none"
  /\ state = "CLEANING" => sent.result = "batch" /\ sent.verdict = "none"
  /\ OutcomeStands

Shown == BatchShown /\ CleanShown /\ HadShown /\ TrashIsOver /\ Delivered
PromiseInv == WorkInv /\ Shown

-----------------------------------------------------------------------------
(* The queue                                                               *)

Deltas == {"batch_delta", "cleanup_delta"}

\* One step on the queue: q is what it found, less the task it took.
LEMMA QueueOrder ==
  ASSUME loop \in Seq(Tasks), NEW t \in Tasks, NEW q,
         q = loop \/ (loop # <<>> /\ q = Tail(loop)), loop' = q \/ loop' = Append(q, t)
  PROVE  /\ \A u : u # t \/ loop' = q => (Waits(u)' => Waits(u))
         /\ \A u : q = loop \/ u # Head(loop) => (Waits(u) => Waits(u)')
         /\ \A early, late : Before(early, late) /\ early # late
              /\ (early # t \/ loop' = q \/ ~Waits(late)) => Before(early, late)'
<1>0. q \in Seq(Tasks) /\ Len(q) \in Nat /\ Len(loop) \in Nat
  OBVIOUS
<1>1. PICK d \in {0, 1} :
        /\ Len(loop) = Len(q) + d
        /\ \A i \in 1..Len(q) : i + d \in 1..Len(loop) /\ q[i] = loop[i + d]
        /\ d = 0 => q = loop
        /\ d = 1 => loop[1] = Head(loop)
  <2>1. CASE q = loop
    <3>1. /\ Len(loop) = Len(q) + 0
          /\ \A i \in 1..Len(q) : i + 0 \in 1..Len(loop) /\ q[i] = loop[i + 0]
          /\ 0 = 0 => q = loop
          /\ 0 = 1 => loop[1] = Head(loop)
      BY <1>0, <2>1
    <3> QED
      BY <3>1
  <2>2. CASE loop # <<>> /\ q = Tail(loop)
    <3>1. /\ Len(loop) = Len(q) + 1
          /\ \A i \in 1..Len(q) : i + 1 \in 1..Len(loop) /\ q[i] = loop[i + 1]
          /\ 1 = 0 => q = loop
          /\ 1 = 1 => loop[1] = Head(loop)
      BY <1>0, <2>2
    <3> QED
      BY <3>1
  <2> QED
    BY <2>1, <2>2
<1>2. /\ \A i \in 1..Len(q) : i \in 1..Len(loop') /\ loop'[i] = q[i]
      /\ \A i \in 1..Len(loop') : \/ i \in 1..Len(q)
                                  \/ i = Len(q) + 1 /\ loop'[i] = t /\ loop' # q
      /\ Len(loop') \in Nat
  <2>1. CASE loop' = q
    BY <1>0, <2>1
  <2>2. CASE loop' # q
    <3>1. loop' = Append(q, t)
      BY <2>2
    <3>2. /\ Len(loop') = Len(q) + 1 /\ loop'[Len(q) + 1] = t
          /\ \A i \in 1..Len(q) : loop'[i] = q[i]
      BY <1>0, <3>1
    <3> QED
      BY <1>0, <2>2, <3>2
  <2> QED
    BY <2>1, <2>2
<1>3. \A u : u # t \/ loop' = q => (Waits(u)' => Waits(u))
  <2>1. ASSUME NEW u, u # t \/ loop' = q, NEW i \in 1..Len(loop'), loop'[i] = u
        PROVE  Waits(u)
    <3>1. i \in 1..Len(q) /\ q[i] = u
      BY <1>2, <2>1
    <3>2. i + d \in 1..Len(loop) /\ loop[i + d] = u
      BY <1>1, <3>1
    <3> QED
      BY <3>2 DEF Waits
  <2> QED
    BY <2>1 DEF Waits
<1>4. \A u : q = loop \/ u # Head(loop) => (Waits(u) => Waits(u)')
  <2>1. ASSUME NEW u, q = loop \/ u # Head(loop), NEW i \in 1..Len(loop), loop[i] = u
        PROVE  Waits(u)'
    <3>1. i - d \in 1..Len(q) /\ q[i - d] = u
      <4>1. CASE q = loop
        <5>1. d = 0
          BY <1>0, <1>1, <4>1
        <5> QED
          BY <2>1, <4>1, <5>1
      <4>2. CASE q # loop
        <5>1. d = 1 /\ i # 1
          BY <1>1, <2>1, <4>2
        <5>2. i - d \in 1..Len(q)
          BY <1>0, <1>1, <5>1
        <5>3. q[i - d] = loop[(i - d) + d]
          BY <1>1, <5>2
        <5> QED
          BY <2>1, <5>1, <5>2, <5>3
      <4> QED
        BY <4>1, <4>2
    <3>2. i - d \in 1..Len(loop') /\ loop'[i - d] = u
      BY <1>2, <3>1
    <3> QED
      BY <3>2 DEF Waits
  <2> QED
    BY <2>1 DEF Waits
<1>5. ASSUME NEW early, NEW late, Before(early, late), early # late,
             early # t \/ loop' = q \/ ~Waits(late)
      PROVE  Before(early, late)'
  <2>1. ASSUME NEW i \in 1..Len(loop'), NEW j \in 1..Len(loop'),
               loop'[i] = early, loop'[j] = late
        PROVE  i < j
    <3>1. CASE i \in 1..Len(q) /\ j \in 1..Len(q)
      <4>1. loop[i + d] = early /\ loop[j + d] = late
        BY <1>1, <1>2, <2>1, <3>1
      <4>2. i + d < j + d
        BY <1>1, <1>5, <3>1, <4>1 DEF Before
      <4> QED
        BY <4>2
    <3>2. CASE i \in 1..Len(q) /\ j \notin 1..Len(q)
      BY <1>0, <1>2, <3>2
    <3>3. CASE i \notin 1..Len(q)
      <4>1. early = t /\ loop' # q /\ i = Len(q) + 1
        BY <1>2, <2>1, <3>3
      <4>2. j \in 1..Len(q) /\ q[j] = late
        BY <1>2, <1>5, <2>1, <4>1
      <4>3. j + d \in 1..Len(loop) /\ loop[j + d] = late
        BY <1>1, <4>2
      <4> QED
        BY <1>5, <4>1, <4>3 DEF Waits
    <3> QED
      BY <3>1, <3>2, <3>3
  <2> QED
    BY <2>1 DEF Before
<1> QED
  BY <1>3, <1>4, <1>5

-----------------------------------------------------------------------------
(* Steps that leave the screen alone                                       *)

\* No text, no result, no news of either but a result after its deltas.
Still ==
  /\ UNCHANGED <<view, sent, batchText, cleanPosts>>
  /\ \A u \in Deltas : Waits(u)' => Waits(u)
  /\ state' = "TRANSCRIBING" /\ Waits("batch_delta") => Waits("batch_delta")'
  /\ state' = "CLEANING" /\ Waits("cleanup_delta") => Waits("cleanup_delta")'
  /\ Before("batch_delta", "batch_done")' /\ Before("cleanup_delta", "cleanup_done")'
  /\ batch' = "none" => batch = "none"
  /\ cleanup' = "none" <=> cleanup = "none"
  /\ state' = "READY" \/ state' = "CLEANING" => state' = state
  /\ trashed' => trashed \/ (~view.had /\ state' \in Terminal)

PromiseStep == [Promise!Next]_(Promise!vars)

\* The moves that deliver nothing and end nothing well.
LEMMA QuietMoves ==
  ASSUME UNCHANGED <<view, sent>>,
         \/ state' = state
         \/ state = "INITIALIZING" /\ state' \in {"WARMING", "ERROR"}
         \/ state = "WARMING" /\ state' = "RECORDING"
         \/ state \in Capture /\ state' = "TRANSCRIBING"
         \/ state \in InFlight /\ state' = "CANCELLED"
  PROVE  PromiseStep
<1>1. CASE state' = state
  BY <1>1 DEF PromiseStep, Promise!vars
<1>2. CASE state' # state
  BY <1>2
     DEF PromiseStep, Promise!Next, Promise!WarmUp, Promise!Record, Promise!Fail,
         Promise!StopRecording, Promise!Abandon, Promise!Move, Promise!Capture,
         Promise!InFlight, Promise!Working, Capture, InFlight, Working
<1> QED
  BY <1>1, <1>2

\* A still step keeps what the screen owes, and is one of the promise's.
LEMMA StillKeeps ==
  ASSUME PromiseInv, Still, [Next]_vars
  PROVE  Shown' /\ PromiseStep
<1>1. \/ state' = state
      \/ state = "INITIALIZING" /\ state' \in {"WARMING", "ERROR"}
      \/ state = "WARMING" /\ state' = "RECORDING"
      \/ state \in Capture /\ state' = "TRANSCRIBING"
      \/ state \in InFlight /\ state' = "CANCELLED"
  BY Moves DEF Still
<1>2. Recording => batch = "none"
  BY DEF PromiseInv, WorkInv, BatchInv, BeginsOnce, StopperOwns
<1>3. BatchShown'
  BY <1>1, <1>2 DEF PromiseInv, Shown, BatchShown, Still, Deltas, Recording
<1>4. CleanShown'
  BY <1>1 DEF PromiseInv, Shown, CleanShown, Still, Deltas
<1>5. HadShown'
  BY DEF PromiseInv, Shown, HadShown, Still
<1>6. TrashIsOver'
  <2>1. state \in Terminal => state' \in Terminal
    BY <1>1 DEF Terminal, Capture, InFlight, Working
  <2> QED
    BY <2>1 DEF PromiseInv, Shown, TrashIsOver, HadShown, TrashHoldsNoText, Still
<1>7. Delivered'
  <2>1. Recording' \/ (state = "TRANSCRIBING")' => Recording \/ state = "TRANSCRIBING"
    BY <1>1 DEF Recording, Capture
  <2>2. OutcomeStands'
    BY DEF PromiseInv, Shown, Delivered, OutcomeStands, Promise!OutcomeStands, Still
  <2> QED
    BY <2>1, <2>2 DEF PromiseInv, Shown, Delivered, Still
<1>8. PromiseStep
  BY <1>1, QuietMoves DEF Still
<1> QED
  BY <1>3, <1>4, <1>5, <1>6, <1>7, <1>8 DEF Shown

\* What a still step may do to the queue.
LEMMA StillQueue ==
  ASSUME PromiseInv, NEW q, q = loop \/ (loop # <<>> /\ q = Tail(loop)),
         loop' = q \/ \E t \in Tasks \ Deltas : loop' = Append(q, t)
  PROVE  /\ \A u \in Deltas : Waits(u)' => Waits(u)
         /\ \A u \in Deltas : q = loop \/ Head(loop) # u => (Waits(u) => Waits(u)')
         /\ Before("batch_delta", "batch_done")' /\ Before("cleanup_delta", "cleanup_done")'
<1>1. loop \in Seq(Tasks)
  BY DEF PromiseInv, WorkInv, BatchInv, OwnInv, TypeOK
<1>2. PICK t \in Tasks \ Deltas : loop' = q \/ loop' = Append(q, t)
  BY DEF Tasks, Deltas
<1>3. "batch_delta" # t /\ "cleanup_delta" # t
  BY <1>2 DEF Deltas
<1>4. Before("batch_delta", "batch_done") /\ Before("cleanup_delta", "cleanup_done")
  BY DEF PromiseInv, Shown, BatchShown, CleanShown
<1>5. t \in Tasks
  BY <1>2
<1>6. /\ \A u : u # t \/ loop' = q => (Waits(u)' => Waits(u))
      /\ \A u : q = loop \/ u # Head(loop) => (Waits(u) => Waits(u)')
      /\ \A early, late : Before(early, late) /\ early # late
           /\ (early # t \/ loop' = q \/ ~Waits(late)) => Before(early, late)'
  BY <1>1, <1>2, <1>5, QueueOrder
<1>7. "batch_delta" # "batch_done" /\ "cleanup_delta" # "cleanup_done"
  OBVIOUS
<1> QED
  BY <1>3, <1>4, <1>6, <1>7 DEF Deltas

\* A step that posts nothing that counts and touches nothing of the text.
LEMMA StillIs ==
  ASSUME PromiseInv, NEW q, q = loop \/ (loop # <<>> /\ q = Tail(loop)),
         loop' = q \/ \E t \in Tasks \ Deltas : loop' = Append(q, t),
         q = loop \/ (Head(loop) = "batch_delta" => state' # "TRANSCRIBING"),
         q = loop \/ (Head(loop) = "cleanup_delta" => state' # "CLEANING"),
         UNCHANGED <<view, sent, batchText, cleanPosts>>,
         batch' = "none" => batch = "none", cleanup' = "none" <=> cleanup = "none",
         state' = "READY" \/ state' = "CLEANING" => state' = state,
         trashed' => trashed \/ (~view.had /\ state' \in Terminal)
  PROVE  Still
<1>1. /\ \A u \in Deltas : Waits(u)' => Waits(u)
      /\ \A u \in Deltas : q = loop \/ Head(loop) # u => (Waits(u) => Waits(u)')
      /\ Before("batch_delta", "batch_done")' /\ Before("cleanup_delta", "cleanup_done")'
  BY StillQueue
<1> QED
  BY <1>1 DEF Still, Deltas

\* The transitions that end nothing well.
LEMMA StillReach ==
  ASSUME PromiseInv, NEW new \in {"WARMING", "RECORDING", "TRANSCRIBING", "CANCELLED", "ERROR"},
         Reach(new, loop),
         UNCHANGED <<view, sent, batchText, cleanPosts>>,
         trashed' => trashed \/ (~view.had /\ new \in Terminal)
  PROVE  Still
<1>1. loop' = loop \/ loop' = Append(loop, "begin_transcribing")
  BY DEF Reach
<1>2. "begin_transcribing" \in Tasks \ Deltas
  BY DEF Tasks, Deltas
<1>3. state' = new
  BY DEF Reach
<1>4. (batch' = "none" => batch = "none") /\ (cleanup' = "none" <=> cleanup = "none")
  BY DEF Reach, CancelWorker, KeepEverything
<1> QED
  BY <1>1, <1>2, <1>3, <1>4, StillIs

\* Commands, signals and the end of the process.
LEMMA PromiseCommands ==
  ASSUME PromiseInv, Commands \/ Vanish
  PROVE  Still
<1>1. CASE FailStartup \/ Stop \/ Cancel
  <2>1. PICK new \in {"ERROR", "TRANSCRIBING", "CANCELLED"} : Reach(new, loop)
    BY <1>1 DEF FailStartup, Stop, Cancel
  <2>2. UNCHANGED <<view, sent, batchText, cleanPosts, trashed>>
    BY <1>1 DEF FailStartup, Stop, Cancel, procVars, postVars
  <2> QED
    BY <2>1, <2>2, StillReach
<1>2. CASE Start
  <2>1. UNCHANGED <<view, sent, batchText, cleanPosts, trashed>>
    BY <1>2 DEF Start, postVars
  <2>2. CASE Reach("ERROR", loop)
    BY <2>1, <2>2, StillReach
  <2>3. CASE ~Reach("ERROR", loop)
    <3>1. UNCHANGED <<loop, batch, cleanup>> /\ state' \in {state, "ERROR"}
      BY <1>2, <2>3 DEF Start
    <3> QED
      BY <2>1, <3>1, StillIs
  <2> QED
    BY <2>2, <2>3
<1>3. ASSUME NEW trashIfEmpty \in BOOLEAN, Close(trashIfEmpty) PROVE Still
  <2>1. /\ UNCHANGED <<view, sent, batchText, cleanPosts>>
        /\ trashed' => ~view.had
    BY <1>3 DEF Close, postVars
  <2>2. CASE Reach("CANCELLED", loop)
    BY <2>1, <2>2, StillReach DEF Terminal
  <2>3. CASE ~Reach("CANCELLED", loop)
    <3>1. /\ batch' = CancelWorker(batch) /\ cleanup' = CancelWorker(cleanup)
          /\ UNCHANGED <<state, loop>> /\ state \in Terminal
      BY <1>3, <2>3 DEF Close
    <3>2. (batch' = "none" => batch = "none") /\ (cleanup' = "none" <=> cleanup = "none")
      BY <3>1 DEF CancelWorker
    <3> QED
      BY <2>1, <3>1, <3>2, StillIs
  <2> QED
    BY <2>2, <2>3
<1>4. CASE Signal \/ Vanish
  <2>1. UNCHANGED <<loop, batch, cleanup, state, view, sent, batchText, cleanPosts, trashed>>
    BY <1>4 DEF Signal, Vanish, coreVars, postVars
  <2> QED
    BY <2>1, StillIs
<1> QED
  BY <1>1, <1>2, <1>3, <1>4 DEF Commands

\* A worker queues a delta before its result, and another thread neither.
LEMMA PromiseThreads ==
  ASSUME PromiseInv, Threads, [Next]_vars
  PROVE  Shown' /\ PromiseStep
<1>0. loop \in Seq(Tasks) /\ Deltas \subseteq Tasks /\ cleanPosts \in Nat
  BY DEF PromiseInv, WorkInv, BatchInv, OwnInv, TypeOK, Deltas, Tasks
<1>1. CASE Boot \/ Stopper \/ (\E job \in jobs : Teardown(job)) \/ PreviewPosts
           \/ BatchEnds \/ CleanupEnds
  <2>1. /\ UNCHANGED <<state, trashed, view, sent, batchText, cleanPosts>>
        /\ batch' = batch \/ batch' = "ended"
        /\ cleanup' = cleanup \/ (cleanup = "streaming" /\ cleanup' = "ended")
    BY <1>1
       DEF Boot, BootBegin, BootOpenMic, BootPublishMic, BootBuildClient, BootPublishClient,
           BootCheckPreview, BootPublishPreview, BootConnectPreview, BootFinish, BootFrame,
           Stopper, StopMic, AwaitBoot, StopPreview, StopFrame, Teardown, PreviewPosts,
           BatchEnds, BatchCompletes, BatchFails, CleanupEnds, CleanupCompletes,
           CleanupFails, WorkerFrame, procVars, postVars
  <2>2. loop' = loop \/ \E t \in {"audio_error", "enter_warming", "set_live_len",
            "start_batch", "live_words", "live_blank", "ws_error", "batch_done",
            "batch_error", "cleanup_done", "cleanup_error"} : Post(t)
    BY <1>1
       DEF Boot, BootBegin, BootOpenMic, BootPublishMic, BootBuildClient, BootPublishClient,
           BootCheckPreview, BootPublishPreview, BootConnectPreview, BootFinish, resVars,
           Stopper, StopMic, AwaitBoot, StopPreview, Teardown, PreviewPosts,
           BatchEnds, BatchCompletes, BatchFails, CleanupEnds, CleanupCompletes, CleanupFails
  <2>3. loop' = loop \/ \E t \in Tasks \ Deltas : loop' = Append(loop, t)
    BY <2>2 DEF Post, Tasks, Deltas
  <2>4. Still
    BY <2>1, <2>3, StillIs
  <2> QED
    BY <2>4, StillKeeps
<1>2. ASSUME NEW t \in Deltas, Post(t),
             UNCHANGED <<state, trashed, view, sent, batch, cleanup>>,
             /\ t = "batch_delta" => batch = "streaming" /\ UNCHANGED cleanPosts
             /\ t = "cleanup_delta" => /\ cleanup = "streaming"
                                       /\ cleanPosts' = cleanPosts + 1
                                       /\ UNCHANGED batchText
      PROVE  Shown' /\ PromiseStep
  <2>1. loop' = Append(loop, t) /\ t \in Tasks
    BY <1>0, <1>2 DEF Post
  <2>2. /\ \A u : u # t => (Waits(u)' => Waits(u))
        /\ \A u : Waits(u) => Waits(u)'
        /\ \A early, late : Before(early, late) /\ early # late
             /\ (early # t \/ ~Waits(late)) => Before(early, late)'
    BY <1>0, <2>1, QueueOrder
  <2>3. Waits(t)'
    <3>1. Len(loop') \in 1..Len(loop') /\ loop'[Len(loop')] = t
      BY <1>0, <2>1
    <3> QED
      BY <3>1 DEF Waits
  <2>4. /\ t = "batch_delta" => ~Waits("batch_done")
        /\ t = "cleanup_delta" => ~Waits("cleanup_done")
    BY <1>2 DEF PromiseInv, WorkInv, BatchWorks, CleanupWorks
  <2>5. Before("batch_delta", "batch_done") /\ Before("cleanup_delta", "cleanup_done")
    BY DEF PromiseInv, Shown, BatchShown, CleanShown
  <2>6. Before("batch_delta", "batch_done")'
    <3>1. "batch_delta" # "batch_done"
      OBVIOUS
    <3> QED
      BY <2>2, <2>4, <2>5, <3>1
  <2>7. Before("cleanup_delta", "cleanup_done")'
    <3>1. "cleanup_delta" # "cleanup_done"
      OBVIOUS
    <3> QED
      BY <2>2, <2>4, <2>5, <3>1
  <2>8. BatchShown'
    BY <1>2, <2>2, <2>3, <2>6 DEF PromiseInv, Shown, BatchShown, Deltas
  <2>9. CleanShown'
    BY <1>0, <1>2, <2>2, <2>3, <2>7 DEF PromiseInv, Shown, CleanShown, Deltas
  <2>10. HadShown' /\ TrashIsOver' /\ Delivered'
    BY <1>2
       DEF PromiseInv, Shown, HadShown, TrashIsOver, TrashHoldsNoText, Delivered, Recording,
           OutcomeStands, Promise!OutcomeStands
  <2>11. PromiseStep
    BY <1>2, QuietMoves
  <2> QED
    BY <2>8, <2>9, <2>10, <2>11 DEF Shown
<1>3. CASE BatchDelta
  BY <1>2, <1>3 DEF BatchDelta, WorkerFrame, procVars, Deltas
<1>4. CASE CleanupDelta
  BY <1>2, <1>4 DEF CleanupDelta, WorkerFrame, procVars, Deltas
<1> QED
  BY <1>1, <1>3, <1>4 DEF Threads

-----------------------------------------------------------------------------
(* The main loop's callbacks                                               *)

\* A callback that finds the state changed, or whose task is not a text.
LEMMA StillTaken ==
  ASSUME PromiseInv, NEW t \in Tasks, Take(t), IdleFrame,
         loop' = Tail(loop), UNCHANGED <<view, sent>>,
         t = "batch_delta" => state' # "TRANSCRIBING",
         t = "cleanup_delta" => state' # "CLEANING",
         batch' = "none" => batch = "none", cleanup' = cleanup,
         state' = "READY" \/ state' = "CLEANING" => state' = state
  PROVE  Still
<1>1. loop # <<>> /\ Head(loop) = t
  BY DEF Take
<1>2. UNCHANGED <<batchText, cleanPosts, trashed>>
  BY DEF IdleFrame, procVars, postVars
<1> QED
  BY <1>1, <1>2, StillIs

\* What the callbacks that move no text do.
LEMMA PromiseQuietIdle ==
  ASSUME PromiseInv,
         WarmingEnds \/ EnterWarming \/ AudioError \/ WsError \/ BeginTranscribing
           \/ StartBatch \/ SetLiveLen
  PROVE  Still
<1>0. \A t \in {"enter_warming", "audio_error", "ws_error", "begin_transcribing",
                "start_batch", "set_live_len"} : t \in Tasks \ Deltas
  BY DEF Tasks, Deltas
<1>1. CASE WarmingEnds
  BY <1>1, StillReach DEF WarmingEnds, procVars, postVars
<1>2. CASE EnterWarming
  <2>1. Take("enter_warming") /\ IdleFrame
    BY <1>2 DEF EnterWarming
  <2>2. CASE Skip
    BY <1>0, <2>1, <2>2, StillTaken DEF Skip, KeepEverything, Deltas
  <2>3. CASE ~Skip
    <3>1. Reach("WARMING", Tail(loop)) /\ Stays
      BY <1>2, <2>3 DEF EnterWarming
    <3>2. /\ loop' = Tail(loop) /\ state' = "WARMING" /\ UNCHANGED <<view, sent>>
          /\ UNCHANGED <<batch, cleanup>>
      BY <3>1 DEF Reach, Stays, KeepEverything
    <3> QED
      BY <1>0, <2>1, <3>2, StillTaken
  <2> QED
    BY <2>2, <2>3
<1>3. CASE AudioError
  <2>1. /\ Take("audio_error") /\ IdleFrame /\ loop' = Tail(loop)
        /\ UNCHANGED <<view, sent, batch, cleanup>>
        /\ state' \in {state, "ERROR"}
    BY <1>3 DEF AudioError, Stays
  <2> QED
    BY <1>0, <2>1, StillTaken
<1>4. CASE WsError \/ BeginTranscribing \/ StartBatch \/ SetLiveLen
  <2>1. PICK t \in {"ws_error", "begin_transcribing", "start_batch", "set_live_len"} :
          Take(t) /\ IdleFrame
    BY <1>4 DEF WsError, BeginTranscribing, StartBatch, SetLiveLen
  <2>2. /\ loop' = Tail(loop) /\ UNCHANGED <<state, view, sent, cleanup>>
        /\ batch' = "none" => batch = "none"
    BY <1>4
       DEF WsError, BeginTranscribing, StartBatch, SetLiveLen, SkipUnless, Skip,
           KeepEverything, Stays
  <2>3. t \in Tasks /\ t # "batch_delta" /\ t # "cleanup_delta"
    BY <1>0, <2>1
  <2> QED
    BY <2>1, <2>2, <2>3, StillTaken
<1> QED
  BY <1>1, <1>2, <1>3, <1>4

\* A task at the head of the queue has nothing before it.
LEMMA HeadIsFirst ==
  ASSUME loop \in Seq(Tasks), NEW early, NEW late, Before(early, late), Take(late)
  PROVE  ~Waits(early)
<1>1. 1 \in 1..Len(loop) /\ loop[1] = late /\ Len(loop) \in Nat
  BY DEF Take
<1> QED
  BY <1>1 DEF Before, Waits

\* What taking a task, and perhaps the dispatch of the cleanup, does to the queue.
LEMMA TakenQueue ==
  ASSUME PromiseInv, NEW t \in Tasks, Take(t),
         loop' = Tail(loop) \/ loop' = Append(Tail(loop), "begin_cleanup")
  PROVE  /\ \A u \in Deltas : Waits(u)' => Waits(u)
         /\ \A u \in Deltas : t # u => (Waits(u) => Waits(u)')
         /\ Before("batch_delta", "batch_done")' /\ Before("cleanup_delta", "cleanup_done")'
<1>1. "begin_cleanup" \in Tasks \ Deltas
  BY DEF Tasks, Deltas
<1>2. loop # <<>> /\ Head(loop) = t
  BY DEF Take
<1> QED
  BY <1>1, <1>2, StillQueue

\* Taking a task that is skipped for the state it finds.
LEMMA PromiseSkips ==
  ASSUME PromiseInv, [Next]_vars, NEW t \in Tasks, Take(t), IdleFrame, Skip,
         t = "batch_delta" => state # "TRANSCRIBING",
         t = "cleanup_delta" => state # "CLEANING"
  PROVE  Shown' /\ PromiseStep
  BY StillTaken, StillKeeps DEF Skip, KeepEverything

\* What the state says of the live preview and of the workers.
LEMMA StateKnows ==
  ASSUME PromiseInv
  PROVE  /\ loop \in Seq(Tasks) /\ cleanPosts \in Nat
         /\ view \in [stage : Stages, whole : BOOLEAN, liveText : Texts, had : BOOLEAN]
         /\ sent \in [result : {"none", "batch", "cleaned"},
                      verdict : {"none", "no_speech", "batch_failed", "cleanup_failed"}]
         /\ state \notin Terminal => ~trashed
         /\ Recording => batch = "none"
         /\ Recording \/ state = "TRANSCRIBING" => cleanup = "none"
  BY DEF PromiseInv, WorkInv, BatchInv, OwnInv, TypeOK, BeginsOnce, StopperOwns,
         CleanupWorks, Shown, TrashIsOver

\* The live preview streams while the session records.
LEMMA PromiseLive ==
  ASSUME PromiseInv, LiveDelta, [Next]_vars
  PROVE  Shown' /\ PromiseStep
<1>1. PICK t \in {"live_words", "live_blank"} :
        /\ Take(t)
        /\ \/ /\ state = "RECORDING" /\ loop' = Tail(loop)
              /\ view' = [Added("live") EXCEPT !.liveText =
                            IF t = "live_words" \/ @ = "words" THEN "words" ELSE "blank"]
              /\ UNCHANGED <<state, sent>> /\ KeepEverything
           \/ Skip
  BY DEF LiveDelta, SkipUnless
<1>2. IdleFrame /\ t \in Tasks /\ t \notin Deltas
  BY DEF LiveDelta, Tasks, Deltas
<1>3. CASE Skip
  BY <1>1, <1>2, <1>3, PromiseSkips DEF Deltas
<1>4. CASE ~Skip
  <2>1. /\ state = "RECORDING" /\ state' = "RECORDING" /\ loop' = Tail(loop)
        /\ UNCHANGED <<sent, batch, cleanup, batchText, cleanPosts, trashed>>
    BY <1>1, <1>2, <1>4 DEF KeepEverything, IdleFrame, procVars, postVars
  <2>2. /\ view'.stage = "live" /\ view'.whole = FALSE /\ view'.had = TRUE
        /\ view.liveText = "words" => view'.liveText = "words"
    BY <1>1, <1>4, StateKnows DEF Added
  <2>3. /\ \A u \in Deltas : Waits(u)' => Waits(u)
        /\ Before("batch_delta", "batch_done")' /\ Before("cleanup_delta", "cleanup_done")'
    BY <1>1, <1>2, <2>1, TakenQueue
  <2>4. BatchShown' /\ CleanShown'
    BY <2>1, <2>3 DEF PromiseInv, Shown, BatchShown, CleanShown, Deltas
  <2>5. HadShown' /\ TrashIsOver'
    BY <2>1, <2>2, StateKnows DEF HadShown, TrashIsOver, Terminal
  <2>6. Delivered'
    BY <2>1
       DEF PromiseInv, Shown, Delivered, Recording, OutcomeStands, Promise!OutcomeStands
  <2>7. PromiseStep
    <3>1. Promise!Hear
      BY <2>1, <2>2 DEF Promise!Hear
    <3> QED
      BY <3>1 DEF PromiseStep, Promise!Next
  <2> QED
    BY <2>4, <2>5, <2>6, <2>7 DEF Shown
<1> QED
  BY <1>3, <1>4

\* The transcript streams in while the session transcribes.
LEMMA PromiseBatchText ==
  ASSUME PromiseInv, OnBatchDelta, [Next]_vars
  PROVE  Shown' /\ PromiseStep
<1>1. Take("batch_delta") /\ IdleFrame /\ "batch_delta" \in Tasks
  BY DEF OnBatchDelta, Tasks
<1>2. CASE SkipUnless({"TRANSCRIBING"})
  BY <1>1, <1>2, PromiseSkips DEF SkipUnless
<1>3. CASE ~SkipUnless({"TRANSCRIBING"})
  <2>1. /\ state = "TRANSCRIBING" /\ state' = "TRANSCRIBING" /\ loop' = Tail(loop)
        /\ UNCHANGED <<sent, batch, cleanup, batchText, cleanPosts, trashed>>
        /\ view' = Added("batch")
    BY <1>1, <1>3 DEF OnBatchDelta, KeepEverything, IdleFrame, procVars, postVars
  <2>2. /\ view'.stage = "batch" /\ view'.whole = FALSE /\ view'.had = TRUE
        /\ view'.liveText = view.liveText
    BY <2>1, StateKnows DEF Added
  <2>3. /\ \A u \in Deltas : Waits(u)' => Waits(u)
        /\ Before("batch_delta", "batch_done")' /\ Before("cleanup_delta", "cleanup_done")'
    BY <1>1, <2>1, TakenQueue
  <2>4. BatchShown' /\ CleanShown'
    BY <2>1, <2>2, <2>3 DEF PromiseInv, Shown, BatchShown, CleanShown, Deltas
  <2>5. HadShown' /\ TrashIsOver'
    BY <2>1, <2>2, StateKnows DEF HadShown, TrashIsOver, Terminal
  <2>6. Delivered'
    BY <2>1
       DEF PromiseInv, Shown, Delivered, Recording, OutcomeStands, Promise!OutcomeStands
  <2>7. PromiseStep
    <3>1. Promise!Stream
      BY <2>1, <2>2 DEF Promise!Stream
    <3> QED
      BY <3>1 DEF PromiseStep, Promise!Next
  <2> QED
    BY <2>4, <2>5, <2>6, <2>7 DEF Shown
<1> QED
  BY <1>2, <1>3

\* The whole transcript is put on the screen, before any cleaned words.
LEMMA PromiseBegin ==
  ASSUME PromiseInv, BeginCleanup, [Next]_vars
  PROVE  Shown' /\ PromiseStep
<1>1. Take("begin_cleanup") /\ IdleFrame /\ "begin_cleanup" \in Tasks \ Deltas
  BY DEF BeginCleanup, Tasks, Deltas
<1>2. CASE SkipUnless({"CLEANING"})
  BY <1>1, <1>2, PromiseSkips DEF SkipUnless, Deltas
<1>3. CASE ~SkipUnless({"CLEANING"})
  <2>1. /\ state = "CLEANING" /\ state' = "CLEANING" /\ loop' = Tail(loop)
        /\ UNCHANGED <<sent, batch, batchText, cleanPosts, trashed>>
        /\ view' = [view EXCEPT !.stage = "batch", !.whole = TRUE, !.had = TRUE]
        /\ cleanup' = "streaming"
    BY <1>1, <1>3 DEF BeginCleanup, IdleFrame, procVars, postVars
  <2>2. /\ view'.stage = "batch" /\ view'.whole = TRUE /\ view'.had = TRUE
        /\ view'.liveText = view.liveText
    BY <2>1, StateKnows
  <2>3. /\ \A u \in Deltas : Waits(u)' => Waits(u)
        /\ Before("batch_delta", "batch_done")' /\ Before("cleanup_delta", "cleanup_done")'
    BY <1>1, <2>1, TakenQueue
  <2>4. cleanup = "none"
    <3>1. Waits("begin_cleanup")
      BY <1>1, StateKnows, TakenWaited
    <3> QED
      BY <3>1 DEF PromiseInv, WorkInv, CleanupWorks
  <2>5. BatchShown' /\ CleanShown'
    BY <2>1, <2>2, <2>3, <2>4 DEF PromiseInv, Shown, BatchShown, CleanShown, Deltas
  <2>6. HadShown' /\ TrashIsOver'
    BY <2>1, <2>2, StateKnows DEF HadShown, TrashIsOver, Terminal
  <2>7. Delivered'
    BY <2>1
       DEF PromiseInv, Shown, Delivered, Recording, Capture, OutcomeStands,
           Promise!OutcomeStands
  <2>8. PromiseStep
    <3>1. Promise!Stream
      BY <2>1, <2>2 DEF Promise!Stream
    <3> QED
      BY <3>1 DEF PromiseStep, Promise!Next
  <2> QED
    BY <2>5, <2>6, <2>7, <2>8 DEF Shown
<1> QED
  BY <1>2, <1>3

\* The cleaned words replace it.
LEMMA PromiseCleanText ==
  ASSUME PromiseInv, OnCleanupDelta, [Next]_vars
  PROVE  Shown' /\ PromiseStep
<1>1. Take("cleanup_delta") /\ IdleFrame /\ "cleanup_delta" \in Tasks
  BY DEF OnCleanupDelta, Tasks
<1>2. CASE SkipUnless({"CLEANING"})
  BY <1>1, <1>2, PromiseSkips DEF SkipUnless
<1>3. CASE ~SkipUnless({"CLEANING"})
  <2>1. /\ state = "CLEANING" /\ state' = "CLEANING" /\ loop' = Tail(loop)
        /\ UNCHANGED <<sent, batch, cleanup, batchText, cleanPosts, trashed>>
        /\ view' = Added("cleaned")
    BY <1>1, <1>3 DEF OnCleanupDelta, KeepEverything, IdleFrame, procVars, postVars
  <2>2. /\ view'.stage = "cleaned" /\ view'.whole = FALSE /\ view'.had = TRUE
        /\ view'.liveText = view.liveText
    BY <2>1, StateKnows DEF Added
  <2>3. /\ \A u \in Deltas : Waits(u)' => Waits(u)
        /\ Before("batch_delta", "batch_done")' /\ Before("cleanup_delta", "cleanup_done")'
    BY <1>1, <2>1, TakenQueue
  <2>4. cleanPosts # 0
    <3>1. Waits("cleanup_delta")
      BY <1>1, StateKnows, TakenWaited
    <3> QED
      BY <3>1 DEF PromiseInv, Shown, CleanShown
  <2>5. BatchShown' /\ CleanShown'
    BY <2>1, <2>2, <2>3, <2>4 DEF PromiseInv, Shown, BatchShown, CleanShown, Deltas
  <2>6. HadShown' /\ TrashIsOver'
    BY <2>1, <2>2, StateKnows DEF HadShown, TrashIsOver, Terminal
  <2>7. Delivered'
    BY <2>1
       DEF PromiseInv, Shown, Delivered, Recording, Capture, OutcomeStands,
           Promise!OutcomeStands
  <2>8. PromiseStep
    <3>1. Promise!Stream
      BY <2>1, <2>2 DEF Promise!Stream
    <3> QED
      BY <3>1 DEF PromiseStep, Promise!Next
  <2> QED
    BY <2>5, <2>6, <2>7, <2>8 DEF Shown
<1> QED
  BY <1>2, <1>3

\* A result, or the failure of one, ends its stage; its deltas have all run.
LEMMA PromiseBatchDone ==
  ASSUME PromiseInv, OnBatchDone, [Next]_vars
  PROVE  Shown' /\ PromiseStep
<1>1. Take("batch_done") /\ IdleFrame /\ "batch_done" \in Tasks \ Deltas
  BY DEF OnBatchDone, Tasks, Deltas
<1>2. CASE SkipUnless({"TRANSCRIBING"})
  BY <1>1, <1>2, PromiseSkips DEF SkipUnless, Deltas
<1>3. CASE ~SkipUnless({"TRANSCRIBING"})
  <2>1. /\ state = "TRANSCRIBING"
        /\ UNCHANGED <<batchText, cleanPosts, trashed>>
        /\ \/ /\ batchText = "words" /\ sent' = [sent EXCEPT !.result = "batch"]
              /\ Reach("CLEANING", Tail(loop)) /\ UNCHANGED view
           \/ /\ batchText # "words"
              /\ sent' = [result |-> IF batchText = "blank" THEN "batch" ELSE sent.result,
                          verdict |-> "no_speech"]
              /\ view' = [view EXCEPT !.had = TRUE]
              /\ Reach("READY", Tail(loop))
    BY <1>1, <1>3 DEF OnBatchDone, IdleFrame, procVars, postVars
  <2>2. /\ loop' = Tail(loop) \/ loop' = Append(Tail(loop), "begin_cleanup")
        /\ UNCHANGED <<batch, cleanup>> /\ state' \in {"CLEANING", "READY"}
    BY <2>1 DEF Reach, KeepEverything
  <2>3. /\ \A u \in Deltas : Waits(u)' => Waits(u)
        /\ Before("batch_delta", "batch_done")' /\ Before("cleanup_delta", "cleanup_done")'
    BY <1>1, <2>2, TakenQueue
  <2>4. sent.result = "none" /\ sent.verdict = "none" /\ cleanup = "none" /\ ~trashed
    BY <2>1, StateKnows DEF PromiseInv, Shown, Delivered, Terminal
  <2>5. BatchShown' /\ CleanShown'
    BY <2>1, <2>2, <2>3, <2>4 DEF PromiseInv, Shown, BatchShown, CleanShown, Deltas
  <2>6. CASE batchText = "words"
    <3>1. ~Waits("batch_delta")
      BY <1>1, StateKnows, HeadIsFirst DEF PromiseInv, Shown, BatchShown
    <3>2. view.had
      BY <2>1, <2>6, <3>1 DEF PromiseInv, Shown, BatchShown
    <3>3. /\ sent'.result = "batch" /\ sent'.verdict = "none" /\ state' = "CLEANING"
          /\ UNCHANGED view
      BY <2>1, <2>4, <2>6, StateKnows DEF Reach
    <3>4. HadShown' /\ TrashIsOver' /\ Delivered'
      BY <2>1, <2>4, <3>2, <3>3
         DEF HadShown, TrashIsOver, Delivered, Recording, Capture, OutcomeStands,
             Promise!OutcomeStands
    <3>5. Promise!Transcribe
      BY <2>1, <2>4, <3>3 DEF Promise!Transcribe, Promise!Move
    <3> QED
      BY <2>5, <3>4, <3>5 DEF Shown, PromiseStep, Promise!Next
  <2>7. CASE batchText # "words"
    <3>1. /\ sent'.result \in {"none", "batch"} /\ sent'.verdict = "no_speech"
          /\ state' = "READY" /\ view'.had = TRUE /\ view'.stage = view.stage
          /\ view'.whole = view.whole /\ view'.liveText = view.liveText
      BY <2>1, <2>4, <2>7, StateKnows DEF Reach
    <3>2. HadShown' /\ TrashIsOver' /\ Delivered'
      BY <2>1, <2>4, <3>1
         DEF HadShown, TrashIsOver, Delivered, Recording, Capture, OutcomeStands,
             Promise!OutcomeStands
    <3>3. Promise!HearNothing
      BY <2>1, <3>1 DEF Promise!HearNothing, Promise!Move
    <3> QED
      BY <2>5, <3>2, <3>3 DEF Shown, PromiseStep, Promise!Next
  <2> QED
    BY <2>6, <2>7
<1> QED
  BY <1>2, <1>3

LEMMA PromiseBatchError ==
  ASSUME PromiseInv, OnBatchError, [Next]_vars
  PROVE  Shown' /\ PromiseStep
<1>1. Take("batch_error") /\ IdleFrame /\ "batch_error" \in Tasks \ Deltas
  BY DEF OnBatchError, Tasks, Deltas
<1>2. CASE SkipUnless({"TRANSCRIBING"})
  BY <1>1, <1>2, PromiseSkips DEF SkipUnless, Deltas
<1>3. CASE ~SkipUnless({"TRANSCRIBING"})
  <2>1. /\ state = "TRANSCRIBING" /\ FailBatch(Tail(loop))
        /\ UNCHANGED <<batchText, cleanPosts, trashed>>
    BY <1>1, <1>3 DEF OnBatchError, IdleFrame, procVars, postVars
  <2>2. /\ loop' = Tail(loop) /\ state' = "READY"
        /\ UNCHANGED <<batch, cleanup>>
    BY <2>1 DEF FailBatch, Reach, KeepEverything
  <2>3. /\ \A u \in Deltas : Waits(u)' => Waits(u)
        /\ Before("batch_delta", "batch_done")' /\ Before("cleanup_delta", "cleanup_done")'
    BY <1>1, <2>2, TakenQueue
  <2>4. sent.result = "none" /\ ~trashed
    BY <2>1, StateKnows DEF PromiseInv, Shown, Delivered, Terminal
  <2>5. BatchShown' /\ CleanShown'
    BY <2>1, <2>2, <2>3 DEF PromiseInv, Shown, BatchShown, CleanShown, Deltas
  <2>6. /\ sent'.result = "none" /\ sent'.verdict = "batch_failed"
        /\ view'.liveText = view.liveText
        /\ view.liveText = "words" => view'.stage = "live" /\ view'.whole /\ view'.had
        /\ view.liveText # "words" => view' = view
    BY <2>1, <2>4, StateKnows DEF FailBatch
  <2>7. HadShown'
    BY <2>6 DEF PromiseInv, Shown, HadShown
  <2>8. TrashIsOver' /\ Delivered'
    BY <2>1, <2>2, <2>4, <2>6
       DEF TrashIsOver, Delivered, Recording, Capture, OutcomeStands, Promise!OutcomeStands
  <2>9. Promise!LoseTranscript
    BY <2>1, <2>2, <2>4, <2>6 DEF Promise!LoseTranscript, Promise!Move
  <2> QED
    BY <2>5, <2>7, <2>8, <2>9 DEF Shown, PromiseStep, Promise!Next
<1> QED
  BY <1>2, <1>3

LEMMA PromiseCleanupDone ==
  ASSUME PromiseInv, OnCleanupDone, [Next]_vars
  PROVE  Shown' /\ PromiseStep
<1>1. Take("cleanup_done") /\ IdleFrame /\ "cleanup_done" \in Tasks \ Deltas
  BY DEF OnCleanupDone, Tasks, Deltas
<1>2. CASE SkipUnless({"CLEANING"})
  BY <1>1, <1>2, PromiseSkips DEF SkipUnless, Deltas
<1>3. CASE ~SkipUnless({"CLEANING"})
  <2>1. /\ state = "CLEANING" /\ Reach("READY", Tail(loop))
        /\ UNCHANGED <<batchText, cleanPosts, trashed>>
        /\ IF cleanPosts > 0
           THEN /\ sent' = [sent EXCEPT !.result = "cleaned"]
                /\ view' = [view EXCEPT !.whole = TRUE]
           ELSE UNCHANGED <<sent, view>>
    BY <1>1, <1>3 DEF OnCleanupDone, IdleFrame, procVars, postVars
  <2>2. /\ loop' = Tail(loop) /\ state' = "READY"
        /\ UNCHANGED <<batch, cleanup>>
    BY <2>1 DEF Reach, KeepEverything
  <2>3. /\ \A u \in Deltas : Waits(u)' => Waits(u)
        /\ Before("batch_delta", "batch_done")' /\ Before("cleanup_delta", "cleanup_done")'
    BY <1>1, <2>2, TakenQueue
  <2>4. sent.result = "batch" /\ sent.verdict = "none" /\ ~trashed
    BY <2>1, StateKnows DEF PromiseInv, Shown, Delivered, Terminal
  <2>5. BatchShown' /\ CleanShown'
    BY <2>1, <2>2, <2>3 DEF PromiseInv, Shown, BatchShown, CleanShown, Deltas
  <2>6. cleanup = "ended" /\ ~Waits("cleanup_delta")
    <3>1. Waits("cleanup_done")
      BY <1>1, StateKnows, TakenWaited
    <3>2. ~Waits("cleanup_delta")
      BY <1>1, StateKnows, HeadIsFirst DEF PromiseInv, Shown, CleanShown
    <3> QED
      BY <3>1, <3>2 DEF PromiseInv, WorkInv, CleanupWorks
  <2>7. CASE cleanPosts > 0
    <3>1. view.stage = "cleaned"
      BY <2>1, <2>6, <2>7, StateKnows DEF PromiseInv, Shown, CleanShown
    <3>2. /\ sent'.result = "cleaned" /\ sent'.verdict = "none" /\ view'.stage = "cleaned"
          /\ view'.whole = TRUE /\ view'.had = view.had /\ view'.liveText = view.liveText
      BY <2>1, <2>4, <2>7, <3>1, StateKnows
    <3>3. HadShown'
      BY <3>1, <3>2 DEF PromiseInv, Shown, HadShown
    <3>4. TrashIsOver' /\ Delivered'
      BY <2>1, <2>2, <2>4, <3>2
         DEF TrashIsOver, Delivered, Recording, Capture, OutcomeStands, Promise!OutcomeStands
    <3>5. Promise!Polish
      BY <2>1, <2>2, <2>4, <3>2 DEF Promise!Polish, Promise!Move
    <3> QED
      BY <2>5, <3>3, <3>4, <3>5 DEF Shown, PromiseStep, Promise!Next
  <2>8. CASE ~(cleanPosts > 0)
    <3>1. view.stage = "batch" /\ view.whole
      BY <2>1, <2>6, <2>8, StateKnows DEF PromiseInv, Shown, CleanShown
    <3>2. UNCHANGED <<sent, view>>
      BY <2>1, <2>8
    <3>3. HadShown'
      BY <3>2 DEF PromiseInv, Shown, HadShown
    <3>4. TrashIsOver' /\ Delivered'
      BY <2>1, <2>2, <2>4, <3>1, <3>2
         DEF TrashIsOver, Delivered, Recording, Capture, OutcomeStands, Promise!OutcomeStands
    <3>5. Promise!Polish
      BY <2>1, <2>2, <3>1, <3>2 DEF Promise!Polish, Promise!Move
    <3> QED
      BY <2>5, <3>3, <3>4, <3>5 DEF Shown, PromiseStep, Promise!Next
  <2> QED
    BY <2>7, <2>8
<1> QED
  BY <1>2, <1>3

LEMMA PromiseCleanupError ==
  ASSUME PromiseInv, OnCleanupError, [Next]_vars
  PROVE  Shown' /\ PromiseStep
<1>1. Take("cleanup_error") /\ IdleFrame /\ "cleanup_error" \in Tasks \ Deltas
  BY DEF OnCleanupError, Tasks, Deltas
<1>2. CASE SkipUnless({"CLEANING"})
  BY <1>1, <1>2, PromiseSkips DEF SkipUnless, Deltas
<1>3. CASE ~SkipUnless({"CLEANING"})
  <2>1. /\ state = "CLEANING" /\ Reach("READY", Tail(loop))
        /\ UNCHANGED <<batchText, cleanPosts, trashed>>
        /\ view' = [view EXCEPT !.stage = "batch", !.whole = TRUE, !.had = TRUE]
        /\ sent' = [sent EXCEPT !.verdict = "cleanup_failed"]
    BY <1>1, <1>3 DEF OnCleanupError, IdleFrame, procVars, postVars
  <2>2. /\ loop' = Tail(loop) /\ state' = "READY"
        /\ UNCHANGED <<batch, cleanup>>
    BY <2>1 DEF Reach, KeepEverything
  <2>3. /\ \A u \in Deltas : Waits(u)' => Waits(u)
        /\ Before("batch_delta", "batch_done")' /\ Before("cleanup_delta", "cleanup_done")'
    BY <1>1, <2>2, TakenQueue
  <2>4. sent.result = "batch" /\ ~trashed
    BY <2>1, StateKnows DEF PromiseInv, Shown, Delivered, Terminal
  <2>5. BatchShown' /\ CleanShown'
    BY <2>1, <2>2, <2>3 DEF PromiseInv, Shown, BatchShown, CleanShown, Deltas
  <2>6. /\ sent'.result = "batch" /\ sent'.verdict = "cleanup_failed"
        /\ view'.stage = "batch" /\ view'.whole = TRUE /\ view'.had = TRUE
        /\ view'.liveText = view.liveText
    BY <2>1, <2>4, StateKnows
  <2>7. HadShown' /\ TrashIsOver' /\ Delivered'
    BY <2>1, <2>2, <2>4, <2>6
       DEF HadShown, TrashIsOver, Delivered, Recording, Capture, OutcomeStands,
           Promise!OutcomeStands
  <2>8. Promise!LosePolish
    BY <2>1, <2>2, <2>4, <2>6 DEF Promise!LosePolish, Promise!Move
  <2> QED
    BY <2>5, <2>7, <2>8 DEF Shown, PromiseStep, Promise!Next
<1> QED
  BY <1>2, <1>3

-----------------------------------------------------------------------------

LEMMA PromiseNext ==
  ASSUME PromiseInv, [Next]_vars
  PROVE  Shown' /\ PromiseStep
<1>1. CASE UNCHANGED vars
  <2>1. Still
    BY <1>1, StillIs DEF vars, coreVars, procVars, postVars
  <2> QED
    BY <2>1, StillKeeps
<1>2. CASE Commands \/ Vanish
  BY <1>2, PromiseCommands, StillKeeps
<1>3. CASE Idle \/ WarmingEnds
  BY <1>3, PromiseQuietIdle, StillKeeps, PromiseLive, PromiseBatchText, PromiseBegin,
     PromiseCleanText, PromiseBatchDone, PromiseBatchError, PromiseCleanupDone,
     PromiseCleanupError DEF Idle
<1> QED
  BY <1>1, <1>2, <1>3, PromiseThreads DEF Next, Finished

LEMMA PromiseInit == Init => Shown /\ Promise!Init
<1> SUFFICES ASSUME Init PROVE Shown /\ Promise!Init
  OBVIOUS
<1>1. \A t : ~Waits(t)
  BY DEF Init, Waits
<1>2. \A early, late : Before(early, late)
  BY DEF Init, Before
<1>3. BatchShown /\ CleanShown /\ HadShown /\ TrashIsOver
  BY <1>1, <1>2 DEF Init, BatchShown, CleanShown, HadShown, TrashIsOver
<1>4. Delivered
  BY DEF Init, Delivered, OutcomeStands, Promise!OutcomeStands
<1> QED
  BY <1>3, <1>4 DEF Init, Shown, Promise!Init

\* What the screen owes is owed for ever.
LEMMA PromiseInvariant == Spec => []PromiseInv
<1>1. Init => Shown
  BY PromiseInit
<1>2. WorkInv /\ Shown /\ [Next]_vars => Shown'
  BY PromiseNext DEF PromiseInv
<1>3. WorkInv /\ Shown => PromiseInv
  BY DEF PromiseInv
<1> QED
  BY WorkInvariant, <1>1, <1>2, <1>3, PTL DEF Spec

\* Session implements Dictation: every order of threads, callbacks, commands
\* and failures is a dictation that moves, delivers and shows as promised.
THEOREM SessionKeepsThePromise == Spec => KeepsThePromise
<1>1. Init => Promise!Init
  BY PromiseInit
<1>2. PromiseInv /\ [Next]_vars => [Promise!Next]_(Promise!vars)
  BY PromiseNext DEF PromiseStep
<1> QED
  BY PromiseInvariant, <1>1, <1>2, PTL DEF Spec, KeepsThePromise, Promise!Spec

\* session.py, _fail_batch and _on_cleanup_error: a READY session shows what it
\* delivered, or what the failure says stands in for it, and no part of either.
THEOREM OutcomeAlwaysStands == Spec => []OutcomeStands
<1>1. PromiseInv => OutcomeStands
  BY DEF PromiseInv, Shown, Delivered
<1> QED
  BY PromiseInvariant, <1>1, PTL

\* presenter.py, had_content: what is moved to the trash never held a text.
THEOREM TrashIsEmpty == Spec => []TrashHoldsNoText
<1>1. PromiseInv => TrashHoldsNoText
  BY DEF PromiseInv, Shown, TrashIsOver, TrashHoldsNoText
<1> QED
  BY PromiseInvariant, <1>1, PTL

=============================================================================
