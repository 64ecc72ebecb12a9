---------------------------- MODULE SessionProofs ---------------------------
(* What holds of Session for every set of faults and every bound.           *)
EXTENDS Session, TLAPS

USE MaxPostsAssumption, FaultsAssumption

\* Appending a source to the idle queue, or taking one, keeps it a queue.
LEMMA QueueType ==
  ASSUME NEW q \in Seq(Tasks)
  PROVE  /\ \A t \in Tasks : Append(q, t) \in Seq(Tasks)
         /\ q # <<>> => Tail(q) \in Seq(Tasks) /\ Head(q) \in Tasks
  OBVIOUS

\* A transition, with everything its listeners do, keeps the types.
LEMMA ReachType ==
  ASSUME TypeOK, NEW new \in States, NEW q \in Seq(Tasks), Reach(new, q)
  PROVE  /\ state' \in States /\ loop' \in Seq(Tasks) /\ armed' \in BOOLEAN
         /\ cancelled' \in BOOLEAN
         /\ own' \in [Resources -> {"none", "boot", "session", "stopper", "teardown"}]
         /\ live' \in [Resources -> {"absent", "new", "live", "ended"}]
         /\ wav' \in {"none", "open", "final"}
         /\ jobs' \subseteq SUBSET Resources
         /\ batch' \in Workers /\ cleanup' \in Workers
<1>1. state' \in States /\ armed' \in BOOLEAN
  BY DEF TypeOK, Reach
<1>2. loop' \in Seq(Tasks)
  BY QueueType DEF TypeOK, Reach, Tasks
<1>3. ASSUME NEW syncMic \in BOOLEAN, NEW ok \in BOOLEAN, Abandon(syncMic, ok)
      PROVE  /\ cancelled' \in BOOLEAN
             /\ own' \in [Resources -> {"none", "boot", "session", "stopper", "teardown"}]
             /\ live' \in [Resources -> {"absent", "new", "live", "ended"}]
             /\ wav' \in {"none", "open", "final"}
             /\ jobs' \subseteq SUBSET Resources
  BY <1>3 DEF TypeOK, Abandon, NewJobs, HandOver
<1>4. CASE new = "CANCELLED"
  <2>1. PICK ok \in BOOLEAN : Abandon(TRUE, ok)
    BY <1>4 DEF Reach, MicStops
  <2>2. batch' \in Workers /\ cleanup' \in Workers
    BY <1>4 DEF TypeOK, Reach, CancelWorker, Workers
  <2> QED
    BY <1>1, <1>2, <1>3, <2>1, <2>2
<1>5. CASE new = "ERROR"
  BY <1>1, <1>2, <1>3, <1>5 DEF TypeOK, Reach
<1>6. CASE new \notin {"CANCELLED", "ERROR"}
  BY <1>1, <1>2, <1>6 DEF TypeOK, Reach, KeepEverything
<1> QED
  BY <1>4, <1>5, <1>6

\* The names of the variables' tuples, for the steps below.
CoreType ==
  /\ state \in States /\ loop \in Seq(Tasks) /\ armed \in BOOLEAN
  /\ cancelled \in BOOLEAN
  /\ own \in [Resources -> {"none", "boot", "session", "stopper", "teardown"}]
  /\ live \in [Resources -> {"absent", "new", "live", "ended"}]
  /\ wav \in {"none", "open", "final"}
  /\ jobs \subseteq SUBSET Resources
  /\ batch \in Workers /\ cleanup \in Workers

RestType ==
  /\ phase \in {"running", "leaving", "gone"}
  /\ started \in BOOLEAN /\ closed \in BOOLEAN
  /\ dir \in BOOLEAN /\ trashed \in BOOLEAN
  /\ bootDone \in BOOLEAN /\ boot \in BootSteps
  /\ client \in {"none", "open", "closed"}
  /\ stopper \in StopSteps
  /\ wsPosts \in Nat /\ batchPosts \in Nat /\ cleanPosts \in Nat
  /\ batchText \in Texts
  /\ view \in [stage : Stages, whole : BOOLEAN, liveText : Texts, had : BOOLEAN]
  /\ sent \in [result : {"none", "batch", "cleaned"},
               verdict : {"none", "no_speech", "batch_failed", "cleanup_failed"}]

\* TypeOK in two parts: what a transition may touch, and the rest.
LEMMA TypeParts == (TypeOK <=> CoreType /\ RestType) /\ (TypeOK' <=> CoreType' /\ RestType')
  BY DEF TypeOK, CoreType, RestType

\* The names of the states and tasks are what they are.
LEMMA StateNames ==
  {"INITIALIZING", "WARMING", "RECORDING", "TRANSCRIBING", "CLEANING", "READY",
   "CANCELLED", "ERROR"} \subseteq States
  BY DEF States, InFlight, Capture, Working, Terminal

LEMMA Posted ==
  ASSUME CoreType, NEW t \in Tasks, Post(t)
  PROVE  loop' \in Seq(Tasks)
  BY DEF CoreType, Post

\* ReachType, in terms of the parts.
LEMMA ReachCore ==
  ASSUME TypeOK, NEW new \in States, NEW q \in Seq(Tasks), Reach(new, q)
  PROVE  CoreType'
  BY ReachType DEF CoreType

\* What is unchanged keeps its type.
LEMMA SameCore == CoreType /\ UNCHANGED coreVars => CoreType'
  BY DEF CoreType, coreVars

LEMMA SameRest ==
  RestType /\ UNCHANGED <<procVars, bootVars, stopper, postVars, view, sent>> => RestType'
  BY DEF RestType, procVars, bootVars, postVars

\* The commands and signals keep the types.
LEMMA CommandsType == TypeOK /\ (Commands \/ Vanish) => TypeOK'
<1> SUFFICES ASSUME TypeOK, Commands \/ Vanish PROVE CoreType' /\ RestType'
  BY TypeParts
<1>0. loop \in Seq(Tasks) /\ CoreType /\ RestType
  BY TypeParts DEF TypeOK
<1>1. ASSUME FailStartup PROVE CoreType' /\ RestType'
  BY <1>0, <1>1, StateNames, ReachCore, SameRest DEF FailStartup
<1>2. ASSUME Start PROVE CoreType' /\ RestType'
  <2>1. RestType'
    <3>1. boot' \in BootSteps /\ dir' \in BOOLEAN /\ started' \in BOOLEAN
      BY <1>0, <1>2 DEF Start, RestType, BootSteps
    <3> QED
      BY <1>0, <1>2, <3>1 DEF Start, postVars, RestType
  <2>2. CASE Reach("ERROR", loop)
    BY <1>0, <2>1, <2>2, StateNames, ReachCore
  <2>3. CASE ~Reach("ERROR", loop)
    BY <1>0, <1>2, <2>1, <2>3, StateNames DEF Start, CoreType
  <2> QED
    BY <2>2, <2>3
<1>3. ASSUME Stop PROVE CoreType' /\ RestType'
  BY <1>0, <1>3, StateNames, ReachCore, SameRest DEF Stop
<1>4. ASSUME Cancel PROVE CoreType' /\ RestType'
  BY <1>0, <1>4, StateNames, ReachCore, SameRest DEF Cancel
<1>5. ASSUME NEW trashIfEmpty \in BOOLEAN, Close(trashIfEmpty) PROVE CoreType' /\ RestType'
  <2>1. RestType'
    BY <1>0, <1>5 DEF Close, postVars, RestType
  <2>2. CASE Reach("CANCELLED", loop)
    BY <1>0, <2>1, <2>2, StateNames, ReachCore
  <2>3. CASE ~Reach("CANCELLED", loop)
    BY <1>0, <1>5, <2>1, <2>3
       DEF Close, CoreType, Abandon, NewJobs, HandOver, CancelWorker, Workers
  <2> QED
    BY <2>2, <2>3
<1>6. ASSUME Signal PROVE CoreType' /\ RestType'
  <2>1. CoreType'
    BY <1>0, <1>6 DEF Signal, CoreType
  <2>2. RestType'
    BY <1>0, <1>6 DEF Signal, bootVars, postVars, RestType
  <2> QED
    BY <2>1, <2>2
<1>7. ASSUME Vanish PROVE CoreType' /\ RestType'
  BY <1>0, <1>7, SameCore DEF Vanish, bootVars, postVars, RestType
<1> QED
  BY <1>1, <1>2, <1>3, <1>4, <1>5, <1>6, <1>7 DEF Commands

\* The bootstrap thread keeps the types.
LEMMA BootType == TypeOK /\ Boot => TypeOK'
<1> SUFFICES ASSUME TypeOK, Boot PROVE CoreType' /\ RestType'
  BY TypeParts
<1>0. CoreType /\ RestType
  BY TypeParts
<1>1. boot' \in BootSteps /\ bootDone' \in BOOLEAN /\ client' \in {"none", "open", "closed"}
  BY <1>0
     DEF Boot, RestType, BootSteps, BootBegin, BootOpenMic, BootPublishMic,
         BootBuildClient, BootPublishClient, BootCheckPreview, BootPublishPreview,
         BootConnectPreview, BootFinish
<1>2. BootFrame
  BY DEF Boot, BootBegin, BootOpenMic, BootPublishMic, BootBuildClient,
         BootPublishClient, BootCheckPreview, BootPublishPreview,
         BootConnectPreview, BootFinish
<1>3. RestType'
  BY <1>0, <1>1, <1>2 DEF BootFrame, RestType, procVars, postVars
<1>4. loop' \in Seq(Tasks)
  <2>1. loop' = loop \/ Post("audio_error") \/ Post("enter_warming")
    BY DEF Boot, BootBegin, BootOpenMic, BootPublishMic, BootBuildClient,
           BootPublishClient, BootCheckPreview, BootPublishPreview,
           BootConnectPreview, BootFinish
  <2> QED
    BY <1>0, <2>1, Posted DEF CoreType, Tasks
<1>5. /\ own' \in [Resources -> {"none", "boot", "session", "stopper", "teardown"}]
      /\ live' \in [Resources -> {"absent", "new", "live", "ended"}]
      /\ wav' \in {"none", "open", "final"}
  BY <1>0 DEF Boot, CoreType, resVars, BootBegin, BootOpenMic, BootPublishMic,
              BootBuildClient, BootPublishClient, BootCheckPreview,
              BootPublishPreview, BootConnectPreview, BootFinish
<1> QED
  BY <1>0, <1>2, <1>3, <1>4, <1>5 DEF BootFrame, CoreType

\* The stop thread keeps the types.
LEMMA StopperType == TypeOK /\ Stopper => TypeOK'
<1> SUFFICES ASSUME TypeOK, Stopper PROVE CoreType' /\ RestType'
  BY TypeParts
<1>0. CoreType /\ RestType
  BY TypeParts
<1>1. StopFrame /\ stopper' \in StopSteps
  BY DEF Stopper, StopMic, AwaitBoot, StopPreview, StopSteps
<1>2. RestType'
  BY <1>0, <1>1 DEF StopFrame, RestType, procVars, bootVars, postVars
<1>3. loop' \in Seq(Tasks)
  <2>1. loop' = loop \/ Post("start_batch") \/ Post("set_live_len")
    BY DEF Stopper, StopMic, AwaitBoot, StopPreview
  <2> QED
    BY <1>0, <2>1, Posted DEF CoreType, Tasks
<1>4. /\ own' \in [Resources -> {"none", "boot", "session", "stopper", "teardown"}]
      /\ live' \in [Resources -> {"absent", "new", "live", "ended"}]
      /\ wav' \in {"none", "open", "final"}
  BY <1>0 DEF Stopper, CoreType, resVars, StopMic, AwaitBoot, StopPreview, Stopped
<1> QED
  BY <1>0, <1>1, <1>2, <1>3, <1>4 DEF StopFrame, CoreType

\* The teardown threads and the providers' threads keep the types.
LEMMA WorkersType == TypeOK /\ Threads => TypeOK'
<1> SUFFICES ASSUME TypeOK, Threads PROVE CoreType' /\ RestType'
  BY TypeParts
<1>0. CoreType /\ RestType
  BY TypeParts
<1>1. CASE Boot \/ Stopper
  BY <1>1, BootType, StopperType, TypeParts
<1>2. ASSUME NEW job \in jobs, Teardown(job) PROVE CoreType' /\ RestType'
  <2>1. RestType'
    BY <1>0, <1>2 DEF Teardown, procVars, bootVars, postVars, RestType
  <2>r. NextToStop(job) \in Resources
    BY DEF NextToStop, Resources
  <2>2. PICK ok : \* did the stream stop?
          /\ own' = [own EXCEPT ![NextToStop(job)] = "none"]
          /\ live' = [live EXCEPT ![NextToStop(job)] =
                         IF ok THEN Stopped(NextToStop(job)) ELSE @]
          /\ wav' = IF NextToStop(job) = "mic" /\ ok THEN "final" ELSE wav
          /\ jobs' = (jobs \ {job}) \cup
                        (IF job \ {NextToStop(job)} = {} THEN {}
                         ELSE {job \ {NextToStop(job)}})
    BY <1>2 DEF Teardown
  <2>3. live' \in [Resources -> {"absent", "new", "live", "ended"}]
    BY <1>0, <2>r, <2>2 DEF CoreType, Stopped
  <2>4. jobs' \subseteq SUBSET Resources
    BY <1>0, <2>2 DEF CoreType
  <2> QED
    BY <1>0, <1>2, <2>r, <2>1, <2>2, <2>3, <2>4 DEF Teardown, CoreType
<1>3. ASSUME PreviewPosts PROVE CoreType' /\ RestType'
  <2>1. Post("live_words") \/ Post("live_blank") \/ Post("ws_error")
    BY <1>3 DEF PreviewPosts
  <2>2. loop' \in Seq(Tasks)
    BY <1>0, <2>1, Posted DEF Tasks
  <2> QED
    BY <1>0, <1>3, <2>2 DEF PreviewPosts, procVars, bootVars, RestType, CoreType
<1>4. ASSUME BatchDelta \/ BatchEnds \/ CleanupDelta \/ CleanupEnds
      PROVE CoreType' /\ RestType'
  <2>1. WorkerFrame
    BY <1>4 DEF BatchDelta, BatchEnds, BatchCompletes, BatchFails, CleanupDelta,
                CleanupEnds, CleanupCompletes, CleanupFails
  <2>2. \E t \in Tasks : Post(t)
    BY <1>4 DEF BatchDelta, BatchEnds, BatchCompletes, BatchFails, CleanupDelta,
                CleanupEnds, CleanupCompletes, CleanupFails, Tasks
  <2>3. loop' \in Seq(Tasks)
    BY <1>0, <2>2, Posted
  <2>4. batch' \in Workers /\ cleanup' \in Workers
    BY <1>0, <1>4 DEF BatchDelta, BatchEnds, BatchCompletes, BatchFails, CleanupDelta,
                      CleanupEnds, CleanupCompletes, CleanupFails, CoreType, Workers
  <2>5. /\ wsPosts' \in Nat /\ batchPosts' \in Nat /\ cleanPosts' \in Nat
        /\ batchText' \in Texts
    BY <1>0, <1>4 DEF BatchDelta, BatchEnds, BatchCompletes, BatchFails, CleanupDelta,
                      CleanupEnds, CleanupCompletes, CleanupFails, RestType, Texts, postVars
  <2> QED
    BY <1>0, <2>1, <2>3, <2>4, <2>5
       DEF WorkerFrame, procVars, bootVars, resVars, RestType, CoreType
<1> QED
  BY <1>1, <1>2, <1>3, <1>4 DEF Threads

\* The main loop's callbacks keep the types.
LEMMA IdleType == TypeOK /\ (Idle \/ WarmingEnds) => TypeOK'
<1> SUFFICES ASSUME TypeOK, Idle \/ WarmingEnds PROVE CoreType' /\ RestType'
  BY TypeParts
<1>0. CoreType /\ RestType
  BY TypeParts
<1>tail. ASSUME NEW t, Take(t) PROVE Tail(loop) \in Seq(Tasks)
  BY <1>0, <1>tail, QueueType DEF Take, CoreType
<1>skip. ASSUME NEW t, Take(t), Skip, IdleFrame PROVE CoreType' /\ RestType'
  BY <1>0, <1>tail, <1>skip
     DEF Skip, KeepEverything, IdleFrame, CoreType, RestType, procVars, bootVars, postVars
<1>same. ASSUME IdleFrame, Stays PROVE RestType'
  BY <1>0, <1>same DEF IdleFrame, Stays, RestType, procVars, bootVars, postVars
<1>view. ASSUME IdleFrame, UNCHANGED stopper,
                view' \in [stage : Stages, whole : BOOLEAN, liveText : Texts, had : BOOLEAN],
                sent' \in [result : {"none", "batch", "cleaned"},
                          verdict : {"none", "no_speech", "batch_failed", "cleanup_failed"}]
         PROVE  RestType'
  BY <1>0, <1>view DEF IdleFrame, RestType, procVars, bootVars, postVars
<1>1. ASSUME WarmingEnds PROVE CoreType' /\ RestType'
  BY <1>0, <1>1, StateNames, ReachCore, SameRest DEF WarmingEnds, CoreType
<1>2. ASSUME EnterWarming PROVE CoreType' /\ RestType'
  BY <1>2, <1>skip, <1>same, <1>tail, StateNames, ReachCore DEF EnterWarming
<1>3. ASSUME AudioError PROVE CoreType' /\ RestType'
  <2>1. RestType'
    BY <1>3, <1>same DEF AudioError
  <2>2. CoreType'
    BY <1>0, <1>3, <1>tail, StateNames DEF AudioError, CoreType, ReleasedOwn, ReleasedLive
  <2> QED
    BY <2>1, <2>2
<1>4. ASSUME WsError PROVE CoreType' /\ RestType'
  <2>1. CASE SkipUnless(Capture)
    BY <1>4, <2>1, <1>skip DEF WsError, SkipUnless
  <2>2. CASE ~SkipUnless(Capture)
    <3>1. RestType'
      BY <1>4, <2>2, <1>same DEF WsError
    <3>2. CoreType'
      BY <1>0, <1>4, <2>2, <1>tail DEF WsError, CoreType, Stopped
    <3> QED
      BY <3>1, <3>2
  <2> QED
    BY <2>1, <2>2
<1>5. ASSUME LiveDelta PROVE CoreType' /\ RestType'
  <2>1. PICK t \in {"live_words", "live_blank"} :
          /\ Take(t)
          /\ \/ /\ loop' = Tail(loop)
                /\ view' = [Added("live") EXCEPT !.liveText =
                              IF t = "live_words" \/ @ = "words" THEN "words" ELSE "blank"]
                /\ UNCHANGED <<state, armed, sent, stopper>> /\ KeepEverything
             \/ Skip
    BY <1>5 DEF LiveDelta, SkipUnless
  <2>2. IdleFrame
    BY <1>5 DEF LiveDelta
  <2>3. CASE Skip
    BY <2>1, <2>2, <2>3, <1>skip
  <2>4. CASE ~Skip
    <3>1. view' \in [stage : Stages, whole : BOOLEAN, liveText : Texts, had : BOOLEAN]
      BY <1>0, <2>1, <2>4 DEF RestType, Added, Stages, Texts
    <3>2. RestType'
      BY <1>0, <2>1, <2>2, <2>4, <3>1, <1>view DEF RestType
    <3>3. CoreType'
      BY <1>0, <2>1, <2>4, <1>tail DEF CoreType, KeepEverything
    <3> QED
      BY <3>2, <3>3
  <2> QED
    BY <2>3, <2>4
<1>6. ASSUME BeginTranscribing PROVE CoreType' /\ RestType'
  <2>1. CASE SkipUnless({"TRANSCRIBING"})
    BY <1>6, <2>1, <1>skip DEF BeginTranscribing, SkipUnless
  <2>2. CASE ~SkipUnless({"TRANSCRIBING"})
    <3>1. RestType'
      BY <1>0, <1>6, <2>2
         DEF BeginTranscribing, IdleFrame, RestType, StopSteps, procVars, bootVars, postVars
    <3>2. CoreType'
      BY <1>0, <1>6, <2>2, <1>tail DEF BeginTranscribing, CoreType, ReleasedLive
    <3> QED
      BY <3>1, <3>2
  <2> QED
    BY <2>1, <2>2
<1>7. ASSUME StartBatch PROVE CoreType' /\ RestType'
  <2>1. CASE SkipUnless({"TRANSCRIBING"})
    BY <1>7, <2>1, <1>skip DEF StartBatch, SkipUnless
  <2>2. CASE ~SkipUnless({"TRANSCRIBING"})
    <3>1. RestType'
      BY <1>7, <2>2, <1>same DEF StartBatch
    <3>2. CoreType'
      BY <1>0, <1>7, <2>2, <1>tail DEF StartBatch, CoreType, Workers, resVars
    <3> QED
      BY <3>1, <3>2
  <2> QED
    BY <2>1, <2>2
<1>8. ASSUME SetLiveLen PROVE CoreType' /\ RestType'
  <2>1. RestType'
    BY <1>8, <1>same DEF SetLiveLen
  <2>2. CoreType'
    BY <1>0, <1>8, <1>tail DEF SetLiveLen, CoreType, KeepEverything
  <2> QED
    BY <2>1, <2>2
<1>9. ASSUME OnBatchDelta \/ OnCleanupDelta PROVE CoreType' /\ RestType'
  <2>1. PICK t \in {"batch_delta", "cleanup_delta"}, s \in {"batch", "cleaned"} :
          /\ Take(t) /\ IdleFrame
          /\ \/ /\ loop' = Tail(loop) /\ view' = Added(s)
                /\ UNCHANGED <<state, armed, sent, stopper>> /\ KeepEverything
             \/ Skip
    BY <1>9 DEF OnBatchDelta, OnCleanupDelta, SkipUnless
  <2>2. CASE Skip
    BY <2>1, <2>2, <1>skip
  <2>3. CASE ~Skip
    <3>1. view' \in [stage : Stages, whole : BOOLEAN, liveText : Texts, had : BOOLEAN]
      BY <1>0, <2>1, <2>3 DEF RestType, Added, Stages
    <3>2. RestType'
      BY <1>0, <2>1, <2>3, <3>1, <1>view DEF RestType
    <3>3. CoreType'
      BY <1>0, <2>1, <2>3, <1>tail DEF CoreType, KeepEverything
    <3> QED
      BY <3>2, <3>3
  <2> QED
    BY <2>2, <2>3
<1>10. ASSUME NEW t, Take(t), FailBatch(Tail(loop)), IdleFrame, UNCHANGED stopper
       PROVE  CoreType' /\ RestType'
  <2>1. CoreType'
    BY <1>0, <1>10, <1>tail, StateNames, ReachCore DEF FailBatch
  <2>2. view' \in [stage : Stages, whole : BOOLEAN, liveText : Texts, had : BOOLEAN]
    BY <1>0, <1>10 DEF FailBatch, RestType, Stages
  <2>3. sent' \in [result : {"none", "batch", "cleaned"},
                  verdict : {"none", "no_speech", "batch_failed", "cleanup_failed"}]
    BY <1>0, <1>10 DEF FailBatch, RestType
  <2> QED
    BY <1>10, <2>1, <2>2, <2>3, <1>view
<1>11. ASSUME OnBatchDone PROVE CoreType' /\ RestType'
  <2>1. CASE SkipUnless({"TRANSCRIBING"})
    BY <1>11, <2>1, <1>skip DEF OnBatchDone, SkipUnless
  <2>2. CASE ~SkipUnless({"TRANSCRIBING"})
    <3>1. CoreType'
      BY <1>0, <1>11, <2>2, <1>tail, StateNames, ReachCore DEF OnBatchDone
    <3>2. view' \in [stage : Stages, whole : BOOLEAN, liveText : Texts, had : BOOLEAN]
      BY <1>0, <1>11, <2>2 DEF OnBatchDone, RestType
    <3>3. sent' \in [result : {"none", "batch", "cleaned"},
                    verdict : {"none", "no_speech", "batch_failed", "cleanup_failed"}]
      BY <1>0, <1>11, <2>2 DEF OnBatchDone, RestType
    <3>4. IdleFrame /\ UNCHANGED stopper
      BY <1>11, <2>2 DEF OnBatchDone
    <3> QED
      BY <3>1, <3>2, <3>3, <3>4, <1>view
  <2> QED
    BY <2>1, <2>2
<1>12. ASSUME OnBatchError PROVE CoreType' /\ RestType'
  BY <1>12, <1>10, <1>skip DEF OnBatchError, SkipUnless
<1>13. ASSUME BeginCleanup PROVE CoreType' /\ RestType'
  <2>1. CASE SkipUnless({"CLEANING"})
    BY <1>13, <2>1, <1>skip DEF BeginCleanup, SkipUnless
  <2>2. CASE ~SkipUnless({"CLEANING"})
    <3>1. view' \in [stage : Stages, whole : BOOLEAN, liveText : Texts, had : BOOLEAN]
      BY <1>0, <1>13, <2>2 DEF BeginCleanup, RestType, Stages
    <3>2. RestType'
      BY <1>0, <1>13, <2>2, <3>1, <1>view DEF BeginCleanup, RestType
    <3>3. CoreType'
      BY <1>0, <1>13, <2>2, <1>tail DEF BeginCleanup, CoreType, Workers, resVars
    <3> QED
      BY <3>2, <3>3
  <2> QED
    BY <2>1, <2>2
<1>14. ASSUME OnCleanupDone \/ OnCleanupError PROVE CoreType' /\ RestType'
  <2>1. CASE SkipUnless({"CLEANING"})
    BY <1>14, <2>1, <1>skip DEF OnCleanupDone, OnCleanupError, SkipUnless
  <2>2. CASE ~SkipUnless({"CLEANING"})
    <3>1. CoreType'
      BY <1>0, <1>14, <2>2, <1>tail, StateNames, ReachCore DEF OnCleanupDone, OnCleanupError
    <3>2. view' \in [stage : Stages, whole : BOOLEAN, liveText : Texts, had : BOOLEAN]
      BY <1>0, <1>14, <2>2 DEF OnCleanupDone, OnCleanupError, RestType, Stages
    <3>3. sent' \in [result : {"none", "batch", "cleaned"},
                    verdict : {"none", "no_speech", "batch_failed", "cleanup_failed"}]
      BY <1>0, <1>14, <2>2 DEF OnCleanupDone, OnCleanupError, RestType
    <3>4. IdleFrame /\ UNCHANGED stopper
      BY <1>14, <2>2 DEF OnCleanupDone, OnCleanupError
    <3> QED
      BY <3>1, <3>2, <3>3, <3>4, <1>view
  <2> QED
    BY <2>1, <2>2
<1> QED
  BY <1>1, <1>2, <1>3, <1>4, <1>5, <1>6, <1>7, <1>8, <1>9, <1>11, <1>12, <1>13, <1>14
     DEF Idle

\* The types hold at the start, and every step keeps them.
LEMMA InitType == Init => TypeOK
<1> SUFFICES ASSUME Init PROVE CoreType /\ RestType
  BY TypeParts
<1>1. CoreType
  <2>1. loop \in Seq(Tasks) /\ state \in States
    BY StateNames DEF Init
  <2>2. /\ own \in [Resources -> {"none", "boot", "session", "stopper", "teardown"}]
        /\ live \in [Resources -> {"absent", "new", "live", "ended"}]
    BY DEF Init
  <2> QED
    BY <2>1, <2>2 DEF Init, CoreType, Workers
<1>2. RestType
  BY DEF Init, RestType, BootSteps, StopSteps, Texts, Stages
<1> QED
  BY <1>1, <1>2

LEMMA TypeStep == TypeOK /\ [Next]_vars => TypeOK'
<1>1. ASSUME TypeOK, UNCHANGED vars PROVE TypeOK'
  BY <1>1, TypeParts, SameCore, SameRest DEF vars
<1> QED
  BY <1>1, CommandsType, WorkersType, IdleType DEF Next, Finished

\* session.py, whatever fails and in whatever order: the session's state is
\* well-formed, and only known sources wait for the main loop.
THEOREM SessionTypes == Spec => []TypeOK
  BY InitType, TypeStep, PTL DEF Spec

-----------------------------------------------------------------------------
(* Recording holds the mic and the lock                                    *)

\* Some source `task` waits for the main loop.
Waits(task) == \E i \in 1..Len(loop) : loop[i] = task

EarlyBoot == {"off", "begin", "opening"}

\* Each resource has one owner: a teardown thread has what it was given.
JobsOwn ==
  /\ \A job \in jobs : job # {} /\ \A r \in job : own[r] = "teardown"
  /\ \A one, other \in jobs : one = other \/ one \cap other = {}

\* Who has the mic follows from where the bootstrap thread is.
BootOwns ==
  /\ boot \in EarlyBoot =>
       own["mic"] = "none" /\ ~Waits("enter_warming") /\ ~Waits("audio_error")
  /\ boot = "opened" => own["mic"] = "boot" /\ ~Waits("audio_error")
  /\ own["mic"] = "boot" => boot = "opened"
  /\ boot \in EarlyBoot \cup {"opened", "client", "built", "preview", "assign"}
       => own["ws"] = "none"
  /\ ~started => own["lock"] = "none" /\ boot = "off"

\* A mic or a lock in use is on.
HeldIsLive ==
  /\ own["mic"] \in {"boot", "session", "stopper"} => live["mic"] = "live"
  /\ own["lock"] = "session" => live["lock"] = "live"

\* The mic error is the last the bootstrap says; there is no mic then.
MicErrorIsLast == Waits("audio_error") => own["mic"] = "none" /\ boot = "done"

\* While the session starts or records it keeps what it has.
StartKeeps ==
  Running /\ state = "INITIALIZING" =>
    /\ boot # "off" => own["lock"] = "session"
    /\ Waits("enter_warming") => own["mic"] = "session"

CaptureKeeps ==
  Running /\ state \in Capture => own["mic"] = "session" /\ own["lock"] = "session"

OwnInv == /\ TypeOK /\ JobsOwn /\ BootOwns /\ HeldIsLive /\ MicErrorIsLast
          /\ StartKeeps /\ CaptureKeeps

\* Posting a task makes only that task wait; taking one makes none wait.
LEMMA PostWaits ==
  ASSUME loop \in Seq(Tasks), NEW t, Post(t)
  PROVE  \A u : Waits(u)' => Waits(u) \/ u = t
  BY DEF Waits, Post

LEMMA TakeWaits ==
  ASSUME loop \in Seq(Tasks), loop # <<>>, loop' = Tail(loop)
  PROVE  \A u : Waits(u)' => Waits(u)
  BY DEF Waits

LEMMA ReachWaits ==
  ASSUME loop \in Seq(Tasks), NEW new, NEW q,
         q = loop \/ (loop # <<>> /\ q = Tail(loop)), Reach(new, q)
  PROVE  \A u : Waits(u)' => Waits(u) \/ u = "begin_transcribing" \/ u = "begin_cleanup"
<1> DEFINE news == {"begin_transcribing", "begin_cleanup"}
<1>1. loop' = q \/ \E t \in news : loop' = Append(q, t)
  BY DEF Reach
<1>2. q \in Seq(Tasks)
  OBVIOUS
<1>3. ASSUME NEW u, \E i \in 1..Len(q) : q[i] = u
      PROVE  Waits(u)
  <2>1. CASE q = loop
    BY <1>3, <2>1 DEF Waits
  <2>2. CASE loop # <<>> /\ q = Tail(loop)
    <3>1. PICK i \in 1..Len(q) : q[i] = u
      BY <1>3
    <3>2. i + 1 \in 1..Len(loop) /\ loop[i + 1] = u
      BY <2>2, <3>1
    <3> QED
      BY <3>2 DEF Waits
  <2> QED
    BY <2>1, <2>2
<1>4. ASSUME NEW u, Waits(u)', u \notin news
      PROVE  \E i \in 1..Len(q) : q[i] = u
  <2>1. CASE loop' = q
    BY <1>4, <2>1 DEF Waits
  <2>2. ASSUME NEW t \in news, loop' = Append(q, t)
        PROVE  \E i \in 1..Len(q) : q[i] = u
    <3>1. PICK i \in 1..Len(loop') : loop'[i] = u
      BY <1>4 DEF Waits
    <3>2. Len(loop') = Len(q) + 1 /\ loop'[Len(q) + 1] = t
      BY <1>2, <2>2
    <3>3. i \in 1..Len(q)
      BY <1>2, <1>4, <3>1, <3>2
    <3> QED
      BY <1>2, <2>2, <3>1, <3>3
  <2> QED
    BY <1>1, <2>1, <2>2
<1> QED
  BY <1>3, <1>4

\* The task that is taken was waiting.
LEMMA TakenWaited ==
  ASSUME loop \in Seq(Tasks), NEW t, Take(t)
  PROVE  Waits(t)
  BY DEF Waits, Take

\* No news for the two tasks the invariant speaks of.
Quiet == \A u \in {"enter_warming", "audio_error"} : Waits(u)' => Waits(u)

\* What the invariant says of the owners, apart from the session's state.
Owners == JobsOwn /\ BootOwns /\ HeldIsLive /\ MicErrorIsLast

\* A step that leaves owners, bootstrap and state alone leaves the invariant.
LEMMA OwnInert ==
  ASSUME OwnInv, Quiet, UNCHANGED <<own, jobs, boot, started>>,
         live'["mic"] = live["mic"], live'["lock"] = live["lock"]
  PROVE  /\ Owners'
         /\ UNCHANGED <<state, phase>> => StartKeeps' /\ CaptureKeeps'
  BY DEF OwnInv, Owners, Quiet, JobsOwn, BootOwns, HeldIsLive, MicErrorIsLast,
         StartKeeps, CaptureKeeps, Running

\* Giving up hands every owner over without a gap.
LEMMA OwnAbandon ==
  ASSUME OwnInv, Quiet, UNCHANGED <<boot, started>>,
         NEW syncMic \in BOOLEAN, NEW ok \in BOOLEAN, Abandon(syncMic, ok)
  PROVE  Owners'
<1> DEFINE here == {r \in {"mic"} : syncMic /\ own[r] = "session"}
<1>t. own \in [Resources -> {"none", "boot", "session", "stopper", "teardown"}]
      /\ live \in [Resources -> {"absent", "new", "live", "ended"}]
      /\ jobs \subseteq SUBSET Resources
  BY DEF OwnInv, TypeOK
<1>1. own' = [r \in Resources |-> IF r \in here THEN "none"
                                  ELSE IF r \in HandOver(here) THEN "teardown" ELSE own[r]]
  BY DEF Abandon
<1>2. jobs' = NewJobs(here)
  BY DEF Abandon
<1>3. \A r \in HandOver(here) : r \in Resources /\ own[r] = "session" /\ own'[r] = "teardown"
  BY <1>t, <1>1 DEF HandOver
<1>4. \A r \in Resources : own[r] = "teardown" => own'[r] = "teardown"
  BY <1>t, <1>1 DEF HandOver
<1>5. JobsOwn'
  BY <1>t, <1>2, <1>3, <1>4 DEF JobsOwn, OwnInv, NewJobs
<1>6. \A r \in {"mic", "ws", "lock"} : own'[r] \in {own[r], "none", "teardown"}
                                  /\ (own[r] # "session" => own'[r] = own[r])
                                  /\ (own[r] = "session" => own'[r] # "session")
  BY <1>t, <1>1 DEF HandOver, Resources
<1>7. \A r \in {"mic", "lock"} : own[r] # "session" => live'[r] = live[r]
  BY <1>t DEF Abandon, Resources
<1>8. BootOwns'
  BY <1>6 DEF OwnInv, BootOwns, Quiet
<1>9. HeldIsLive'
  BY <1>6, <1>7 DEF OwnInv, HeldIsLive
<1>10. MicErrorIsLast'
  BY <1>6 DEF OwnInv, MicErrorIsLast, Quiet
<1> QED
  BY <1>5, <1>8, <1>9, <1>10 DEF Owners

\* A transition keeps the owners in order, and only WARMING and RECORDING
\* ask anything of the session's own.
LEMMA OwnReach ==
  ASSUME OwnInv, NEW new \in States, NEW q, q = loop \/ (loop # <<>> /\ q = Tail(loop)),
         Reach(new, q), UNCHANGED <<boot, started>>
  PROVE  /\ Owners'
         /\ new \notin {"INITIALIZING", "WARMING", "RECORDING"} => StartKeeps' /\ CaptureKeeps'
         /\ new \in {"WARMING", "RECORDING"} => UNCHANGED own
<1>1. Quiet
  BY ReachWaits DEF Quiet, OwnInv, TypeOK
<1>2. state' = new
  BY DEF Reach
<1>3. Owners'
  <2>1. CASE new = "CANCELLED"
    <3>1. PICK ok \in BOOLEAN : Abandon(TRUE, ok)
      BY <2>1 DEF Reach, MicStops
    <3> QED
      BY <1>1, <3>1, OwnAbandon
  <2>2. CASE new = "ERROR"
    <3>1. Abandon(FALSE, TRUE)
      BY <2>2 DEF Reach
    <3> QED
      BY <1>1, <3>1, OwnAbandon
  <2>3. CASE new \notin {"CANCELLED", "ERROR"}
    BY <1>1, <2>3, OwnInert DEF Reach, KeepEverything
  <2> QED
    BY <2>1, <2>2, <2>3
<1>4. new \in {"WARMING", "RECORDING"} => UNCHANGED own
  BY DEF Reach, KeepEverything
<1> QED
  BY <1>2, <1>3, <1>4 DEF StartKeeps, CaptureKeeps, Capture

\* The commands, signals and the process's end keep the owners in order.
LEMMA OwnCommands == OwnInv /\ TypeOK' /\ (Commands \/ Vanish) => OwnInv'
<1> SUFFICES ASSUME OwnInv, TypeOK', Commands \/ Vanish PROVE Owners' /\ StartKeeps' /\ CaptureKeeps'
  BY DEF OwnInv, Owners
<1>0. /\ own \in [Resources -> {"none", "boot", "session", "stopper", "teardown"}]
      /\ live \in [Resources -> {"absent", "new", "live", "ended"}]
      /\ jobs \subseteq SUBSET Resources
  BY DEF OwnInv, TypeOK
<1>1. CASE FailStartup \/ Stop \/ Cancel
  <2>1. PICK new \in {"ERROR", "TRANSCRIBING", "CANCELLED"} : Reach(new, loop)
    BY <1>1 DEF FailStartup, Stop, Cancel
  <2>2. UNCHANGED <<boot, started>>
    BY <1>1 DEF FailStartup, Stop, Cancel, procVars, bootVars
  <2> QED
    BY <2>1, <2>2, StateNames, OwnReach
<1>2. CASE Start
  <2>1. CASE Reach("ERROR", loop)
    <3>1. Quiet /\ Abandon(FALSE, TRUE)
      BY <2>1, ReachWaits DEF Reach, Quiet, OwnInv, TypeOK
    <3>2. own["lock"] = "none" /\ boot = "off"
      BY <1>2 DEF Start, OwnInv, BootOwns
    <3>3. \A r \in Resources : own[r] = "none" \/ r \in {"mic", "ws", "lock"}
      BY DEF Resources
    <3>4. own["mic"] = "none" /\ own["ws"] = "none"
      BY <3>2 DEF OwnInv, BootOwns, EarlyBoot
    <3>5. own'["lock"] = "none" /\ own'["mic"] = "none" /\ own'["ws"] = "none"
      BY <1>0, <3>1, <3>2, <3>4 DEF Abandon, HandOver, Resources
    <3>6. state' = "ERROR"
      BY <2>1 DEF Reach
    <3>7. UNCHANGED live
      BY <1>0, <3>1 DEF Abandon
    <3>8. boot' \in {"off", "begin"} /\ started' = TRUE
      BY <1>2, <2>1, <3>2 DEF Start
    <3>9. JobsOwn'
      <4>1. \A r \in HandOver({r \in {"mic"} : FALSE /\ own[r] = "session"}) :
              own[r] = "session" /\ own'[r] = "teardown"
        BY <1>0, <3>1 DEF Abandon, HandOver
      <4>2. \A r \in Resources : own[r] = "teardown" => own'[r] = "teardown"
        BY <1>0, <3>1 DEF Abandon, HandOver
      <4> QED
        BY <1>0, <3>1, <4>1, <4>2 DEF Abandon, NewJobs, JobsOwn, OwnInv
    <3>10. BootOwns'
      BY <3>1, <3>2, <3>5, <3>8 DEF OwnInv, BootOwns, Quiet, EarlyBoot
    <3>11. MicErrorIsLast'
      BY <3>1, <3>2 DEF OwnInv, BootOwns, MicErrorIsLast, Quiet, EarlyBoot
    <3> QED
      BY <3>5, <3>6, <3>9, <3>10, <3>11
         DEF Owners, HeldIsLive, StartKeeps, CaptureKeeps, Capture
  <2>2. CASE ~Reach("ERROR", loop)
    <3>1. UNCHANGED <<loop, jobs, phase>> /\ started' = TRUE /\ state = "INITIALIZING"
      BY <1>2, <2>2 DEF Start
    <3>2. own["lock"] = "none" /\ boot = "off" /\ own["mic"] = "none" /\ own["ws"] = "none"
      BY <1>2 DEF Start, OwnInv, BootOwns, EarlyBoot
    <3>3. /\ own'["mic"] = "none" /\ own'["ws"] = "none" /\ own'["lock"] \in {"none", "session"}
          /\ own'["lock"] = "session" => live'["lock"] = "live"
          /\ state' = "ERROR" \/ (state' = state /\ own'["lock"] = "session")
          /\ \A r \in Resources : own[r] = "teardown" => own'[r] = "teardown"
          /\ boot' \in {"off", "begin"}
      BY <1>0, <1>2, <2>2, <3>2 DEF Start, Resources
    <3>4. JobsOwn'
      BY <1>0, <3>1, <3>3 DEF OwnInv, JobsOwn
    <3> QED
      BY <3>1, <3>2, <3>3, <3>4
         DEF Owners, OwnInv, BootOwns, HeldIsLive, MicErrorIsLast, StartKeeps,
             CaptureKeeps, Capture, EarlyBoot, Waits
  <2> QED
    BY <2>1, <2>2
<1>3. ASSUME NEW trashIfEmpty \in BOOLEAN, Close(trashIfEmpty)
      PROVE  Owners' /\ StartKeeps' /\ CaptureKeeps'
  <2>1. UNCHANGED <<boot, started>> /\ phase' = "leaving"
    BY <1>3 DEF Close
  <2>2. StartKeeps' /\ CaptureKeeps'
    BY <2>1 DEF StartKeeps, CaptureKeeps, Running
  <2>3. CASE Reach("CANCELLED", loop)
    BY <2>1, <2>2, <2>3, StateNames, OwnReach
  <2>4. CASE ~Reach("CANCELLED", loop)
    <3>1. Abandon(FALSE, TRUE) /\ UNCHANGED loop
      BY <1>3, <2>4 DEF Close
    <3>2. Quiet
      BY <3>1 DEF Quiet, Waits
    <3> QED
      BY <2>1, <2>2, <3>1, <3>2, OwnAbandon
  <2> QED
    BY <2>3, <2>4
<1>4. CASE Signal
  <2>1. UNCHANGED <<boot, started, jobs, loop>> /\ phase' = "leaving"
    BY <1>4 DEF Signal, bootVars
  <2>2. StartKeeps' /\ CaptureKeeps'
    BY <2>1 DEF StartKeeps, CaptureKeeps, Running
  <2>3. /\ \A r \in Resources : own'[r] = IF r = "lock" /\ own[r] = "session" THEN "none" ELSE own[r]
        /\ live'["mic"] = live["mic"]
        /\ own["lock"] # "session" => live'["lock"] = live["lock"]
    BY <1>0, <1>4 DEF Signal, Resources
  <2>4. "mic" \in Resources /\ "lock" \in Resources /\ "ws" \in Resources
    BY DEF Resources
  <2>5. JobsOwn'
    BY <1>0, <2>1, <2>3 DEF OwnInv, JobsOwn
  <2>6. BootOwns' /\ HeldIsLive' /\ MicErrorIsLast'
    BY <2>1, <2>3, <2>4 DEF OwnInv, BootOwns, HeldIsLive, MicErrorIsLast, Waits
  <2> QED
    BY <2>2, <2>5, <2>6 DEF Owners
<1>5. CASE Vanish
  <2>1. Quiet /\ UNCHANGED <<own, jobs, boot, started, live, state>> /\ phase' = "gone"
    BY <1>5 DEF Vanish, coreVars, bootVars, Quiet, Waits
  <2> QED
    BY <2>1, OwnInert DEF StartKeeps, CaptureKeeps, Running
<1> QED
  BY <1>1, <1>2, <1>3, <1>4, <1>5 DEF Commands

\* The bootstrap thread opens the mic, then hands it to the session.
LEMMA OwnBoot == OwnInv /\ TypeOK' /\ Boot => OwnInv'
<1> SUFFICES ASSUME OwnInv, TypeOK', Boot PROVE Owners' /\ StartKeeps' /\ CaptureKeeps'
  BY DEF OwnInv, Owners
<1>0. /\ own \in [Resources -> {"none", "boot", "session", "stopper", "teardown"}]
      /\ live \in [Resources -> {"absent", "new", "live", "ended"}]
      /\ jobs \subseteq SUBSET Resources /\ loop \in Seq(Tasks)
  BY DEF OwnInv, TypeOK
<1>1. UNCHANGED <<state, jobs, phase, started>>
  BY DEF Boot, BootBegin, BootOpenMic, BootPublishMic, BootBuildClient, BootPublishClient,
         BootCheckPreview, BootPublishPreview, BootConnectPreview, BootFinish, BootFrame,
         procVars
<1>2. CASE BootBegin
  <2>1. UNCHANGED <<loop, own, live>> /\ boot = "begin"
    BY <1>2 DEF BootBegin, resVars
  <2> QED
    BY <1>1, <1>2, <2>1
       DEF BootBegin, Owners, OwnInv, JobsOwn, BootOwns, HeldIsLive, MicErrorIsLast,
           StartKeeps, CaptureKeeps, EarlyBoot, Waits, Running
<1>3. CASE BootOpenMic
  <2>1. /\ own["mic"] = "none" /\ own["ws"] = "none"
        /\ ~Waits("enter_warming") /\ ~Waits("audio_error")
    BY <1>3 DEF BootOpenMic, OwnInv, BootOwns, EarlyBoot
  <2>2. CASE boot' = "opened"
    <3>1. /\ own'["mic"] = "boot" /\ live'["mic"] = "live"
          /\ own'["lock"] = own["lock"] /\ own'["ws"] = own["ws"]
          /\ live'["lock"] = live["lock"] /\ UNCHANGED loop
          /\ \A r \in Resources : own[r] = "teardown" => own'[r] = "teardown"
      BY <1>0, <1>3, <2>1, <2>2 DEF BootOpenMic, Resources
    <3>2. boot # "off"
      BY <1>3 DEF BootOpenMic
    <3>3. ~Waits("enter_warming")' /\ ~Waits("audio_error")'
      BY <2>1, <3>1 DEF Waits
    <3>4. JobsOwn'
      BY <1>0, <1>1, <3>1 DEF OwnInv, JobsOwn
    <3>5. ~(Running /\ state \in Capture)
      BY <2>1 DEF OwnInv, CaptureKeeps
    <3>6. started
      BY <3>2 DEF OwnInv, BootOwns
    <3>7. BootOwns'
      BY <1>1, <2>1, <2>2, <3>1, <3>3, <3>6 DEF BootOwns, EarlyBoot
    <3>8. HeldIsLive' /\ MicErrorIsLast'
      BY <3>1, <3>3 DEF OwnInv, HeldIsLive, MicErrorIsLast
    <3>9. StartKeeps' /\ CaptureKeeps'
      BY <1>1, <3>1, <3>2, <3>3, <3>5 DEF OwnInv, StartKeeps, CaptureKeeps, Running
    <3> QED
      BY <3>4, <3>7, <3>8, <3>9 DEF Owners
  <2>3. CASE boot' # "opened"
    <3>1. boot' = "done" /\ Post("audio_error") /\ UNCHANGED <<own, live>> /\ boot # "off"
      BY <1>3, <2>3 DEF BootOpenMic
    <3>2. ~Waits("enter_warming")'
      BY <1>0, <2>1, <3>1, PostWaits
    <3> QED
      BY <1>1, <2>1, <3>1, <3>2
         DEF Owners, OwnInv, JobsOwn, BootOwns, HeldIsLive, MicErrorIsLast, StartKeeps,
             CaptureKeeps, EarlyBoot, Running
  <2> QED
    BY <2>2, <2>3
<1>4. CASE BootPublishMic
  <2>1. /\ boot = "opened" /\ boot' = "client" /\ ~Waits("audio_error")
        /\ own["mic"] = "boot" /\ own["ws"] = "none"
    BY <1>4 DEF BootPublishMic, OwnInv, BootOwns, EarlyBoot
  <2>2. /\ own'["mic"] = "session" /\ UNCHANGED live
        /\ own'["lock"] = own["lock"] /\ own'["ws"] = own["ws"]
        /\ \A r \in Resources : own[r] = "teardown" => own'[r] = "teardown"
    BY <1>0, <1>4, <2>1 DEF BootPublishMic, Resources
  <2>3. ~Waits("audio_error")'
    BY <1>0, <1>4, <2>1, PostWaits DEF BootPublishMic
  <2>4. JobsOwn'
    BY <1>0, <1>1, <2>2 DEF OwnInv, JobsOwn
  <2>5. ~(Running /\ state \in Capture)
    BY <2>1 DEF OwnInv, CaptureKeeps
  <2> QED
    BY <1>1, <2>1, <2>2, <2>3, <2>4, <2>5
       DEF Owners, OwnInv, BootOwns, HeldIsLive, MicErrorIsLast, StartKeeps, CaptureKeeps,
           EarlyBoot, Running
<1>5. CASE BootBuildClient \/ BootPublishClient \/ BootCheckPreview \/ BootConnectPreview
           \/ BootFinish
  <2>1. UNCHANGED <<loop, own>> /\ live'["mic"] = live["mic"] /\ live'["lock"] = live["lock"]
    BY <1>0, <1>5
       DEF BootBuildClient, BootPublishClient, BootCheckPreview, BootConnectPreview,
           BootFinish, resVars, Resources
  <2>2. /\ boot \in {"client", "built", "preview", "connect", "finish"}
        /\ boot' \in {"built", "preview", "assign", "finish", "done"}
        /\ boot \in {"connect", "finish"} => boot' \in {"finish", "done"}
    BY <1>5
       DEF BootBuildClient, BootPublishClient, BootCheckPreview, BootConnectPreview, BootFinish
  <2> QED
    BY <1>1, <2>1, <2>2
       DEF Owners, OwnInv, JobsOwn, BootOwns, HeldIsLive, MicErrorIsLast, StartKeeps,
           CaptureKeeps, EarlyBoot, Waits, Running
<1>6. CASE BootPublishPreview
  <2>1. boot = "assign" /\ boot' = "connect" /\ own["ws"] = "none" /\ UNCHANGED loop
    BY <1>6 DEF BootPublishPreview, OwnInv, BootOwns
  <2>2. /\ \A r \in {"mic", "lock"} : own'[r] = own[r] /\ live'[r] = live[r]
        /\ \A r \in Resources : own[r] = "teardown" => own'[r] = "teardown"
    BY <1>0, <1>6, <2>1 DEF BootPublishPreview, Resources
  <2>3. JobsOwn'
    BY <1>0, <1>1, <2>2 DEF OwnInv, JobsOwn
  <2> QED
    BY <1>1, <2>1, <2>2, <2>3
       DEF Owners, OwnInv, BootOwns, HeldIsLive, MicErrorIsLast, StartKeeps, CaptureKeeps,
           EarlyBoot, Waits, Running
<1> QED
  BY <1>2, <1>3, <1>4, <1>5, <1>6 DEF Boot

\* The other threads stop what they own, and nothing else.
LEMMA OwnThreads == OwnInv /\ TypeOK' /\ Threads => OwnInv'
<1> SUFFICES ASSUME OwnInv, TypeOK', Threads PROVE Owners' /\ StartKeeps' /\ CaptureKeeps'
  BY DEF OwnInv, Owners
<1>0. /\ own \in [Resources -> {"none", "boot", "session", "stopper", "teardown"}]
      /\ live \in [Resources -> {"absent", "new", "live", "ended"}]
      /\ jobs \subseteq SUBSET Resources /\ loop \in Seq(Tasks)
      /\ "mic" \in Resources /\ "lock" \in Resources /\ "ws" \in Resources
  BY DEF OwnInv, TypeOK, Resources
<1>1. CASE Boot
  BY <1>1, OwnBoot DEF OwnInv, Owners
<1>2. CASE Stopper
  <2>1. UNCHANGED <<state, phase, started, boot, jobs>>
    BY <1>2 DEF Stopper, StopMic, AwaitBoot, StopPreview, StopFrame, procVars, bootVars
  <2>2. loop' = loop \/ Post("start_batch") \/ Post("set_live_len")
    BY <1>2 DEF Stopper, StopMic, AwaitBoot, StopPreview
  <2>3. Quiet
    <3>1. CASE loop' = loop
      BY <3>1 DEF Quiet, Waits
    <3>2. CASE Post("start_batch") \/ Post("set_live_len")
      BY <1>0, <3>2, PostWaits DEF Quiet
    <3> QED
      BY <2>2, <3>1, <3>2
  <2>4. /\ own'["lock"] = own["lock"] /\ live'["lock"] = live["lock"]
        /\ \A r \in Resources : own[r] = "teardown" => own'[r] = "teardown"
        /\ own'["mic"] = own["mic"] \/ (own["mic"] = "stopper" /\ own'["mic"] = "none")
        /\ own'["mic"] = own["mic"] => own["mic"] = "none" \/ live'["mic"] = live["mic"]
        /\ own'["ws"] \in {own["ws"], "none"}
    BY <1>0, <1>2 DEF Stopper, StopMic, AwaitBoot, StopPreview, Resources, resVars
  <2>5. JobsOwn'
    BY <1>0, <2>1, <2>4 DEF OwnInv, JobsOwn
  <2>6. BootOwns' /\ MicErrorIsLast' /\ HeldIsLive'
    BY <2>1, <2>3, <2>4
       DEF OwnInv, BootOwns, MicErrorIsLast, HeldIsLive, Quiet, EarlyBoot
  <2>7. StartKeeps' /\ CaptureKeeps'
    BY <2>1, <2>3, <2>4 DEF OwnInv, StartKeeps, CaptureKeeps, Quiet, Running
  <2> QED
    BY <2>5, <2>6, <2>7 DEF Owners
<1>3. ASSUME NEW job \in jobs, Teardown(job) PROVE Owners' /\ StartKeeps' /\ CaptureKeeps'
  <2> DEFINE r == NextToStop(job)
  <2>1. UNCHANGED <<state, phase, started, boot, loop>>
    BY <1>3 DEF Teardown, procVars, bootVars
  <2>2. PICK ok : /\ own' = [own EXCEPT ![r] = "none"]
                  /\ live' = [live EXCEPT ![r] = IF ok THEN Stopped(r) ELSE @]
                  /\ jobs' = (jobs \ {job}) \cup (IF job \ {r} = {} THEN {} ELSE {job \ {r}})
    BY <1>3 DEF Teardown
  <2>3. r \in job
    <3>1. job # {} /\ job \subseteq {"mic", "ws", "lock"}
      BY <1>0 DEF Resources, OwnInv, JobsOwn
    <3> QED
      BY <3>1 DEF NextToStop
  <2>4. Owners' /\ StartKeeps' /\ CaptureKeeps'
    <3>1. own[r] = "teardown"
      BY <2>3 DEF OwnInv, JobsOwn
    <3>2. r \in Resources
      BY DEF NextToStop, Resources
    <3>3. \A other \in jobs' : r \notin other
      BY <2>2, <2>3 DEF OwnInv, JobsOwn
    <3>4. \A x \in Resources \ {r} : own'[x] = own[x] /\ live'[x] = live[x]
      BY <1>0, <2>2
    <3>5. own'[r] = "none"
      BY <1>0, <2>2, <3>2
    <3>6. \A other \in jobs' : \E whole \in jobs : other \subseteq whole
      BY <2>2
    <3>7. \A other \in jobs' : other # {} /\ \A x \in other : own'[x] = "teardown"
      BY <1>0, <2>2, <3>3, <3>4, <3>6 DEF OwnInv, JobsOwn
    <3>8. \A one, other \in jobs' : one = other \/ one \cap other = {}
      BY <2>2 DEF OwnInv, JobsOwn
    <3>9. BootOwns' /\ MicErrorIsLast' /\ HeldIsLive'
      BY <1>0, <2>1, <3>1, <3>4, <3>5
         DEF OwnInv, BootOwns, MicErrorIsLast, HeldIsLive, EarlyBoot, Waits
    <3>10. StartKeeps' /\ CaptureKeeps'
      BY <1>0, <2>1, <3>1, <3>4, <3>5 DEF OwnInv, StartKeeps, CaptureKeeps, Waits, Running
    <3> QED
      BY <3>7, <3>8, <3>9, <3>10 DEF Owners, JobsOwn
  <2> QED
    BY <2>4
<1>4. CASE PreviewPosts
  <2>1. \E t \in {"live_words", "live_blank", "ws_error"} : Post(t)
    BY <1>4 DEF PreviewPosts
  <2>2. Quiet
    BY <1>0, <2>1, PostWaits DEF Quiet
  <2>3. UNCHANGED <<own, jobs, boot, started, state, phase>>
        /\ live'["mic"] = live["mic"] /\ live'["lock"] = live["lock"]
    BY <1>0, <1>4 DEF PreviewPosts, procVars, bootVars, Resources
  <2> QED
    BY <2>2, <2>3, OwnInert
<1>5. CASE BatchDelta \/ BatchEnds \/ CleanupDelta \/ CleanupEnds
  <2>1. \E t \in {"batch_delta", "batch_done", "batch_error", "cleanup_delta",
                  "cleanup_done", "cleanup_error"} : Post(t)
    BY <1>5 DEF BatchDelta, BatchEnds, BatchCompletes, BatchFails, CleanupDelta,
                CleanupEnds, CleanupCompletes, CleanupFails
  <2>2. Quiet
    BY <1>0, <2>1, PostWaits DEF Quiet
  <2>3. UNCHANGED <<own, live, jobs, boot, started, state, phase>>
    BY <1>5 DEF BatchDelta, BatchEnds, BatchCompletes, BatchFails, CleanupDelta,
                CleanupEnds, CleanupCompletes, CleanupFails, WorkerFrame, procVars,
                bootVars, resVars
  <2> QED
    BY <2>2, <2>3, OwnInert
<1> QED
  BY <1>1, <1>2, <1>3, <1>4, <1>5 DEF Threads

\* The callbacks of the main loop: WARMING finds the mic and the lock in the
\* session's hands, and nothing releases them before the state has changed.
LEMMA OwnIdle == OwnInv /\ TypeOK' /\ (Idle \/ WarmingEnds) => OwnInv'
<1> SUFFICES ASSUME OwnInv, TypeOK', Idle \/ WarmingEnds
             PROVE  Owners' /\ StartKeeps' /\ CaptureKeeps'
  BY DEF OwnInv, Owners
<1>0. /\ own \in [Resources -> {"none", "boot", "session", "stopper", "teardown"}]
      /\ live \in [Resources -> {"absent", "new", "live", "ended"}]
      /\ jobs \subseteq SUBSET Resources /\ loop \in Seq(Tasks)
      /\ "mic" \in Resources /\ "lock" \in Resources /\ "ws" \in Resources
  BY DEF OwnInv, TypeOK, Resources
<1>idle. IdleFrame => UNCHANGED <<phase, started, boot>>
  BY DEF IdleFrame, procVars, bootVars
<1>tail. loop' = Tail(loop) /\ loop # <<>> => Quiet
  BY <1>0, TakeWaits DEF Quiet
<1>rest. ASSUME IdleFrame, loop # <<>>, loop' = Tail(loop),
                UNCHANGED <<state, own, jobs>>,
                live'["mic"] = live["mic"], live'["lock"] = live["lock"]
         PROVE  Owners' /\ StartKeeps' /\ CaptureKeeps'
  BY <1>rest, <1>idle, <1>tail, OwnInert
<1>skip. ASSUME IdleFrame, loop # <<>>, Skip PROVE Owners' /\ StartKeeps' /\ CaptureKeeps'
  BY <1>skip, <1>rest DEF Skip, KeepEverything
<1>1. CASE WarmingEnds
  <2>1. /\ Reach("RECORDING", loop) /\ UNCHANGED <<boot, started, phase>>
        /\ Running /\ state = "WARMING"
    BY <1>1 DEF WarmingEnds, procVars, bootVars
  <2>2. Owners' /\ UNCHANGED own
    BY <2>1, StateNames, OwnReach
  <2>3. state' = "RECORDING"
    BY <2>1 DEF Reach
  <2> QED
    BY <2>1, <2>2, <2>3 DEF OwnInv, StartKeeps, CaptureKeeps, Capture, Running
<1>2. CASE EnterWarming
  <2>1. IdleFrame /\ Take("enter_warming")
    BY <1>2 DEF EnterWarming
  <2>2. CASE Skip
    BY <2>1, <2>2, <1>skip DEF Take
  <2>3. CASE ~Skip
    <3>1. Reach("WARMING", Tail(loop)) /\ state = "INITIALIZING"
      BY <1>2, <2>3 DEF EnterWarming
    <3>2. Owners' /\ UNCHANGED own
      BY <2>1, <3>1, <1>idle, StateNames, OwnReach DEF Take
    <3>3. Waits("enter_warming")
      BY <1>0, <2>1, TakenWaited
    <3>4. own["mic"] = "session" /\ own["lock"] = "session"
      BY <2>1, <3>1, <3>3 DEF Take, OwnInv, StartKeeps, BootOwns, EarlyBoot
    <3>5. state' = "WARMING"
      BY <3>1 DEF Reach
    <3> QED
      BY <3>2, <3>4, <3>5 DEF StartKeeps, CaptureKeeps
  <2> QED
    BY <2>2, <2>3
<1>3. CASE AudioError
  <2>1. Quiet /\ UNCHANGED <<jobs, boot, started, phase>> /\ Running
    BY <1>3, <1>idle, <1>tail DEF AudioError, Take
  <2>2. own["mic"] = "none" /\ boot = "done"
    BY <1>0, <1>3, TakenWaited DEF AudioError, OwnInv, MicErrorIsLast
  <2>3. /\ \A r \in Resources : own'[r] = IF r = "lock" /\ own[r] = "session" THEN "none" ELSE own[r]
        /\ own["lock"] # "session" => live'["lock"] = live["lock"]
    BY <1>0, <1>3 DEF AudioError, ReleasedOwn, ReleasedLive
  <2>4. JobsOwn'
    BY <1>0, <2>1, <2>3 DEF OwnInv, JobsOwn
  <2>5. BootOwns' /\ HeldIsLive' /\ MicErrorIsLast'
    BY <1>0, <2>1, <2>2, <2>3 DEF OwnInv, BootOwns, HeldIsLive, MicErrorIsLast, Quiet, EarlyBoot
  <2>6. state \notin Capture /\ state' # "INITIALIZING" /\ (state' = state \/ state' = "ERROR")
    BY <1>3, <2>1, <2>2 DEF AudioError, OwnInv, CaptureKeeps
  <2>7. StartKeeps' /\ CaptureKeeps'
    BY <2>6 DEF StartKeeps, CaptureKeeps, Capture
  <2> QED
    BY <2>4, <2>5, <2>7 DEF Owners
<1>4. CASE WsError
  <2>1. IdleFrame /\ Take("ws_error")
    BY <1>4 DEF WsError
  <2>2. CASE Skip
    BY <2>1, <2>2, <1>skip DEF Take
  <2>3. CASE ~Skip
    <3>1. UNCHANGED <<jobs, boot, started, phase, state>> /\ Quiet
      BY <1>4, <2>1, <2>3, <1>idle, <1>tail DEF WsError, SkipUnless, Take
    <3>2. /\ \A r \in Resources : own'[r] = IF r = "ws" /\ own[r] = "session" THEN "none" ELSE own[r]
          /\ live'["mic"] = live["mic"] /\ live'["lock"] = live["lock"]
      BY <1>0, <1>4, <2>3 DEF WsError, SkipUnless
    <3>3. JobsOwn'
      BY <1>0, <3>1, <3>2 DEF OwnInv, JobsOwn
    <3>4. BootOwns' /\ HeldIsLive' /\ MicErrorIsLast'
      BY <1>0, <3>1, <3>2 DEF OwnInv, BootOwns, HeldIsLive, MicErrorIsLast, Quiet, EarlyBoot
    <3>5. StartKeeps' /\ CaptureKeeps'
      BY <1>0, <3>1, <3>2 DEF OwnInv, StartKeeps, CaptureKeeps, Quiet, Running
    <3> QED
      BY <3>3, <3>4, <3>5 DEF Owners
  <2> QED
    BY <2>2, <2>3
<1>5. CASE BeginTranscribing
  <2>1. IdleFrame /\ Take("begin_transcribing")
    BY <1>5 DEF BeginTranscribing
  <2>2. CASE Skip
    BY <2>1, <2>2, <1>skip DEF Take
  <2>3. CASE ~Skip
    <3>1. UNCHANGED <<jobs, boot, started, phase, state>> /\ Quiet /\ state = "TRANSCRIBING"
      BY <1>5, <2>1, <2>3, <1>idle, <1>tail DEF BeginTranscribing, SkipUnless, Take
    <3>2. /\ \A r \in Resources : own'[r] = IF own[r] # "session" THEN own[r]
                                            ELSE IF r = "lock" THEN "none" ELSE "stopper"
          /\ live'["mic"] = live["mic"]
          /\ own["lock"] # "session" => live'["lock"] = live["lock"]
      BY <1>0, <1>5, <2>3 DEF BeginTranscribing, SkipUnless, ReleasedLive
    <3>3. JobsOwn'
      BY <1>0, <3>1, <3>2 DEF OwnInv, JobsOwn
    <3>4. BootOwns' /\ HeldIsLive' /\ MicErrorIsLast'
      BY <1>0, <3>1, <3>2 DEF OwnInv, BootOwns, HeldIsLive, MicErrorIsLast, Quiet, EarlyBoot
    <3>5. StartKeeps' /\ CaptureKeeps'
      BY <3>1 DEF StartKeeps, CaptureKeeps, Capture
    <3> QED
      BY <3>3, <3>4, <3>5 DEF Owners
  <2> QED
    BY <2>2, <2>3
<1>6. CASE LiveDelta \/ StartBatch \/ SetLiveLen \/ OnBatchDelta \/ BeginCleanup
           \/ OnCleanupDelta
  BY <1>6, <1>rest
     DEF LiveDelta, StartBatch, SetLiveLen, OnBatchDelta, BeginCleanup, OnCleanupDelta,
         SkipUnless, Skip, Take, KeepEverything, resVars
<1>7. CASE OnBatchDone \/ OnBatchError \/ OnCleanupDone \/ OnCleanupError
  <2>1. IdleFrame /\ loop # <<>>
    BY <1>7 DEF OnBatchDone, OnBatchError, OnCleanupDone, OnCleanupError, Take
  <2>2. CASE Skip
    BY <2>1, <2>2, <1>skip
  <2>3. CASE ~Skip
    <3>1. PICK new \in {"READY", "CLEANING"} : Reach(new, Tail(loop))
      BY <1>7, <2>3 DEF OnBatchDone, OnBatchError, OnCleanupDone, OnCleanupError,
                        FailBatch, SkipUnless
    <3> QED
      BY <2>1, <3>1, <1>idle, StateNames, OwnReach
  <2> QED
    BY <2>2, <2>3
<1> QED
  BY <1>1, <1>2, <1>3, <1>4, <1>5, <1>6, <1>7 DEF Idle

\* The owners stay in order for ever.
LEMMA OwnInvariant == Spec => []OwnInv
<1>1. Init => OwnInv
  <2> SUFFICES ASSUME Init PROVE OwnInv
    OBVIOUS
  <2>1. TypeOK
    BY InitType
  <2>2. \A t : ~Waits(t)
    BY DEF Init, Waits
  <2> QED
    BY <2>1, <2>2
       DEF Init, OwnInv, JobsOwn, BootOwns, HeldIsLive, MicErrorIsLast, StartKeeps,
           CaptureKeeps, EarlyBoot, Capture, Resources
<1>2. OwnInv /\ [Next]_vars => OwnInv'
  <2> SUFFICES ASSUME OwnInv, [Next]_vars PROVE OwnInv'
    OBVIOUS
  <2>1. TypeOK'
    BY TypeStep DEF OwnInv
  <2>2. CASE UNCHANGED vars
    <3>1. Quiet /\ UNCHANGED <<own, jobs, boot, started, live, state, phase>>
      BY <2>2 DEF vars, coreVars, procVars, bootVars, Quiet, Waits
    <3> QED
      BY <2>1, <3>1, OwnInert DEF Owners, OwnInv
  <2> QED
    BY <2>1, <2>2, OwnCommands, OwnThreads, OwnIdle DEF Next, Finished
<1> QED
  BY <1>1, <1>2, PTL DEF Spec

\* While the frontend shows a recording the session holds a live mic and the
\* lock, whatever the bootstrap, a lost preview or an earlier failure did.
THEOREM CaptureHoldsMicAndLock == Spec => []CaptureIsExclusive
<1>1. OwnInv => CaptureIsExclusive
  BY DEF OwnInv, CaptureKeeps, HeldIsLive, CaptureIsExclusive
<1> QED
  BY OwnInvariant, <1>1, PTL

-----------------------------------------------------------------------------
(* What a step may do to the session's state                            *)

\* A step leaves the state alone, or moves it as its guard allows.
LEMMA Moves ==
  ASSUME [Next]_vars
  PROVE  \/ state' = state
         \/ state = "INITIALIZING" /\ state' \in {"WARMING", "ERROR"}
         \/ state = "WARMING" /\ state' = "RECORDING"
         \/ state \in Capture /\ state' = "TRANSCRIBING"
         \/ state = "TRANSCRIBING" /\ state' \in {"CLEANING", "READY"}
         \/ state = "CLEANING" /\ state' = "READY"
         \/ state \in InFlight /\ state' = "CANCELLED"
<1> DEFINE Legal ==
      \/ state' = state
      \/ state = "INITIALIZING" /\ state' \in {"WARMING", "ERROR"}
      \/ state = "WARMING" /\ state' = "RECORDING"
      \/ state \in Capture /\ state' = "TRANSCRIBING"
      \/ state = "TRANSCRIBING" /\ state' \in {"CLEANING", "READY"}
      \/ state = "CLEANING" /\ state' = "READY"
      \/ state \in InFlight /\ state' = "CANCELLED"
<1>1. CASE UNCHANGED vars
  BY <1>1 DEF vars, coreVars
<1>2. CASE Commands \/ Vanish
  BY <1>2 DEF Commands, Vanish, coreVars, FailStartup, Start, Stop, Cancel, Close, Signal,
              Reach
<1>3. CASE Threads
  BY <1>3
     DEF Threads, Boot, BootBegin, BootOpenMic, BootPublishMic, BootBuildClient,
         BootPublishClient, BootCheckPreview, BootPublishPreview, BootConnectPreview,
         BootFinish, BootFrame, Stopper, StopMic, AwaitBoot, StopPreview, StopFrame,
         Teardown, PreviewPosts, BatchDelta, BatchEnds, BatchCompletes, BatchFails,
         CleanupDelta, CleanupEnds, CleanupCompletes, CleanupFails, WorkerFrame
<1>4. CASE WarmingEnds \/ EnterWarming \/ AudioError \/ WsError \/ BeginTranscribing
           \/ StartBatch \/ SetLiveLen \/ BeginCleanup
  BY <1>4
     DEF WarmingEnds, EnterWarming, AudioError, WsError, BeginTranscribing, StartBatch,
         SetLiveLen, BeginCleanup, Reach, Skip, SkipUnless
<1>5. CASE LiveDelta \/ OnBatchDelta \/ OnCleanupDelta
  BY <1>5 DEF LiveDelta, OnBatchDelta, OnCleanupDelta, Skip, SkipUnless
<1>6. CASE OnBatchDone \/ OnBatchError \/ OnCleanupDone \/ OnCleanupError
  BY <1>6
     DEF OnBatchDone, OnBatchError, OnCleanupDone, OnCleanupError, FailBatch, Reach, Skip,
         SkipUnless
<1> QED
  BY <1>1, <1>2, <1>3, <1>4, <1>5, <1>6 DEF Next, Idle, Finished

\* state.py: no handler ever asks for a transition the table refuses.
THEOREM TransitionsStayLegal == Spec => TransitionsAreAllowed
<1>1. [Next]_vars => [state' # state => state' \in Allowed[state]]_vars
  BY Moves DEF Allowed, Capture, Working, InFlight
<1> QED
  BY <1>1, PTL DEF Spec, TransitionsAreAllowed

\* session.py: what is still queued when a session ends is neither painted nor
\* delivered.
THEOREM TheEndIsFinal == Spec => NothingAfterTheEnd
<1>1. ASSUME [Next]_vars, state \in Terminal PROVE UNCHANGED <<view, sent>>
  <2>0. state \notin {"INITIALIZING", "WARMING", "RECORDING", "TRANSCRIBING", "CLEANING"}
    BY <1>1 DEF Terminal
  <2>1. CASE UNCHANGED vars
    BY <2>1 DEF vars
  <2>2. CASE Commands \/ Vanish
    BY <2>2 DEF Commands, Vanish, FailStartup, Start, Stop, Cancel, Close, Signal
  <2>3. CASE Threads
    BY <2>3
       DEF Threads, Boot, BootBegin, BootOpenMic, BootPublishMic, BootBuildClient,
           BootPublishClient, BootCheckPreview, BootPublishPreview, BootConnectPreview,
           BootFinish, BootFrame, Stopper, StopMic, AwaitBoot, StopPreview, StopFrame,
           Teardown, PreviewPosts, BatchDelta, BatchEnds, BatchCompletes, BatchFails,
           CleanupDelta, CleanupEnds, CleanupCompletes, CleanupFails, WorkerFrame
  <2>4. CASE WarmingEnds \/ EnterWarming \/ AudioError \/ WsError \/ BeginTranscribing
             \/ StartBatch \/ SetLiveLen \/ BeginCleanup
    BY <2>0, <2>4
       DEF WarmingEnds, EnterWarming, AudioError, WsError, BeginTranscribing, StartBatch,
           SetLiveLen, BeginCleanup, Skip, SkipUnless, Stays
  <2>5. CASE LiveDelta \/ OnBatchDelta \/ OnCleanupDelta
    BY <2>0, <2>5 DEF LiveDelta, OnBatchDelta, OnCleanupDelta, Skip, SkipUnless
  <2>6. CASE OnBatchDone \/ OnBatchError \/ OnCleanupDone \/ OnCleanupError
    BY <2>0, <2>6
       DEF OnBatchDone, OnBatchError, OnCleanupDone, OnCleanupError, Skip, SkipUnless
  <2> QED
    BY <1>1, <2>1, <2>2, <2>3, <2>4, <2>5, <2>6 DEF Next, Idle, Finished
<1>2. [Next]_vars => [(state \in Terminal) => UNCHANGED <<view, sent>>]_vars
  BY <1>1
<1> QED
  BY <1>2, PTL DEF Spec, NothingAfterTheEnd

=============================================================================
