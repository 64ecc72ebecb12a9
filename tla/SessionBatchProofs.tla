-------------------------- MODULE SessionBatchProofs --------------------------
(***************************************************************************)
(* The batch worker reads a finished recording, and a running mic always   *)
(* has somebody to stop it: for every number of posts and every choice of  *)
(* failures, as long as stopping the sound stream does not itself fail.    *)
(* Nobody works for a session that has ended, even if it does.             *)
(***************************************************************************)
EXTENDS SessionProofs

\* Stopping the sound stream does not raise.
StopWorks == "stop" \notin Faults

PastOpening == boot \notin EarlyBoot \cup {"opened"}
Recording == state \in {"INITIALIZING"} \cup Capture

\* begin_transcribing waits at most once.
WaitsOnce ==
  \A i, j \in 1..Len(loop) :
    loop[i] = "begin_transcribing" /\ loop[j] = "begin_transcribing" => i = j

\* ... and runs at most once, when the mic is the session's to hand over.
BeginsOnce ==
  /\ WaitsOnce
  /\ Recording => ~Waits("begin_transcribing")
  /\ Running /\ state = "TRANSCRIBING" /\ Waits("begin_transcribing")
       => own["mic"] = "session"
  /\ stopper # "off" => /\ ~Waits("begin_transcribing")
                        /\ ~Recording
                        /\ PastOpening

\* What the stop thread has done, and what it has not.
StopperOwns ==
  /\ stopper = "stop_mic" <=> own["mic"] = "stopper"
  /\ StopWorks /\ stopper \in {"await_boot", "stop_ws", "done"}
       => wav = "final" /\ live["mic"] = "ended"
  /\ batch # "none" \/ Waits("start_batch") => stopper \in {"stop_ws", "done"}

MicIsKept == StopWorks => MicIsNeverOrphaned

BatchInv == OwnInv /\ BeginsOnce /\ StopperOwns /\ MicIsKept

-----------------------------------------------------------------------------
(* The queue                                                               *)

\* No news for the two tasks the invariant counts on.
NoNews == /\ WaitsOnce'
          /\ \A u \in {"begin_transcribing", "start_batch"} : Waits(u)' => Waits(u)

\* Taking the oldest task leaves the others in order.
LEMMA TailOnce ==
  ASSUME loop \in Seq(Tasks), loop # <<>>, WaitsOnce, NEW q, q = Tail(loop)
  PROVE  /\ q \in Seq(Tasks)
         /\ \A i, j \in 1..Len(q) :
              q[i] = "begin_transcribing" /\ q[j] = "begin_transcribing" => i = j
         /\ \A u : (\E i \in 1..Len(q) : q[i] = u) => Waits(u)
<1>1. q \in Seq(Tasks) /\ Len(q) = Len(loop) - 1 /\ Len(loop) \in Nat
  OBVIOUS
<1>2. \A i \in 1..Len(q) : i + 1 \in 1..Len(loop) /\ q[i] = loop[i + 1]
  BY <1>1
<1>3. ASSUME NEW i \in 1..Len(q), NEW j \in 1..Len(q),
             q[i] = "begin_transcribing", q[j] = "begin_transcribing"
      PROVE  i = j
  <2>1. i + 1 = j + 1
    BY <1>2, <1>3 DEF WaitsOnce
  <2> QED
    BY <1>1, <2>1
<1> QED
  BY <1>1, <1>2, <1>3 DEF Waits

\* Posting anything else leaves the two tasks alone.
LEMMA OtherTasks ==
  ASSUME loop \in Seq(Tasks), WaitsOnce, NEW q,
         q = loop \/ (loop # <<>> /\ q = Tail(loop)),
         \/ loop' = q
         \/ \E t \in Tasks \ {"begin_transcribing", "start_batch"} : loop' = Append(q, t)
  PROVE  NoNews
<1>1. /\ q \in Seq(Tasks)
      /\ \A i, j \in 1..Len(q) :
           q[i] = "begin_transcribing" /\ q[j] = "begin_transcribing" => i = j
      /\ \A u : (\E i \in 1..Len(q) : q[i] = u) => Waits(u)
  <2>1. CASE q = loop
    BY <2>1 DEF WaitsOnce, Waits
  <2>2. CASE loop # <<>> /\ q = Tail(loop)
    BY <2>2, TailOnce
  <2> QED
    BY <2>1, <2>2
<1>2. CASE loop' = q
  BY <1>1, <1>2 DEF NoNews, WaitsOnce, Waits
<1>3. ASSUME NEW t \in Tasks \ {"begin_transcribing", "start_batch"}, loop' = Append(q, t)
      PROVE  NoNews
  <2>1. /\ Len(loop') = Len(q) + 1 /\ loop'[Len(q) + 1] = t /\ Len(q) \in Nat
        /\ \A i \in 1..Len(q) : loop'[i] = q[i]
    BY <1>1, <1>3
  <2>2. \A i \in 1..Len(loop') :
          loop'[i] \in {"begin_transcribing", "start_batch"}
            => i \in 1..Len(q) /\ loop'[i] = q[i]
    BY <1>3, <2>1
  <2>3. WaitsOnce'
    BY <1>1, <2>2 DEF WaitsOnce
  <2>4. \A u \in {"begin_transcribing", "start_batch"} : Waits(u)' => Waits(u)
    BY <1>1, <2>2 DEF Waits
  <2> QED
    BY <2>3, <2>4 DEF NoNews
<1> QED
  BY <1>2, <1>3

-----------------------------------------------------------------------------
(* Steps that only give up what the session has                            *)

\* The mic moves on only from the session, which is then past recording, or
\* from a teardown thread; whoever lets go of it has stopped it.
GivesUp ==
  /\ own'["mic"] # own["mic"] =>
       /\ own'["mic"] \in {"teardown", "none"}
       /\ own["mic"] = "teardown" \/ (own["mic"] = "session" /\ state' # "TRANSCRIBING")
  /\ StopWorks /\ own'["mic"] = "none" => own["mic"] = "none" \/ live'["mic"] # "live"
  /\ live'["mic"] \in {live["mic"], "ended"}
  /\ wav' \in {wav, "final"}

\* What such a step leaves alone.
Calm ==
  /\ GivesUp /\ NoNews
  /\ UNCHANGED stopper
  /\ batch' # "none" => batch # "none"
  /\ PastOpening => PastOpening'
  /\ Running' => Running
  /\ Recording' => Recording
  /\ state' = "TRANSCRIBING" => state = "TRANSCRIBING" \/ Recording

LEMMA CalmKeeps ==
  ASSUME BatchInv, Calm
  PROVE  BeginsOnce' /\ StopperOwns' /\ MicIsKept'
<1>1. BeginsOnce'
  BY DEF BatchInv, BeginsOnce, Calm, GivesUp, NoNews
<1>2. StopperOwns'
  BY DEF BatchInv, StopperOwns, Calm, GivesUp, NoNews
<1>3. MicIsKept'
  BY DEF BatchInv, MicIsKept, MicIsNeverOrphaned, Calm, GivesUp
<1> QED
  BY <1>1, <1>2, <1>3

\* Giving up, with the mic stopped at once or left to a teardown thread.
LEMMA AbandonGivesUp ==
  ASSUME TypeOK, NEW syncMic \in BOOLEAN, NEW ok \in BOOLEAN, StopWorks => ok,
         Abandon(syncMic, ok), state' # "TRANSCRIBING"
  PROVE  GivesUp
<1>1. "mic" \in Resources
  BY DEF Resources
<1>2. /\ own \in [Resources -> {"none", "boot", "session", "stopper", "teardown"}]
      /\ live \in [Resources -> {"absent", "new", "live", "ended"}]
  BY DEF TypeOK
<1>3. CASE syncMic /\ own["mic"] = "session"
  BY <1>1, <1>2, <1>3 DEF Abandon, GivesUp
<1>4. CASE ~syncMic /\ own["mic"] = "session"
  BY <1>1, <1>2, <1>4 DEF Abandon, HandOver, GivesUp
<1>5. CASE own["mic"] # "session"
  BY <1>1, <1>2, <1>5 DEF Abandon, HandOver, GivesUp
<1> QED
  BY <1>3, <1>4, <1>5

\* A transition gives up what it may, unless it hands the mic to the stop thread.
LEMMA ReachGivesUp ==
  ASSUME BatchInv, NEW new \in States \ {"TRANSCRIBING"},
         NEW q, q = loop \/ (loop # <<>> /\ q = Tail(loop)), Reach(new, q)
  PROVE  GivesUp /\ NoNews /\ (batch' # "none" => batch # "none") /\ state' = new
<1>1. TypeOK /\ WaitsOnce /\ state' = new /\ loop \in Seq(Tasks)
  BY DEF BatchInv, OwnInv, BeginsOnce, Reach, TypeOK
<1>2. NoNews
  <2>1. loop' = q \/ loop' = Append(q, "begin_cleanup")
    BY DEF Reach
  <2>2. "begin_cleanup" \in Tasks \ {"begin_transcribing", "start_batch"}
    BY DEF Tasks
  <2> QED
    BY <1>1, <2>1, <2>2, OtherTasks
<1>3. CASE new = "CANCELLED"
  <2>1. PICK ok \in BOOLEAN : (StopWorks => ok) /\ Abandon(TRUE, ok)
    BY <1>3 DEF Reach, MicStops, StopWorks
  <2>2. batch' = CancelWorker(batch)
    BY <1>3 DEF Reach
  <2> QED
    BY <1>1, <1>2, <2>1, <2>2, AbandonGivesUp DEF CancelWorker
<1>4. CASE new = "ERROR"
  <2>1. Abandon(FALSE, TRUE) /\ batch' = batch
    BY <1>4 DEF Reach
  <2> QED
    BY <1>1, <1>2, <2>1, AbandonGivesUp
<1>5. CASE new \notin {"CANCELLED", "ERROR"}
  BY <1>1, <1>2, <1>5 DEF Reach, KeepEverything, GivesUp
<1> QED
  BY <1>3, <1>4, <1>5

-----------------------------------------------------------------------------
(* One step at a time                                                      *)

Promises == BeginsOnce /\ StopperOwns /\ MicIsKept

\* Pressing stop queues the hand-over while the mic is the session's.
LEMMA BatchStop ==
  ASSUME BatchInv, Stop
  PROVE  Promises'
<1>1. /\ loop \in Seq(Tasks) /\ Running /\ state \in Capture /\ Recording
      /\ state' = "TRANSCRIBING" /\ loop' = Append(loop, "begin_transcribing")
      /\ UNCHANGED <<own, live, wav, batch, stopper, boot, phase>>
  BY DEF BatchInv, OwnInv, TypeOK, Stop, Reach, KeepEverything, procVars, bootVars, Recording
<1>2. stopper = "off" /\ ~Waits("begin_transcribing") /\ own["mic"] = "session"
  BY <1>1 DEF BatchInv, BeginsOnce, OwnInv, CaptureKeeps
<1>3. /\ Len(loop') = Len(loop) + 1 /\ Len(loop) \in Nat
      /\ \A i \in 1..Len(loop) : loop'[i] = loop[i] /\ loop[i] # "begin_transcribing"
  BY <1>1, <1>2 DEF Waits
<1>4. WaitsOnce'
  BY <1>3 DEF WaitsOnce
<1>5. Waits("start_batch")' => Waits("start_batch")
  BY <1>1, <1>3 DEF Waits
<1>6. BeginsOnce'
  BY <1>1, <1>2, <1>4 DEF BeginsOnce, Recording, Capture
<1> QED
  BY <1>1, <1>2, <1>5, <1>6 DEF Promises, BatchInv, StopperOwns, MicIsKept, MicIsNeverOrphaned

\* Every other command, a signal and the end of the process are calm.
LEMMA BatchCommands ==
  ASSUME BatchInv, Commands \/ Vanish
  PROVE  Promises'
<1>0. /\ loop \in Seq(Tasks) /\ WaitsOnce /\ "mic" \in Resources /\ TypeOK
      /\ own \in [Resources -> {"none", "boot", "session", "stopper", "teardown"}]
      /\ live \in [Resources -> {"absent", "new", "live", "ended"}]
  BY DEF BatchInv, OwnInv, BeginsOnce, TypeOK, Resources
<1>same. loop' = loop => NoNews
  BY <1>0, OtherTasks
<1>1. CASE FailStartup \/ Cancel
  <2>1. PICK new \in {"ERROR", "CANCELLED"} : Reach(new, loop)
    BY <1>1 DEF FailStartup, Cancel
  <2>2. UNCHANGED <<stopper, boot, phase>>
    BY <1>1 DEF FailStartup, Cancel, procVars, bootVars
  <2>3. Calm
    BY <2>1, <2>2, StateNames, ReachGivesUp
       DEF Calm, PastOpening, Recording, Capture, Running
  <2> QED
    BY <2>3, CalmKeeps DEF Promises
<1>2. CASE Start
  <2>1. UNCHANGED <<stopper, phase>> /\ Recording /\ state' # "TRANSCRIBING" /\ boot = "off"
    BY <1>2 DEF Start, Reach, Recording, BatchInv, OwnInv, BootOwns
  <2>2. GivesUp /\ NoNews /\ (batch' # "none" => batch # "none")
    <3>1. CASE Reach("ERROR", loop)
      BY <3>1, StateNames, ReachGivesUp
    <3>2. CASE ~Reach("ERROR", loop)
      BY <1>0, <1>2, <1>same, <3>2 DEF Start, GivesUp
    <3> QED
      BY <3>1, <3>2
  <2>3. Calm
    BY <2>1, <2>2 DEF Calm, PastOpening, EarlyBoot, Running
  <2> QED
    BY <2>3, CalmKeeps DEF Promises
<1>3. ASSUME NEW trashIfEmpty \in BOOLEAN, Close(trashIfEmpty) PROVE Promises'
  <2>1. UNCHANGED <<stopper, boot>> /\ phase' = "leaving"
    BY <1>3 DEF Close
  <2>2. /\ GivesUp /\ NoNews /\ (batch' # "none" => batch # "none")
        /\ state' = "CANCELLED" \/ state' = state
    <3>1. CASE Reach("CANCELLED", loop)
      BY <3>1, StateNames, ReachGivesUp
    <3>2. CASE ~Reach("CANCELLED", loop)
      <4>1. /\ Abandon(FALSE, TRUE) /\ batch' = CancelWorker(batch)
            /\ UNCHANGED <<state, loop>> /\ state \in Terminal
        BY <1>3, <3>2 DEF Close
      <4> QED
        BY <1>0, <1>same, <4>1, AbandonGivesUp DEF CancelWorker, Terminal
    <3> QED
      BY <3>1, <3>2
  <2>3. Calm
    BY <2>1, <2>2 DEF Calm, PastOpening, Recording, Capture, Running
  <2> QED
    BY <2>3, CalmKeeps DEF Promises
<1>4. CASE Signal
  <2>1. /\ UNCHANGED <<stopper, boot, loop, state, batch>> /\ phase' = "leaving"
        /\ own'["mic"] = own["mic"] /\ live'["mic"] = live["mic"] /\ wav' \in {wav, "final"}
    BY <1>0, <1>4 DEF Signal, bootVars
  <2>2. Calm
    BY <1>0, <1>same, <2>1 DEF Calm, GivesUp, PastOpening, Recording, Running
  <2> QED
    BY <2>2, CalmKeeps DEF Promises
<1>5. CASE Vanish
  <2>1. UNCHANGED <<stopper, boot, loop, state, batch, own, live, wav>> /\ phase' = "gone"
    BY <1>5 DEF Vanish, coreVars, bootVars
  <2>2. Calm
    BY <1>0, <1>same, <2>1 DEF Calm, GivesUp, PastOpening, Recording, Running
  <2> QED
    BY <2>2, CalmKeeps DEF Promises
<1> QED
  BY <1>1, <1>2, <1>3, <1>4, <1>5, BatchStop DEF Commands

\* The bootstrap opens the mic and hands it over before any stop thread exists.
LEMMA BatchBoot ==
  ASSUME BatchInv, Boot
  PROVE  Promises'
<1>0. /\ loop \in Seq(Tasks) /\ WaitsOnce /\ "mic" \in Resources
      /\ own \in [Resources -> {"none", "boot", "session", "stopper", "teardown"}]
      /\ live \in [Resources -> {"absent", "new", "live", "ended"}]
  BY DEF BatchInv, OwnInv, BeginsOnce, TypeOK, Resources
<1>1. UNCHANGED <<state, phase, stopper, batch>>
  BY DEF Boot, BootBegin, BootOpenMic, BootPublishMic, BootBuildClient, BootPublishClient,
         BootCheckPreview, BootPublishPreview, BootConnectPreview, BootFinish, BootFrame,
         procVars
<1>2. \A u \in {"audio_error", "enter_warming"} :
        u \in Tasks \ {"begin_transcribing", "start_batch"}
  BY DEF Tasks
<1>3. loop' = loop \/ Post("audio_error") \/ Post("enter_warming")
  BY DEF Boot, BootBegin, BootOpenMic, BootPublishMic, BootBuildClient, BootPublishClient,
         BootCheckPreview, BootPublishPreview, BootConnectPreview, BootFinish, resVars
<1>4. NoNews
  BY <1>0, <1>2, <1>3, OtherTasks DEF Post
<1>5. CASE BootOpenMic
  <2>1. own["mic"] = "none" /\ stopper = "off"
    BY <1>5 DEF BootOpenMic, BatchInv, OwnInv, BootOwns, BeginsOnce, PastOpening, EarlyBoot
  <2>2. own'["mic"] \in {"none", "boot"}
        /\ (own'["mic"] = "boot" \/ live'["mic"] = live["mic"])
    BY <1>0, <1>5, <2>1 DEF BootOpenMic
  <2>3. BeginsOnce'
    BY <1>1, <1>4, <2>1 DEF BatchInv, BeginsOnce, NoNews, Recording, Running
  <2>4. StopperOwns' /\ MicIsKept'
    BY <1>1, <1>4, <2>1, <2>2 DEF BatchInv, StopperOwns, MicIsKept, MicIsNeverOrphaned, NoNews
  <2> QED
    BY <2>3, <2>4 DEF Promises
<1>6. CASE BootPublishMic
  <2>1. /\ own["mic"] = "boot" /\ stopper = "off"
        /\ own'["mic"] = "session" /\ UNCHANGED live
    BY <1>0, <1>6
       DEF BootPublishMic, BatchInv, OwnInv, BootOwns, BeginsOnce, PastOpening
  <2>2. BeginsOnce'
    BY <1>1, <1>4, <2>1 DEF BatchInv, BeginsOnce, NoNews, Recording, Running
  <2>3. StopperOwns' /\ MicIsKept'
    BY <1>1, <1>4, <2>1 DEF BatchInv, StopperOwns, MicIsKept, MicIsNeverOrphaned, NoNews
  <2> QED
    BY <2>2, <2>3 DEF Promises
<1>7. CASE BootBegin \/ BootBuildClient \/ BootPublishClient \/ BootCheckPreview
           \/ BootPublishPreview \/ BootConnectPreview \/ BootFinish
  <2>1. own'["mic"] = own["mic"] /\ live'["mic"] = live["mic"] /\ wav' = wav
    BY <1>0, <1>7
       DEF BootBegin, BootBuildClient, BootPublishClient, BootCheckPreview,
           BootPublishPreview, BootConnectPreview, BootFinish, resVars
  <2>2. PastOpening => PastOpening'
    BY <1>7
       DEF BootBegin, BootBuildClient, BootPublishClient, BootCheckPreview,
           BootPublishPreview, BootConnectPreview, BootFinish, PastOpening, EarlyBoot
  <2>3. Calm
    BY <1>1, <1>4, <2>1, <2>2 DEF Calm, GivesUp, Recording, Running
  <2> QED
    BY <2>3, CalmKeeps DEF Promises
<1> QED
  BY <1>5, <1>6, <1>7 DEF Boot

\* The stop thread finishes the recording before it asks for the upload.
LEMMA BatchStopper ==
  ASSUME BatchInv, Stopper
  PROVE  Promises'
<1>0. /\ loop \in Seq(Tasks) /\ WaitsOnce /\ "mic" \in Resources
      /\ own \in [Resources -> {"none", "boot", "session", "stopper", "teardown"}]
      /\ live \in [Resources -> {"absent", "new", "live", "ended"}]
  BY DEF BatchInv, OwnInv, BeginsOnce, TypeOK, Resources
<1>1. UNCHANGED <<state, phase, batch, boot>> /\ stopper # "off" /\ stopper' # "off"
  BY DEF Stopper, StopMic, AwaitBoot, StopPreview, StopFrame, procVars, bootVars
<1>2. /\ ~Waits("begin_transcribing") /\ ~Recording /\ PastOpening
  BY <1>1 DEF BatchInv, BeginsOnce
<1>calm. NoNews => BeginsOnce'
  BY <1>1, <1>2 DEF BeginsOnce, NoNews, Recording, PastOpening, EarlyBoot
<1>3. CASE StopMic
  <2>1. NoNews
    BY <1>0, <1>3, OtherTasks DEF StopMic
  <2>2. own["mic"] = "stopper"
    BY <1>3 DEF StopMic, BatchInv, StopperOwns
  <2>3. /\ stopper = "stop_mic" /\ stopper' = "await_boot" /\ own'["mic"] = "none"
        /\ StopWorks => live'["mic"] = "ended" /\ wav' = "final"
    BY <1>0, <1>3, <2>2 DEF StopMic, MicStops, StopWorks
  <2>4. StopperOwns' /\ MicIsKept'
    BY <1>1, <2>1, <2>3 DEF BatchInv, StopperOwns, MicIsKept, MicIsNeverOrphaned, NoNews
  <2> QED
    BY <1>calm, <2>1, <2>4 DEF Promises
<1>4. CASE AwaitBoot
  <2>1. /\ stopper = "await_boot" /\ stopper' = "stop_ws" /\ UNCHANGED <<own, live, wav>>
        /\ loop' = Append(loop, "start_batch")
    BY <1>4 DEF AwaitBoot, Post, resVars
  <2>2. /\ Len(loop') = Len(loop) + 1 /\ loop'[Len(loop) + 1] = "start_batch"
        /\ \A i \in 1..Len(loop) : loop'[i] = loop[i]
        /\ Len(loop) \in Nat
    BY <1>0, <2>1
  <2>3. \A i \in 1..Len(loop') : loop'[i] # "begin_transcribing"
    BY <1>2, <2>2 DEF Waits
  <2>4. BeginsOnce'
    BY <1>1, <1>2, <2>3
       DEF BeginsOnce, WaitsOnce, Waits, Recording, PastOpening, EarlyBoot
  <2>5. StopperOwns' /\ MicIsKept'
    BY <2>1 DEF BatchInv, StopperOwns, MicIsKept, MicIsNeverOrphaned
  <2> QED
    BY <2>4, <2>5 DEF Promises
<1>5. CASE StopPreview
  <2>1. /\ stopper = "stop_ws" /\ stopper' = "done" /\ UNCHANGED wav
        /\ own'["mic"] = own["mic"] /\ live'["mic"] = live["mic"]
    BY <1>0, <1>5 DEF StopPreview
  <2>2. NoNews
    <3>1. "set_live_len" \in Tasks \ {"begin_transcribing", "start_batch"}
      BY DEF Tasks
    <3> QED
      BY <1>0, <1>5, <3>1, OtherTasks DEF StopPreview, Post
  <2>3. StopperOwns' /\ MicIsKept'
    BY <1>1, <2>1, <2>2 DEF BatchInv, StopperOwns, MicIsKept, MicIsNeverOrphaned, NoNews
  <2> QED
    BY <1>calm, <2>2, <2>3 DEF Promises
<1> QED
  BY <1>3, <1>4, <1>5 DEF Stopper

\* The teardown threads and the providers' threads are calm.
LEMMA BatchThreads ==
  ASSUME BatchInv, Threads
  PROVE  Promises'
<1>0. /\ loop \in Seq(Tasks) /\ WaitsOnce /\ "mic" \in Resources
      /\ own \in [Resources -> {"none", "boot", "session", "stopper", "teardown"}]
      /\ live \in [Resources -> {"absent", "new", "live", "ended"}]
      /\ jobs \subseteq SUBSET Resources
  BY DEF BatchInv, OwnInv, BeginsOnce, TypeOK, Resources
<1>1. ASSUME NEW job \in jobs, Teardown(job) PROVE Promises'
  <2> DEFINE r == NextToStop(job)
  <2>1. UNCHANGED <<state, phase, stopper, boot, batch, loop>>
    BY <1>1 DEF Teardown, procVars, bootVars
  <2>2. r \in job /\ own[r] = "teardown"
    <3>1. job # {} /\ job \subseteq {"mic", "ws", "lock"}
      BY <1>0 DEF Resources, BatchInv, OwnInv, JobsOwn
    <3>2. r \in job
      BY <3>1 DEF NextToStop
    <3> QED
      BY <3>2 DEF BatchInv, OwnInv, JobsOwn
  <2>3. PICK ok \in IF r = "mic" THEN MicStops ELSE {TRUE} :
          /\ own' = [own EXCEPT ![r] = "none"]
          /\ live' = [live EXCEPT ![r] = IF ok THEN Stopped(r) ELSE @]
          /\ wav' = IF r = "mic" /\ ok THEN "final" ELSE wav
    BY <1>1 DEF Teardown
  <2>4. StopWorks => ok
    BY <2>3 DEF MicStops, StopWorks
  <2>5. GivesUp
    BY <1>0, <2>2, <2>3, <2>4 DEF GivesUp, Stopped
  <2>6. NoNews
    BY <1>0, <2>1, OtherTasks
  <2>7. Calm
    BY <2>1, <2>5, <2>6 DEF Calm, PastOpening, Recording, Running
  <2> QED
    BY <2>7, CalmKeeps DEF Promises
<1>2. CASE PreviewPosts \/ BatchDelta \/ BatchEnds \/ CleanupDelta \/ CleanupEnds
  <2>1. \E t \in {"live_words", "live_blank", "ws_error", "batch_delta", "batch_done",
                  "batch_error", "cleanup_delta", "cleanup_done", "cleanup_error"} : Post(t)
    BY <1>2 DEF PreviewPosts, BatchDelta, BatchEnds, BatchCompletes, BatchFails,
                CleanupDelta, CleanupEnds, CleanupCompletes, CleanupFails
  <2>2. NoNews
    BY <1>0, <2>1, OtherTasks DEF Post, Tasks
  <2>3. /\ UNCHANGED <<own, wav, boot, state, phase, stopper>> /\ live'["mic"] = live["mic"]
        /\ batch' # "none" => batch # "none"
    BY <1>0, <1>2
       DEF PreviewPosts, BatchDelta, BatchEnds, BatchCompletes, BatchFails, CleanupDelta,
           CleanupEnds, CleanupCompletes, CleanupFails, WorkerFrame, procVars, bootVars,
           resVars
  <2>4. Calm
    BY <2>2, <2>3 DEF Calm, GivesUp, PastOpening, Recording, Running
  <2> QED
    BY <2>4, CalmKeeps DEF Promises
<1> QED
  BY <1>1, <1>2, BatchBoot, BatchStopper DEF Threads

\* begin_transcribing hands the stop thread a mic that is the session's.
LEMMA BatchBegins ==
  ASSUME BatchInv, BeginTranscribing
  PROVE  Promises'
<1>0. /\ loop \in Seq(Tasks) /\ WaitsOnce /\ "mic" \in Resources /\ loop # <<>>
      /\ own \in [Resources -> {"none", "boot", "session", "stopper", "teardown"}]
      /\ live \in [Resources -> {"absent", "new", "live", "ended"}]
  BY DEF BatchInv, OwnInv, BeginsOnce, TypeOK, Resources, BeginTranscribing, Take
<1>1. /\ UNCHANGED <<state, phase, boot, batch, wav>> /\ loop' = Tail(loop) /\ Running
      /\ Head(loop) = "begin_transcribing"
  BY DEF BeginTranscribing, SkipUnless, Skip, KeepEverything, IdleFrame, procVars, bootVars,
         Take
<1>2. NoNews
  BY <1>0, <1>1, OtherTasks
<1>3. CASE Skip
  <2>1. Calm
    BY <1>1, <1>2, <1>3 DEF Skip, KeepEverything, Calm, GivesUp, PastOpening, Recording, Running
  <2> QED
    BY <2>1, CalmKeeps DEF Promises
<1>4. CASE ~Skip
  <2>1. /\ state = "TRANSCRIBING" /\ stopper' = "stop_mic" /\ live' = ReleasedLive
        /\ own' = [r \in Resources |-> IF own[r] # "session" THEN own[r]
                                       ELSE IF r = "lock" THEN "none" ELSE "stopper"]
    BY <1>4 DEF BeginTranscribing, SkipUnless
  <2>2. Waits("begin_transcribing")
    BY <1>0, TakenWaited DEF BeginTranscribing
  <2>3. own["mic"] = "session" /\ stopper = "off"
    BY <1>1, <2>1, <2>2 DEF BatchInv, BeginsOnce
  <2>4. PastOpening
    BY <2>3 DEF PastOpening, BatchInv, OwnInv, BootOwns
  <2>5. own'["mic"] = "stopper"
    BY <1>0, <2>1, <2>3
  <2>6. \A i \in 1..Len(loop') : loop'[i] # "begin_transcribing"
    <3>1. /\ Len(loop') = Len(loop) - 1 /\ Len(loop) \in Nat
          /\ 1 \in 1..Len(loop) /\ loop[1] = "begin_transcribing"
          /\ \A i \in 1..Len(loop') : i + 1 \in 1..Len(loop) /\ loop'[i] = loop[i + 1]
                                      /\ i + 1 # 1
      BY <1>0, <1>1
    <3> QED
      BY <1>0, <3>1 DEF WaitsOnce
  <2>7. BeginsOnce'
    BY <1>1, <1>2, <2>1, <2>4, <2>6
       DEF BeginsOnce, NoNews, Waits, Recording, Capture, PastOpening, EarlyBoot
  <2>8. StopperOwns' /\ MicIsKept'
    BY <1>1, <1>2, <2>1, <2>3, <2>5 DEF BatchInv, StopperOwns, MicIsKept, MicIsNeverOrphaned, NoNews
  <2> QED
    BY <2>7, <2>8 DEF Promises
<1> QED
  BY <1>3, <1>4

\* The other callbacks of the main loop leave the mic and the stop thread alone.
LEMMA BatchIdle ==
  ASSUME BatchInv, Idle \/ WarmingEnds
  PROVE  Promises'
<1>0. /\ loop \in Seq(Tasks) /\ WaitsOnce /\ "mic" \in Resources
      /\ own \in [Resources -> {"none", "boot", "session", "stopper", "teardown"}]
      /\ live \in [Resources -> {"absent", "new", "live", "ended"}]
  BY DEF BatchInv, OwnInv, BeginsOnce, TypeOK, Resources
<1>idle. IdleFrame => UNCHANGED <<phase, boot>>
  BY DEF IdleFrame, procVars, bootVars
<1>tail. ASSUME IdleFrame, loop # <<>>, loop' = Tail(loop), UNCHANGED stopper,
                state' = state \/ state' \notin {"TRANSCRIBING"} \cup {"INITIALIZING"} \cup Capture,
                own'["mic"] = own["mic"], live'["mic"] = live["mic"], wav' = wav,
                batch' # "none" => batch # "none"
         PROVE  Promises'
  <2>1. NoNews
    BY <1>0, <1>tail, OtherTasks
  <2>2. Calm
    BY <1>tail, <1>idle, <2>1 DEF Calm, GivesUp, PastOpening, Recording, Running
  <2> QED
    BY <2>2, CalmKeeps DEF Promises
<1>reach. ASSUME NEW new \in States \ {"TRANSCRIBING", "INITIALIZING"},
                 new \in Capture => Recording,
                 NEW q, q = loop \/ (loop # <<>> /\ q = Tail(loop)), Reach(new, q),
                 UNCHANGED <<stopper, phase, boot>>
          PROVE  Promises'
  <2>1. Calm
    BY <1>reach, ReachGivesUp DEF Calm, PastOpening, Recording, Running
  <2> QED
    BY <2>1, CalmKeeps DEF Promises
<1>1. CASE WarmingEnds
  BY <1>1, <1>reach, StateNames
     DEF WarmingEnds, Recording, Capture, procVars, bootVars
<1>2. CASE EnterWarming
  <2>1. CASE Skip
    BY <1>2, <1>tail, <2>1 DEF EnterWarming, Take, Skip, KeepEverything
  <2>2. CASE ~Skip
    BY <1>2, <1>reach, <1>idle, <2>2, StateNames
       DEF EnterWarming, Take, Stays, Recording
  <2> QED
    BY <2>1, <2>2
<1>3. CASE AudioError
  <2>1. own'["mic"] = own["mic"] /\ live'["mic"] = live["mic"]
    BY <1>0, <1>3 DEF AudioError, ReleasedOwn, ReleasedLive
  <2> QED
    BY <1>3, <1>tail, <2>1 DEF AudioError, Take, Stays, Capture
<1>4. CASE WsError
  <2>1. own'["mic"] = own["mic"] /\ live'["mic"] = live["mic"]
    BY <1>0, <1>4 DEF WsError, SkipUnless, Skip, KeepEverything
  <2> QED
    BY <1>4, <1>tail, <2>1 DEF WsError, SkipUnless, Skip, KeepEverything, Take, Stays
<1>5. CASE LiveDelta \/ SetLiveLen \/ OnBatchDelta \/ BeginCleanup \/ OnCleanupDelta
  BY <1>5, <1>tail
     DEF LiveDelta, SetLiveLen, OnBatchDelta, BeginCleanup, OnCleanupDelta, SkipUnless,
         Skip, KeepEverything, Take, Stays, resVars
<1>6. CASE StartBatch
  <2>1. /\ IdleFrame /\ loop # <<>> /\ loop' = Tail(loop)
        /\ UNCHANGED <<state, own, live, wav, stopper>>
    BY <1>6 DEF StartBatch, SkipUnless, Skip, KeepEverything, Take, Stays, resVars
  <2>2. stopper \in {"stop_ws", "done"}
    BY <1>0, <1>6, TakenWaited DEF StartBatch, BatchInv, StopperOwns
  <2>3. NoNews
    BY <1>0, <2>1, OtherTasks
  <2>4. BeginsOnce'
    BY <1>idle, <2>1, <2>3
       DEF BatchInv, BeginsOnce, NoNews, Recording, PastOpening, EarlyBoot, Running
  <2>5. StopperOwns' /\ MicIsKept'
    BY <2>1, <2>2 DEF BatchInv, StopperOwns, MicIsKept, MicIsNeverOrphaned
  <2> QED
    BY <2>4, <2>5 DEF Promises
<1>7. CASE OnBatchDone \/ OnBatchError \/ OnCleanupDone \/ OnCleanupError
  <2>1. IdleFrame /\ loop # <<>> /\ UNCHANGED stopper
    BY <1>7
       DEF OnBatchDone, OnBatchError, OnCleanupDone, OnCleanupError, Take, SkipUnless, Skip
  <2>2. CASE Skip
    BY <1>tail, <2>1, <2>2 DEF Skip, KeepEverything
  <2>3. CASE ~Skip
    <3>1. PICK new \in {"READY", "CLEANING"} : Reach(new, Tail(loop))
      BY <1>7, <2>3 DEF OnBatchDone, OnBatchError, OnCleanupDone, OnCleanupError,
                        FailBatch, SkipUnless
    <3>2. new \in States \ {"TRANSCRIBING", "INITIALIZING"} /\ new \notin Capture
      BY StateNames DEF Capture
    <3> QED
      BY <1>reach, <1>idle, <2>1, <3>1, <3>2
  <2> QED
    BY <2>2, <2>3
<1> QED
  BY <1>1, <1>2, <1>3, <1>4, <1>5, <1>6, <1>7, BatchBegins DEF Idle

-----------------------------------------------------------------------------

\* The stop thread, the queue and the mic stay in order for ever.
LEMMA BatchInvariant == Spec => []BatchInv
<1>1. Init /\ OwnInv => BatchInv
  <2> SUFFICES ASSUME Init, OwnInv PROVE BatchInv
    OBVIOUS
  <2>1. loop = <<>> /\ \A t : ~Waits(t)
    BY DEF Init, Waits
  <2> QED
    BY <2>1
       DEF Init, BatchInv, BeginsOnce, WaitsOnce, StopperOwns, MicIsKept, MicIsNeverOrphaned, Resources
<1>2. OwnInv' /\ BatchInv /\ [Next]_vars => BatchInv'
  <2> SUFFICES ASSUME OwnInv', BatchInv, [Next]_vars PROVE Promises'
    BY DEF Promises, BatchInv
  <2>1. CASE UNCHANGED vars
    BY <2>1
       DEF vars, coreVars, procVars, bootVars, Promises, BatchInv, BeginsOnce, WaitsOnce,
           StopperOwns, MicIsKept, MicIsNeverOrphaned, Waits, Recording, PastOpening, Running
  <2> QED
    BY <2>1, BatchCommands, BatchThreads, BatchIdle DEF Next, Finished
<1>3. Spec => []OwnInv
  BY OwnInvariant
<1> QED
  BY <1>1, <1>2, <1>3, PTL DEF Spec

\* session.py, _stop_and_batch: the batch worker starts on a recording whose
\* sizes are written and whose mic has stopped, whatever a cancel, a close, a
\* failure or a late bootstrap did.  Needs a sound stream that can be stopped.
THEOREM BatchGetsTheRecording ==
  ASSUME "stop" \notin Faults PROVE Spec => []BatchReadsFinalWav
<1>1. BatchInv => BatchReadsFinalWav
  BY DEF BatchInv, StopperOwns, StopWorks, BatchReadsFinalWav
<1> QED
  BY BatchInvariant, <1>1, PTL

\* session.py's hand-overs between the bootstrap, the session, the stop thread
\* and the teardown threads: none of them drops a running mic.
THEOREM MicAlwaysHasAnOwner ==
  ASSUME "stop" \notin Faults PROVE Spec => []MicIsNeverOrphaned
<1>1. BatchInv => MicIsNeverOrphaned
  BY DEF BatchInv, MicIsKept, StopWorks
<1> QED
  BY BatchInvariant, <1>1, PTL

-----------------------------------------------------------------------------
(* Nobody works for a session that has ended                               *)

Once(task) == \A i, j \in 1..Len(loop) : loop[i] = task /\ loop[j] = task => i = j

\* The batch worker starts once, runs while the session transcribes, and has
\* ended by the time it is heard of.
BatchWorks ==
  /\ Once("start_batch")
  /\ batch # "none" => ~Waits("start_batch")
  /\ batch \in {"streaming", "clientless"} => state = "TRANSCRIBING"
  /\ Waits("batch_done") \/ Waits("batch_error") => batch = "ended"

\* The same of the cleanup worker.
CleanupWorks ==
  /\ Once("begin_cleanup")
  /\ Recording \/ state = "TRANSCRIBING" => cleanup = "none" /\ ~Waits("begin_cleanup")
  /\ cleanup # "none" => ~Waits("begin_cleanup")
  /\ cleanup = "streaming" => state = "CLEANING"
  /\ Waits("cleanup_done") \/ Waits("cleanup_error") => cleanup = "ended"

WorkInv == BatchInv /\ BatchWorks /\ CleanupWorks

\* The tasks the invariant counts on.
Counted == {"start_batch", "batch_done", "batch_error", "begin_cleanup", "cleanup_done",
            "cleanup_error"}

\* What one step does to the queue: q is what it found, less the task it took.
LEMMA QueueStep ==
  ASSUME loop \in Seq(Tasks), NEW t \in Tasks, NEW q,
         q = loop \/ (loop # <<>> /\ q = Tail(loop)), loop' = q \/ loop' = Append(q, t)
  PROVE  /\ \A u : u # t \/ loop' = q => /\ Waits(u)' => Waits(u)
                                         /\ Once(u) => Once(u)'
         /\ ~Waits(t) => Once(t)'
<1>0. q \in Seq(Tasks)
  OBVIOUS
<1>1. \E d \in {0, 1} : \A i \in 1..Len(q) : i + d \in 1..Len(loop) /\ q[i] = loop[i + d]
  <2>1. CASE q = loop
    <3>1. \A i \in 1..Len(q) : i + 0 \in 1..Len(loop) /\ q[i] = loop[i + 0]
      BY <2>1
    <3> QED
      BY <3>1
  <2>2. CASE loop # <<>> /\ q = Tail(loop)
    <3>1. \A i \in 1..Len(q) : i + 1 \in 1..Len(loop) /\ q[i] = loop[i + 1]
      BY <2>2
    <3> QED
      BY <3>1
  <2> QED
    BY <2>1, <2>2
<1>2. PICK d \in {0, 1} : \A i \in 1..Len(q) : i + d \in 1..Len(loop) /\ q[i] = loop[i + d]
  BY <1>1
<1>3. CASE loop' = q
  <2>1. \A u : Waits(u)' => Waits(u)
    BY <1>2, <1>3 DEF Waits
  <2>2. ASSUME NEW u, Once(u) PROVE Once(u)'
    <3>1. ASSUME NEW i \in 1..Len(loop'), NEW j \in 1..Len(loop'), loop'[i] = u, loop'[j] = u
          PROVE  i = j
      <4>1. i + d = j + d
        BY <1>2, <1>3, <2>2, <3>1 DEF Once
      <4> QED
        BY <4>1
    <3> QED
      BY <3>1 DEF Once
  <2>3. \A u : Once(u) => Once(u)'
    BY <2>2
  <2>4. ~Waits(t) => Once(t)'
    BY <2>1 DEF Waits, Once
  <2> QED
    BY <2>1, <2>3, <2>4
<1>4. CASE loop' # q
  <2>1. /\ loop' = Append(q, t) /\ Len(loop') = Len(q) + 1 /\ loop'[Len(q) + 1] = t
        /\ Len(q) \in Nat /\ \A i \in 1..Len(q) : loop'[i] = q[i]
    <3>1. loop' = Append(q, t)
      BY <1>4
    <3> QED
      BY <1>0, <3>1
  <2>2. \A i \in 1..Len(loop') : i = Len(q) + 1 \/ (i \in 1..Len(q) /\ loop'[i] = q[i])
    BY <2>1
  <2>3. \A u : u # t => (Waits(u)' => Waits(u))
    BY <1>2, <2>1, <2>2 DEF Waits
  <2>4. ASSUME NEW u, u # t, Once(u) PROVE Once(u)'
    <3>1. ASSUME NEW i \in 1..Len(loop'), NEW j \in 1..Len(loop'), loop'[i] = u, loop'[j] = u
          PROVE  i = j
      <4>1. /\ i \in 1..Len(q) /\ j \in 1..Len(q)
            /\ loop[i + d] = u /\ loop[j + d] = u
        BY <1>2, <2>1, <2>2, <2>4, <3>1
      <4>2. i + d = j + d
        BY <1>2, <2>4, <4>1 DEF Once
      <4> QED
        BY <4>1, <4>2
    <3> QED
      BY <3>1 DEF Once
  <2>5. ASSUME ~Waits(t) PROVE Once(t)'
    <3>1. ASSUME NEW i \in 1..Len(loop'), loop'[i] = t PROVE i = Len(q) + 1
      <4>1. ASSUME i \in 1..Len(q), loop'[i] = q[i] PROVE FALSE
        BY <1>2, <2>5, <3>1, <4>1 DEF Waits
      <4> QED
        BY <2>2, <4>1
    <3> QED
      BY <3>1 DEF Once
  <2> QED
    BY <1>4, <2>3, <2>4, <2>5
<1> QED
  BY <1>3, <1>4

\* A task that waited once does not wait when it has been taken.
LEMMA TakenIsGone ==
  ASSUME loop \in Seq(Tasks), loop' = Tail(loop), NEW t, Take(t), Once(t)
  PROVE  ~Waits(t)'
<1>1. /\ Len(loop') = Len(loop) - 1 /\ Len(loop) \in Nat
      /\ 1 \in 1..Len(loop) /\ loop[1] = t
      /\ \A i \in 1..Len(loop') : i + 1 \in 1..Len(loop) /\ loop'[i] = loop[i + 1] /\ i + 1 # 1
  BY DEF Take
<1>2. \A i \in 1..Len(loop') : loop'[i] # t
  BY <1>1 DEF Once
<1> QED
  BY <1>2 DEF Waits

\* Steps that post none of the tasks the invariant counts on, start no worker
\* and stop one that is at work before they leave its state.
Steady ==
  /\ \A u \in Counted : (Waits(u)' => Waits(u)) /\ (Once(u) => Once(u)')
  /\ batch' = batch \/ (batch \in {"streaming", "clientless"} /\ batch' = "cancelled")
  /\ cleanup' = cleanup \/ (cleanup \in {"streaming", "clientless"} /\ cleanup' = "cancelled")
  /\ state = "TRANSCRIBING" /\ batch' \in {"streaming", "clientless"} => state' = state
  /\ state = "CLEANING" /\ cleanup' = "streaming" => state' = state
  /\ (Recording \/ state = "TRANSCRIBING")' => Recording \/ state = "TRANSCRIBING"

Works == BatchWorks /\ CleanupWorks

LEMMA SteadyKeeps ==
  ASSUME WorkInv, Steady
  PROVE  Works'
<1>1. BatchWorks'
  BY DEF WorkInv, BatchWorks, Steady, Counted
<1>2. CleanupWorks'
  BY DEF WorkInv, CleanupWorks, Steady, Counted
<1> QED
  BY <1>1, <1>2 DEF Works

\* Posting another task, or only taking one, is no news of those counted on.
LEMMA QuietQueue ==
  ASSUME loop \in Seq(Tasks), NEW q, q = loop \/ (loop # <<>> /\ q = Tail(loop)),
         loop' = q \/ \E t \in Tasks \ Counted : loop' = Append(q, t)
  PROVE  \A u \in Counted : (Waits(u)' => Waits(u)) /\ (Once(u) => Once(u)')
<1>1. CASE loop' = q
  <2>1. "ws_error" \in Tasks
    BY DEF Tasks
  <2>2. \A u : u # "ws_error" \/ loop' = q => /\ Waits(u)' => Waits(u)
                                              /\ Once(u) => Once(u)'
    BY <1>1, <2>1, QueueStep
  <2> QED
    BY <1>1, <2>2
<1>2. ASSUME NEW t \in Tasks \ Counted, loop' = Append(q, t)
      PROVE  \A u \in Counted : (Waits(u)' => Waits(u)) /\ (Once(u) => Once(u)')
  <2>1. t \in Tasks /\ \A u \in Counted : u # t
    BY <1>2
  <2>2. \A u : u # t \/ loop' = q => /\ Waits(u)' => Waits(u)
                                     /\ Once(u) => Once(u)'
    BY <1>2, <2>1, QueueStep
  <2> QED
    BY <2>1, <2>2
<1> QED
  BY <1>1, <1>2

\* A transition stops the workers it leaves behind, if they are not done.
LEMMA WorkReach ==
  ASSUME WorkInv, NEW new \in States \ {"INITIALIZING", "CLEANING"}, NEW q,
         q = loop \/ (loop # <<>> /\ q = Tail(loop)), Reach(new, q),
         state = "TRANSCRIBING" => new = "CANCELLED" \/ batch = "ended",
         state = "CLEANING" => new = "CANCELLED" \/ cleanup = "ended",
         new \in Capture \cup {"TRANSCRIBING"} => Recording
  PROVE  Works'
<1>1. loop \in Seq(Tasks) /\ state' = new
  BY DEF WorkInv, BatchInv, OwnInv, TypeOK, Reach
<1>2. loop' = q \/ loop' = Append(q, "begin_transcribing")
  BY DEF Reach
<1>3. "begin_transcribing" \in Tasks \ Counted
  BY DEF Tasks, Counted
<1>4. \A u \in Counted : (Waits(u)' => Waits(u)) /\ (Once(u) => Once(u)')
  BY <1>1, <1>2, <1>3, QuietQueue
<1>5. /\ batch' = batch \/ (batch \in {"streaming", "clientless"} /\ batch' = "cancelled")
      /\ cleanup' = cleanup \/ (cleanup \in {"streaming", "clientless"} /\ cleanup' = "cancelled")
      /\ new = "CANCELLED" => batch' \notin {"streaming", "clientless"} /\ cleanup' # "streaming"
  BY DEF Reach, CancelWorker, KeepEverything
<1>6. Steady
  BY <1>1, <1>4, <1>5 DEF Steady, Recording
<1> QED
  BY <1>6, SteadyKeeps

\* Commands, signals and the end of the process.
LEMMA WorkCommands ==
  ASSUME WorkInv, Commands \/ Vanish
  PROVE  Works'
<1>0. loop \in Seq(Tasks)
  BY DEF WorkInv, BatchInv, OwnInv, TypeOK
<1>same. loop' = loop => \A u \in Counted : (Waits(u)' => Waits(u)) /\ (Once(u) => Once(u)')
  BY <1>0, QuietQueue
<1>1. CASE FailStartup \/ Stop \/ Cancel
  <2>1. PICK new \in {"ERROR", "TRANSCRIBING", "CANCELLED"} :
          /\ Reach(new, loop)
          /\ new # "CANCELLED" => Recording /\ state \notin {"TRANSCRIBING", "CLEANING"}
    BY <1>1 DEF FailStartup, Stop, Cancel, Recording, Capture
  <2> QED
    BY <2>1, StateNames, WorkReach DEF Capture
<1>2. CASE Start
  <2>1. CASE Reach("ERROR", loop)
    BY <1>2, <2>1, StateNames, WorkReach DEF Start, Capture
  <2>2. CASE ~Reach("ERROR", loop)
    <3>1. UNCHANGED <<loop, batch, cleanup>> /\ state = "INITIALIZING"
      BY <1>2, <2>2 DEF Start
    <3>2. Steady
      BY <1>same, <3>1 DEF Steady, Recording
    <3> QED
      BY <3>2, SteadyKeeps
  <2> QED
    BY <2>1, <2>2
<1>3. ASSUME NEW trashIfEmpty \in BOOLEAN, Close(trashIfEmpty) PROVE Works'
  <2>1. CASE Reach("CANCELLED", loop)
    BY <2>1, StateNames, WorkReach DEF Capture
  <2>2. CASE ~Reach("CANCELLED", loop)
    <3>1. /\ batch' = CancelWorker(batch) /\ cleanup' = CancelWorker(cleanup)
          /\ UNCHANGED <<state, loop>>
      BY <1>3, <2>2 DEF Close
    <3>2. Steady
      BY <1>same, <3>1 DEF Steady, CancelWorker, Recording
    <3> QED
      BY <3>2, SteadyKeeps
  <2> QED
    BY <2>1, <2>2
<1>4. CASE Signal \/ Vanish
  <2>1. UNCHANGED <<loop, batch, cleanup, state>>
    BY <1>4 DEF Signal, Vanish, coreVars
  <2>2. Steady
    BY <1>same, <2>1 DEF Steady, Recording
  <2> QED
    BY <2>2, SteadyKeeps
<1> QED
  BY <1>1, <1>2, <1>3, <1>4 DEF Commands

\* The threads: the stop thread asks for the upload once, and a worker posts
\* its result as it ends.
LEMMA WorkThreads ==
  ASSUME WorkInv, Threads
  PROVE  Works'
<1>0. loop \in Seq(Tasks) /\ Counted \subseteq Tasks
  BY DEF WorkInv, BatchInv, OwnInv, TypeOK, Counted, Tasks
<1>1. CASE AwaitBoot
  <2>1. /\ stopper = "await_boot" /\ UNCHANGED <<state, batch, cleanup>>
        /\ loop' = Append(loop, "start_batch")
    BY <1>1 DEF AwaitBoot, StopFrame, Post
  <2>2. batch = "none" /\ ~Waits("start_batch")
    BY <2>1 DEF WorkInv, BatchInv, StopperOwns
  <2>3. "start_batch" \in Counted
    BY DEF Counted
  <2>4. /\ Once("start_batch")'
        /\ \A u \in Counted \ {"start_batch"} : (Waits(u)' => Waits(u)) /\ (Once(u) => Once(u)')
    <3>1. "start_batch" \in Tasks
      BY <1>0, <2>3
    <3>2. \A u : u # "start_batch" \/ loop' = loop => /\ Waits(u)' => Waits(u)
                                                      /\ Once(u) => Once(u)'
      BY <1>0, <2>1, <3>1, QueueStep
    <3>3. ~Waits("start_batch") => Once("start_batch")'
      BY <1>0, <2>1, <3>1, QueueStep
    <3> QED
      BY <2>2, <3>2, <3>3
  <2> QED
    BY <2>1, <2>2, <2>4
       DEF WorkInv, Works, BatchWorks, CleanupWorks, Counted, Recording
<1>2. CASE BatchEnds
  <2>1. /\ batch \in {"streaming", "clientless"} /\ batch' = "ended"
        /\ UNCHANGED <<state, cleanup>>
    BY <1>2 DEF BatchEnds, BatchCompletes, BatchFails, WorkerFrame
  <2>2. PICK t \in {"batch_done", "batch_error"} : loop' = Append(loop, t)
    BY <1>2 DEF BatchEnds, BatchCompletes, BatchFails, Post
  <2>3. \A u \in Counted \ {t} : (Waits(u)' => Waits(u)) /\ (Once(u) => Once(u)')
    <3>1. t \in Tasks
      BY <1>0 DEF Counted
    <3>2. \A u : u # t \/ loop' = loop => /\ Waits(u)' => Waits(u)
                                          /\ Once(u) => Once(u)'
      BY <1>0, <2>2, <3>1, QueueStep
    <3> QED
      BY <3>2
  <2> QED
    BY <2>1, <2>2, <2>3
       DEF WorkInv, Works, BatchWorks, CleanupWorks, Counted, Recording
<1>3. CASE CleanupEnds
  <2>1. /\ cleanup = "streaming" /\ cleanup' = "ended" /\ UNCHANGED <<state, batch>>
    BY <1>3 DEF CleanupEnds, CleanupCompletes, CleanupFails, WorkerFrame
  <2>2. PICK t \in {"cleanup_done", "cleanup_error"} : loop' = Append(loop, t)
    BY <1>3 DEF CleanupEnds, CleanupCompletes, CleanupFails, Post
  <2>3. \A u \in Counted \ {t} : (Waits(u)' => Waits(u)) /\ (Once(u) => Once(u)')
    <3>1. t \in Tasks
      BY <1>0 DEF Counted
    <3>2. \A u : u # t \/ loop' = loop => /\ Waits(u)' => Waits(u)
                                          /\ Once(u) => Once(u)'
      BY <1>0, <2>2, <3>1, QueueStep
    <3> QED
      BY <3>2
  <2> QED
    BY <2>1, <2>2, <2>3
       DEF WorkInv, Works, BatchWorks, CleanupWorks, Counted, Recording
<1>4. CASE Boot \/ StopMic \/ StopPreview \/ (\E job \in jobs : Teardown(job))
           \/ PreviewPosts \/ BatchDelta \/ CleanupDelta
  <2>1. UNCHANGED <<state, batch, cleanup>>
    BY <1>4
       DEF Boot, BootBegin, BootOpenMic, BootPublishMic, BootBuildClient, BootPublishClient,
           BootCheckPreview, BootPublishPreview, BootConnectPreview, BootFinish, BootFrame,
           StopMic, StopPreview, StopFrame, Teardown, PreviewPosts, BatchDelta,
           CleanupDelta, WorkerFrame
  <2>2. loop' = loop \/ \E t \in {"audio_error", "enter_warming", "set_live_len",
            "live_words", "live_blank", "ws_error", "batch_delta", "cleanup_delta"} : Post(t)
    BY <1>4
       DEF Boot, BootBegin, BootOpenMic, BootPublishMic, BootBuildClient, BootPublishClient,
           BootCheckPreview, BootPublishPreview, BootConnectPreview, BootFinish, resVars,
           StopMic, StopPreview, Teardown, PreviewPosts, BatchDelta, CleanupDelta
  <2>3. \A u \in Counted : (Waits(u)' => Waits(u)) /\ (Once(u) => Once(u)')
    <3>1. loop' = loop \/ \E t \in Tasks \ Counted : loop' = Append(loop, t)
      BY <2>2 DEF Post, Tasks, Counted
    <3> QED
      BY <1>0, <3>1, QuietQueue
  <2>4. Steady
    BY <2>1, <2>3 DEF Steady, Recording
  <2> QED
    BY <2>4, SteadyKeeps
<1> QED
  BY <1>1, <1>2, <1>3, <1>4 DEF Threads, Stopper

\* The callbacks: each worker is started once, and the state moves on when the
\* worker has ended.
LEMMA WorkIdle ==
  ASSUME WorkInv, Idle \/ WarmingEnds
  PROVE  Works'
<1>0. loop \in Seq(Tasks) /\ Counted \subseteq Tasks
  BY DEF WorkInv, BatchInv, OwnInv, TypeOK, Counted, Tasks
<1>steady. ASSUME loop # <<>>, loop' = Tail(loop), UNCHANGED <<state, batch, cleanup>>
           PROVE  Works'
  <2>1. \A u \in Counted : (Waits(u)' => Waits(u)) /\ (Once(u) => Once(u)')
    BY <1>0, <1>steady, QuietQueue
  <2>2. Steady
    BY <1>steady, <2>1 DEF Steady, Recording
  <2> QED
    BY <2>2, SteadyKeeps
<1>skip. loop # <<>> /\ Skip => Works'
  BY <1>steady DEF Skip, KeepEverything
<1>1. CASE WarmingEnds
  BY <1>1, StateNames, WorkReach DEF WarmingEnds, Recording, Capture
<1>2. CASE EnterWarming
  <2>1. CASE Skip
    BY <1>2, <1>skip, <2>1 DEF EnterWarming, Take
  <2>2. CASE ~Skip
    <3>1. Reach("WARMING", Tail(loop)) /\ loop # <<>> /\ state = "INITIALIZING"
      BY <1>2, <2>2 DEF EnterWarming, Take
    <3> QED
      BY <3>1, StateNames, WorkReach DEF Recording
  <2> QED
    BY <2>1, <2>2
<1>3. CASE AudioError
  <2>1. /\ loop # <<>> /\ loop' = Tail(loop) /\ UNCHANGED <<batch, cleanup>>
        /\ state' = state \/ (state = "INITIALIZING" /\ state' = "ERROR")
    BY <1>3 DEF AudioError, Take
  <2>2. \A u \in Counted : (Waits(u)' => Waits(u)) /\ (Once(u) => Once(u)')
    BY <1>0, <2>1, QuietQueue
  <2>3. Steady
    BY <2>1, <2>2 DEF Steady, Recording, Capture
  <2> QED
    BY <2>3, SteadyKeeps
<1>4. CASE WsError \/ LiveDelta \/ BeginTranscribing \/ SetLiveLen \/ OnBatchDelta
           \/ OnCleanupDelta
  BY <1>4, <1>steady
     DEF WsError, LiveDelta, BeginTranscribing, SetLiveLen, OnBatchDelta, OnCleanupDelta,
         SkipUnless, Skip, Take, KeepEverything
<1>5. CASE StartBatch
  <2>1. CASE Skip
    BY <1>5, <1>skip, <2>1 DEF StartBatch, Take
  <2>2. CASE ~Skip
    <3>1. /\ Take("start_batch") /\ state = "TRANSCRIBING" /\ UNCHANGED <<state, cleanup>>
          /\ batch' \in {"streaming", "clientless"} /\ loop' = Tail(loop)
      BY <1>5, <2>2 DEF StartBatch, SkipUnless
    <3>2. Waits("start_batch") /\ loop # <<>>
      BY <1>0, <3>1, TakenWaited DEF Take
    <3>3. batch = "none" /\ ~Waits("start_batch")'
      BY <1>0, <3>1, <3>2, TakenIsGone DEF WorkInv, BatchWorks
    <3>4. \A u \in Counted : (Waits(u)' => Waits(u)) /\ (Once(u) => Once(u)')
      BY <1>0, <3>1, <3>2, QuietQueue
    <3> QED
      BY <3>1, <3>3, <3>4
         DEF WorkInv, Works, BatchWorks, CleanupWorks, Counted, Recording
  <2> QED
    BY <2>1, <2>2
<1>6. CASE BeginCleanup
  <2>1. CASE Skip
    BY <1>6, <1>skip, <2>1 DEF BeginCleanup, Take
  <2>2. CASE ~Skip
    <3>1. /\ Take("begin_cleanup") /\ state = "CLEANING" /\ UNCHANGED <<state, batch>>
          /\ cleanup' = "streaming" /\ loop' = Tail(loop)
      BY <1>6, <2>2 DEF BeginCleanup, SkipUnless
    <3>2. Waits("begin_cleanup") /\ loop # <<>>
      BY <1>0, <3>1, TakenWaited DEF Take
    <3>3. cleanup = "none" /\ ~Waits("begin_cleanup")'
      BY <1>0, <3>1, <3>2, TakenIsGone DEF WorkInv, CleanupWorks
    <3>4. \A u \in Counted : (Waits(u)' => Waits(u)) /\ (Once(u) => Once(u)')
      BY <1>0, <3>1, <3>2, QuietQueue
    <3> QED
      BY <3>1, <3>3, <3>4
         DEF WorkInv, Works, BatchWorks, CleanupWorks, Counted, Recording, Capture
  <2> QED
    BY <2>1, <2>2
<1>7. CASE OnBatchDone \/ OnBatchError
  <2>1. loop # <<>> /\ batch = "ended"
    BY <1>0, <1>7, TakenWaited
       DEF OnBatchDone, OnBatchError, Take, WorkInv, BatchWorks
  <2>2. CASE Skip
    BY <1>skip, <2>1, <2>2
  <2>3. CASE ~Skip /\ Reach("READY", Tail(loop))
    <3>1. state = "TRANSCRIBING"
      BY <1>7, <2>3 DEF OnBatchDone, OnBatchError, SkipUnless
    <3> QED
      BY <2>1, <2>3, <3>1, StateNames, WorkReach DEF Capture
  <2>4. CASE ~Skip /\ ~Reach("READY", Tail(loop))
    <3>1. state = "TRANSCRIBING" /\ Reach("CLEANING", Tail(loop))
      BY <1>7, <2>4 DEF OnBatchDone, OnBatchError, FailBatch, SkipUnless
    <3>2. /\ state' = "CLEANING" /\ UNCHANGED <<batch, cleanup>>
          /\ loop' = Append(Tail(loop), "begin_cleanup")
      BY <3>1 DEF Reach, KeepEverything
    <3>3. cleanup = "none" /\ ~Waits("begin_cleanup")
      BY <3>1 DEF WorkInv, CleanupWorks
    <3>4. "begin_cleanup" \in Tasks
      BY <1>0 DEF Counted
    <3>5. \A u : u # "begin_cleanup" \/ loop' = Tail(loop)
                   => (Waits(u)' => Waits(u)) /\ (Once(u) => Once(u)')
      BY <1>0, <2>1, <3>2, <3>4, QueueStep
    <3>6. Once("begin_cleanup")'
      BY <1>0, <2>1, <3>2, <3>3, <3>4, QueueStep
    <3> QED
      BY <2>1, <3>2, <3>3, <3>5, <3>6
         DEF WorkInv, Works, BatchWorks, CleanupWorks, Recording, Capture
  <2> QED
    BY <2>2, <2>3, <2>4
<1>8. CASE OnCleanupDone \/ OnCleanupError
  <2>1. loop # <<>> /\ cleanup = "ended"
    BY <1>0, <1>8, TakenWaited
       DEF OnCleanupDone, OnCleanupError, Take, WorkInv, CleanupWorks
  <2>2. CASE Skip
    BY <1>skip, <2>1, <2>2
  <2>3. CASE ~Skip
    <3>1. state = "CLEANING" /\ Reach("READY", Tail(loop))
      BY <1>8, <2>3 DEF OnCleanupDone, OnCleanupError, SkipUnless
    <3> QED
      BY <2>1, <3>1, StateNames, WorkReach DEF Capture
  <2> QED
    BY <2>2, <2>3
<1> QED
  BY <1>1, <1>2, <1>3, <1>4, <1>5, <1>6, <1>7, <1>8 DEF Idle

\* The workers keep to their tasks for ever.
LEMMA WorkInvariant == Spec => []WorkInv
<1>1. Init /\ BatchInv => WorkInv
  <2> SUFFICES ASSUME Init, BatchInv PROVE WorkInv
    OBVIOUS
  <2>1. loop = <<>> /\ \A t : ~Waits(t)
    BY DEF Init, Waits
  <2> QED
    BY <2>1 DEF Init, WorkInv, BatchWorks, CleanupWorks, Once
<1>2. BatchInv' /\ WorkInv /\ [Next]_vars => WorkInv'
  <2> SUFFICES ASSUME BatchInv', WorkInv, [Next]_vars PROVE Works'
    BY DEF Works, WorkInv
  <2>1. CASE UNCHANGED vars
    BY <2>1
       DEF vars, coreVars, Works, WorkInv, BatchWorks, CleanupWorks, Once, Waits, Recording
  <2> QED
    BY <2>1, WorkCommands, WorkThreads, WorkIdle DEF Next, Finished
<1> QED
  BY BatchInvariant, <1>1, <1>2, PTL DEF Spec

\* session.py's guards on start_batch and begin_cleanup, and what a cancel does
\* to the workers: no upload or cleanup runs for a session that has ended.
THEOREM NobodyWorksAfterTheEnd == Spec => []NoWorkAfterTheEnd
<1>1. WorkInv => NoWorkAfterTheEnd
  BY DEF WorkInv, BatchWorks, CleanupWorks, NoWorkAfterTheEnd, Terminal
<1> QED
  BY WorkInvariant, <1>1, PTL

=============================================================================
