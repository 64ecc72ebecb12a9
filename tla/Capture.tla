------------------------------ MODULE Capture -------------------------------
(***************************************************************************)
(* The meeting recorder's capture (meeting/capture.py) and the WAV file it *)
(* writes (audio.py).  Two pw-cat processes feed two reader threads, each  *)
(* with a bounded queue that drops its oldest block; a writer thread takes *)
(* one block from each queue, pads with silence what is late, and appends  *)
(* the pair to the file.  A stream's blocks are numbered as they are       *)
(* read, 0 is silence.  Start and stop are steps of whoever runs them.     *)
(***************************************************************************)
EXTENDS Integers, Sequences

CONSTANTS
  MaxBlocks,    \* bound: blocks the two streams deliver together
  QueueDepth    \* QUEUE_DEPTH, the size of a reader's queue

ASSUME CaptureAssumption ==
  /\ MaxBlocks \in Nat
  /\ QueueDepth \in Nat \ {0}

VARIABLES
  proc,      \* proc[s]: pw-cat runs for stream s
  reader,    \* reader[s]: the stream's reader thread
  told,      \* told[s]: the reader's stop event
  heard,     \* heard[s]: blocks the reader has read
  queue,     \* queue[s]: blocks waiting for the writer
  lost,      \* lost[s]: the stream ended by itself (the reader's error)
  writer,    \* the writer thread
  hand,      \* hand[s]: the block the writer holds for the channel
  halt,      \* the capture's stop event
  fd,        \* recording.wav: not created, open for writing, closed
  track,     \* the pairs of blocks in the file
  header     \* the length the file's header states

readerVars == <<proc, reader, told, heard, queue, lost>>
wavVars == <<fd, track, header>>
captureVars == <<readerVars, writer, hand, halt, wavVars>>

Streams == {"mic", "sys"}
Silence == 0
Blocks == 0 .. MaxBlocks
Placeholder == -1     \* stands for 0xFFFFFFFF, which states no length

CaptureTypeOK ==
  /\ proc \in [Streams -> BOOLEAN]
  /\ reader \in [Streams -> {"off", "reading", "full", "dropping", "ended"}]
  /\ told \in [Streams -> BOOLEAN]
  /\ heard \in [Streams -> Blocks]
  /\ queue \in [Streams -> Seq(Blocks)]
  /\ \A s \in Streams : Len(queue[s]) <= QueueDepth
  /\ lost \in [Streams -> BOOLEAN]
  /\ writer \in {"off", "mic", "sys", "ready", "done"}
  /\ hand \in [Streams -> Blocks]
  /\ halt \in BOOLEAN
  /\ fd \in {"none", "open", "closed"}
  /\ track \in Seq([Streams -> Blocks])
  /\ header \in {Placeholder} \cup Nat

CaptureInit ==
  /\ proc = [s \in Streams |-> FALSE]
  /\ reader = [s \in Streams |-> "off"]
  /\ told = [s \in Streams |-> FALSE]
  /\ heard = [s \in Streams |-> 0]
  /\ queue = [s \in Streams |-> <<>>]
  /\ lost = [s \in Streams |-> FALSE]
  /\ writer = "off"
  /\ hand = [s \in Streams |-> Silence]
  /\ halt = FALSE
  /\ fd = "none"
  /\ track = <<>>
  /\ header = Placeholder

-----------------------------------------------------------------------------
(* The file.                                                               *)

OpenWav == fd' = "open" /\ track' = <<>> /\ header' = Placeholder

\* Writes after the file is closed go nowhere.
WriteWav(pair) ==
  /\ track' = IF fd = "open" THEN Append(track, pair) ELSE track
  /\ UNCHANGED fd

Rewritten(t) == IF fd = "open" /\ t # <<>> THEN Len(t) ELSE header

RewriteHeader == header' = Rewritten(track) /\ UNCHANGED <<fd, track>>

FinalizeAsIs ==      \* mutant: closed with the sizes of the last rewrite
  /\ fd' = IF fd = "open" THEN "closed" ELSE fd
  /\ UNCHANGED <<track, header>>

FinalizeLeavesOpen ==      \* mutant: the sizes are fixed, the file is not closed
  /\ header' = IF fd = "open" THEN Len(track) ELSE header
  /\ UNCHANGED <<fd, track>>

Finalize ==
  /\ fd' = IF fd = "open" THEN "closed" ELSE fd
  /\ header' = IF fd = "open" THEN Len(track) ELSE header
  /\ UNCHANGED track

-----------------------------------------------------------------------------
(* The readers.                                                            *)

Delivering == heard["mic"] + heard["sys"] < MaxBlocks

ReadWithoutDrop(s) ==      \* mutant: the queue is not bounded
  /\ reader[s] = "reading"
  /\ Delivering
  /\ heard' = [heard EXCEPT ![s] = @ + 1]
  /\ queue' = [queue EXCEPT ![s] = Append(@, heard[s] + 1)]
  /\ reader' = [reader EXCEPT ![s] = IF told[s] THEN "ended" ELSE "reading"]
  /\ UNCHANGED <<proc, told, lost, writer, hand, halt, wavVars>>

ReadOutOfOrder(s) ==      \* mutant: the full queue gives up its place, not its head
  /\ reader[s] = "reading"
  /\ Delivering
  /\ heard' = [heard EXCEPT ![s] = @ + 1]
  /\ queue' = [queue EXCEPT ![s] = <<heard[s] + 1>> \o @]
  /\ reader' = [reader EXCEPT ![s] = IF told[s] THEN "ended" ELSE "reading"]
  /\ UNCHANGED <<proc, told, lost, writer, hand, halt, wavVars>>

\* A whole block arrives, and is put in the queue unless that is full.
Read(s) ==
  /\ reader[s] = "reading"
  /\ Delivering
  /\ heard' = [heard EXCEPT ![s] = @ + 1]
  /\ \/ /\ Len(queue[s]) < QueueDepth
        /\ queue' = [queue EXCEPT ![s] = Append(@, heard[s] + 1)]
        /\ reader' = [reader EXCEPT ![s] = IF told[s] THEN "ended" ELSE "reading"]
     \/ /\ Len(queue[s]) >= QueueDepth
        /\ reader' = [reader EXCEPT ![s] = "full"]
        /\ UNCHANGED queue
  /\ UNCHANGED <<proc, told, lost, writer, hand, halt, wavVars>>

\* What then is the oldest block is dropped, if the writer has left one; it may
\* take another before the new one is put.
DropOldest(s) ==
  /\ reader[s] = "full"
  /\ queue' = [queue EXCEPT ![s] = IF @ = <<>> THEN @ ELSE Tail(@)]
  /\ reader' = [reader EXCEPT ![s] = "dropping"]
  /\ UNCHANGED <<proc, told, heard, lost, writer, hand, halt, wavVars>>

PutAfterDrop(s) ==
  /\ reader[s] = "dropping"
  /\ queue' = [queue EXCEPT ![s] = Append(@, heard[s])]
  /\ reader' = [reader EXCEPT ![s] = IF told[s] THEN "ended" ELSE "reading"]
  /\ UNCHANGED <<proc, told, heard, lost, writer, hand, halt, wavVars>>

\* A short read: an error unless the reader was told to stop.
ReadEnds(s) ==
  /\ reader[s] = "reading" /\ ~proc[s]
  /\ reader' = [reader EXCEPT ![s] = "ended"]
  /\ lost' = [lost EXCEPT ![s] = ~told[s]]
  /\ UNCHANGED <<proc, told, heard, queue, writer, hand, halt, wavVars>>

\* pw-cat dies by itself.
ProcDies(s) ==
  /\ proc[s]
  /\ proc' = [proc EXCEPT ![s] = FALSE]
  /\ UNCHANGED <<reader, told, heard, queue, lost, writer, hand, halt, wavVars>>

\* Popen and the read loop, which ends at once if the reader was told already.
StartStream(s) ==
  /\ proc' = [proc EXCEPT ![s] = TRUE]
  /\ reader' = [reader EXCEPT ![s] = IF told[s] THEN "ended" ELSE "reading"]
  /\ UNCHANGED <<told, heard, queue, lost>>

\* stop: the event first, then the process it has (none before start), by
\* SIGTERM or SIGKILL.  The reader is waited for no longer than 3 s, so that it
\* may still run, and read what is left in the pipe, when stop goes on.
TellStream(s) ==
  /\ told' = [told EXCEPT ![s] = TRUE]
  /\ proc' = [proc EXCEPT ![s] = FALSE]
  /\ UNCHANGED <<reader, heard, queue, lost>>

-----------------------------------------------------------------------------
(* The writer.                                                             *)

LoopTop == IF halt THEN "done" ELSE "mic"

StartWriter == writer' = LoopTop /\ UNCHANGED hand

\* queue.get with a timeout: the oldest block, or nothing if none came in time.
TakeBlock(s) ==
  IF queue[s] # <<>>
  THEN /\ hand' = [hand EXCEPT ![s] = Head(queue[s])]
       /\ queue' = [queue EXCEPT ![s] = Tail(@)]
  ELSE /\ hand' = [hand EXCEPT ![s] = Silence]
       /\ UNCHANGED queue

TakeMic ==
  /\ writer = "mic"
  /\ TakeBlock("mic")
  /\ writer' = "sys"
  /\ UNCHANGED <<proc, reader, told, heard, lost, halt, wavVars>>

TakeSys ==
  /\ writer = "sys"
  /\ TakeBlock("sys")
  /\ writer' = IF \A s \in Streams : hand'[s] = Silence THEN LoopTop ELSE "ready"
  /\ UNCHANGED <<proc, reader, told, heard, lost, halt, wavVars>>

\* The pair is appended; the header is rewritten when the interval has passed.
WritePair ==
  /\ writer = "ready"
  /\ WriteWav(hand)
  /\ header' \in {header, Rewritten(track')}
  /\ hand' = [s \in Streams |-> Silence]
  /\ writer' = LoopTop
  /\ UNCHANGED <<readerVars, halt>>

WriterStep == TakeMic \/ TakeSys \/ WritePair

ReaderStep(s) == Read(s) \/ DropOldest(s) \/ PutAfterDrop(s) \/ ReadEnds(s)

-----------------------------------------------------------------------------

\* The length the WAV header states, if it states one, is never more than the
\* file holds, and once the file is closed it is exactly what the file holds,
\* whatever thread wrote, rewrote or closed it last (audio.py:110-155).
HeaderIsHonest ==
  /\ header <= Len(track)
  /\ fd = "closed" => header = Len(track)

\* In each channel of the file the blocks stand in the order they were heard
\* and none stands twice, although a full queue drops its oldest block while
\* the writer takes from the same end and silence fills what is late
\* (capture.py:229-239, 336-345).
ChannelsKeepOrder ==
  \A s \in Streams : \A i, j \in 1 .. Len(track) :
    i < j /\ track[i][s] # Silence /\ track[j][s] # Silence =>
      track[i][s] < track[j][s]

=============================================================================
