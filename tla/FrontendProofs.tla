--------------------------- MODULE FrontendProofs ---------------------------
(* The frontends, for any size of the pipe and any number of commands.      *)
EXTENDS Frontend, TLAPS

-----------------------------------------------------------------------------
(* Types                                                                   *)

Conns == [state : Backend!States, hello : BOOLEAN, failed : BOOLEAN,
          closed : BOOLEAN, finished : BOOLEAN, watched : BOOLEAN,
          open : BOOLEAN, out : Seq(Commands)]

Cards == [text : Texts, copyable : BOOLEAN, had : BOOLEAN, preview : BOOLEAN,
          failure : {"none"} \cup EventArgs["failure"],
          notice : {"none", "preview_lost", "batch_failed", "cleanup_failed"}]

Tasks == [what : {"copy", "copy_then_leave", "settle"}, text : Copies, key : BOOLEAN]

\* The events that are sent are events.
LEMMA EventsSent ==
  /\ Event("hello", "ok") \in Events /\ Event("hello", "other") \in Events
  /\ \A s \in Backend!States : Event("state", s) \in Events
  /\ Event("text", "append") \in Events /\ Event("text", "replace") \in Events
  /\ Event("preview_lost", "none") \in Events /\ Event("no_speech", "none") \in Events
  /\ Event("result", "batch") \in Events /\ Event("result", "cleaned") \in Events
  /\ Event("failure", "batch") \in Events /\ Event("failure", "live") \in Events
  /\ Event("failure", "cleanup") \in Events /\ Nothing \in Events
<1> DEFINE Types == {"hello", "state", "text", "preview_lost", "result", "no_speech",
                     "failure", "nothing"}
<1>1. DOMAIN EventArgs = Types
  BY DEF EventArgs
<1>2. ASSUME NEW t \in Types, NEW a \in EventArgs[t] PROVE Event(t, a) \in Events
  BY <1>1, <1>2 DEF Event, Events
<1>3. /\ EventArgs["hello"] = {"ok", "other"} /\ EventArgs["state"] = Backend!States
      /\ EventArgs["text"] = {"append", "replace"} /\ EventArgs["preview_lost"] = {"none"}
      /\ EventArgs["no_speech"] = {"none"} /\ EventArgs["result"] = {"batch", "cleaned"}
      /\ EventArgs["failure"] = {"batch", "live", "cleanup"} /\ EventArgs["nothing"] = {"none"}
  BY DEF EventArgs
<1> QED
  BY <1>2, <1>3 DEF Nothing

\* Short sequences.
LEMMA ShortSequences ==
  ASSUME NEW S
  PROVE  /\ <<>> \in Seq(S)
         /\ \A a \in S : <<a>> \in Seq(S) /\ <<>> \o <<a>> = <<a>>
         /\ \A a, b \in S : <<a, b>> \in Seq(S) /\ <<a>> \o <<b>> \in Seq(S)
         /\ \A s \in Seq(S), a \in S : Append(s, a) \in Seq(S)
<1>1. ASSUME NEW a \in S PROVE <<a>> \in Seq(S) /\ <<>> \o <<a>> = <<a>>
  OBVIOUS
<1>2. ASSUME NEW a \in S, NEW b \in S
      PROVE  <<a, b>> \in Seq(S) /\ <<a>> \o <<b>> \in Seq(S)
  <2>1. <<a, b>> \in Seq(S)
    OBVIOUS
  <2>2. <<a>> \o <<b>> \in Seq(S)
    OBVIOUS
  <2> QED
    BY <2>1, <2>2
<1>3. ASSUME NEW s \in Seq(S), NEW a \in S PROVE Append(s, a) \in Seq(S)
  OBVIOUS
<1>4. <<>> \in Seq(S)
  OBVIOUS
<1> QED
  BY <1>1, <1>2, <1>3, <1>4

\* What a known type says of its argument.
LEMMA EventArgument ==
  ASSUME NEW e \in Events
  PROVE  /\ e.type \in {"hello", "state", "text", "preview_lost", "result", "no_speech",
                        "failure", "nothing"}
         /\ e.type = "hello" => e.arg \in {"ok", "other"}
         /\ e.type = "state" => e.arg \in Backend!States
         /\ e.type = "text" => e.arg \in {"append", "replace"}
         /\ e.type = "result" => e.arg \in {"batch", "cleaned"}
         /\ e.type = "failure" => e.arg \in {"batch", "live", "cleanup"}
<1>1. e.type \in DOMAIN EventArgs /\ e.arg \in EventArgs[e.type]
  BY DEF Events
<1>2. DOMAIN EventArgs = {"hello", "state", "text", "preview_lost", "result", "no_speech",
                          "failure", "nothing"}
  BY DEF EventArgs
<1>3. /\ EventArgs["hello"] = {"ok", "other"} /\ EventArgs["state"] = Backend!States
      /\ EventArgs["text"] = {"append", "replace"}
      /\ EventArgs["result"] = {"batch", "cleaned"}
      /\ EventArgs["failure"] = {"batch", "live", "cleanup"}
  BY DEF EventArgs
<1> QED
  BY <1>1, <1>2, <1>3

\* What the operations of a connection do to it, to its state and to the loss.
LEMMA Connection ==
  ASSUME NEW c \in Conns
  PROVE  /\ \A cmd \in Commands :
              /\ SendCommand(c, cmd) \in Conns
              /\ SendCommand(c, cmd).state = c.state /\ SendCommand(c, cmd).failed = c.failed
         /\ \A t \in BOOLEAN :
              /\ CloseConn(c, t) \in Conns
              /\ CloseConn(c, t).state = c.state /\ CloseConn(c, t).failed = c.failed
         /\ HangUp(c) \in Conns /\ HangUp(c).state = c.state /\ HangUp(c).failed = c.failed
         /\ Fail(c) \in Conns
         /\ Fail(c).state = IF c.state \in Terminal THEN c.state ELSE "ERROR"
         /\ Fail(c).failed
<1>1. ASSUME NEW d \in Conns
      PROVE  /\ CloseStdin(d) \in Conns
             /\ CloseStdin(d).state = d.state /\ CloseStdin(d).failed = d.failed
             /\ Finish(d) \in Conns
             /\ Finish(d).state = d.state /\ Finish(d).failed = d.failed
  BY DEF CloseStdin, Finish, Conns
<1>2. ASSUME NEW d \in Conns, NEW cmd \in Commands
      PROVE  /\ SendCommand(d, cmd) \in Conns
             /\ SendCommand(d, cmd).state = d.state /\ SendCommand(d, cmd).failed = d.failed
  <2>1. /\ [d EXCEPT !.out = Append(d.out, cmd)] \in Conns
        /\ [d EXCEPT !.out = Append(d.out, cmd)].state = d.state
        /\ [d EXCEPT !.out = Append(d.out, cmd)].failed = d.failed
    <3> DEFINE q == Append(d.out, cmd)
    <3>1. q \in Seq(Commands)
      BY DEF Conns
    <3> HIDE DEF q
    <3>2. [d EXCEPT !.out = q] \in Conns
      BY <3>1 DEF Conns
    <3>3. [d EXCEPT !.out = q].state = d.state /\ [d EXCEPT !.out = q].failed = d.failed
      BY DEF Conns
    <3> QED
      BY <3>2, <3>3 DEF q
  <2> QED
    BY <1>1, <2>1 DEF SendCommand
<1>3. ASSUME NEW d \in Conns, NEW t \in BOOLEAN
      PROVE  /\ CloseConn(d, t) \in Conns
             /\ CloseConn(d, t).state = d.state /\ CloseConn(d, t).failed = d.failed
  <2> DEFINE x == [d EXCEPT !.closed = TRUE]
             cmd == IF t THEN "close_trash" ELSE "close"
  <2>1. x \in Conns /\ x.state = d.state /\ x.failed = d.failed
    BY DEF Conns
  <2>2. Finish(x) \in Conns /\ Finish(x).state = d.state /\ Finish(x).failed = d.failed
    BY <1>1, <2>1
  <2>3. cmd \in Commands
    BY DEF Commands
  <2> HIDE DEF x, cmd
  <2>4. /\ SendCommand(Finish(x), cmd) \in Conns
        /\ SendCommand(Finish(x), cmd).state = d.state
        /\ SendCommand(Finish(x), cmd).failed = d.failed
    BY <1>2, <2>2, <2>3
  <2>5. CloseConn(d, t) = IF d.closed THEN d ELSE CloseStdin(SendCommand(Finish(x), cmd))
    BY DEF CloseConn, x, cmd
  <2> QED
    BY <1>1, <2>4, <2>5
<1>4. HangUp(c) \in Conns /\ HangUp(c).state = c.state /\ HangUp(c).failed = c.failed
  <2> DEFINE x == [c EXCEPT !.closed = TRUE]
  <2>1. x \in Conns /\ x.state = c.state /\ x.failed = c.failed
    BY DEF Conns
  <2> HIDE DEF x
  <2>2. HangUp(c) = CloseStdin(Finish(x))
    BY DEF HangUp, x
  <2> QED
    BY <1>1, <2>1, <2>2
<1>5. /\ Fail(c) \in Conns /\ Fail(c).failed
      /\ Fail(c).state = IF c.state \in Terminal THEN c.state ELSE "ERROR"
  <2> DEFINE x == Apply([c EXCEPT !.failed = TRUE], "ERROR")
  <2>1. /\ x \in Conns /\ x.failed
        /\ x.state = IF c.state \in Terminal THEN c.state ELSE "ERROR"
    BY DEF Apply, Conns, Backend!States, Terminal, Backend!Terminal
  <2> HIDE DEF x
  <2>2. Fail(c) = CloseConn(x, FALSE)
    BY DEF Fail, x
  <2> QED
    BY <1>3, <2>1, <2>2
<1> QED
  BY <1>2, <1>3, <1>4, <1>5

\* What an event does to the connection: the state it brings, and a loss if the
\* hello is another version's.
LEMMA Handled ==
  ASSUME NEW c \in Conns, NEW e \in Events
  PROVE  /\ Handle(c, e) \in Conns
         /\ c.failed => Handle(c, e) = c
         /\ c.state \in Terminal => Handle(c, e).state = c.state
         /\ c.state \notin Terminal /\ ~c.failed =>
              IF e.type = "state" THEN Handle(c, e).state = e.arg /\ ~Handle(c, e).failed
              ELSE \/ Handle(c, e).state = c.state /\ ~Handle(c, e).failed
                   \/ e.type = "hello" /\ Handle(c, e).state = "ERROR"
<1>1. CASE c.failed
  BY <1>1 DEF Handle, Conns
<1>2. CASE ~c.failed /\ e.type = "hello"
  <2> DEFINE h == [c EXCEPT !.hello = TRUE]
  <2>1. h \in Conns /\ h.state = c.state /\ h.failed = c.failed
    BY DEF Conns
  <2>2. Handle(c, e) = IF e.arg = "ok" THEN h ELSE Fail(h)
    BY <1>2 DEF Handle
  <2> HIDE DEF h
  <2> QED
    BY <1>2, <2>1, <2>2, Connection
<1>3. CASE ~c.failed /\ e.type = "state"
  <2>1. e.arg \in Backend!States
    BY <1>3, EventArgument
  <2> QED
    BY <1>3, <2>1 DEF Handle, Apply, Conns
<1>4. CASE ~c.failed /\ e.type \notin {"hello", "state"}
  BY <1>4 DEF Handle
<1> QED
  BY <1>1, <1>2, <1>3, <1>4

\* The end of the output and a missing hello change nothing, or are a loss.
LEMMA Ends ==
  ASSUME NEW c \in Conns, NEW n \in {AtEof(c), CheckHello(c)}
  PROVE  /\ n \in Conns
         /\ c.state \in Terminal => n.state = c.state
         /\ \/ n.state = c.state /\ n.failed = c.failed
            \/ n.state \in Terminal \ {"READY", "CANCELLED"} /\ n.failed
            \/ c.state \in Terminal
<1>1. CASE n = AtEof(c)
  <2> DEFINE d == [c EXCEPT !.watched = FALSE]
  <2>1. d \in Conns /\ d.state = c.state /\ d.failed = c.failed
    BY DEF Conns
  <2>2. n = IF c.finished THEN d ELSE Fail(d)
    BY <1>1 DEF AtEof
  <2> HIDE DEF d
  <2> QED
    BY <2>1, <2>2, Connection DEF Terminal, Backend!Terminal
<1>2. CASE n = CheckHello(c)
  BY <1>2, Connection DEF CheckHello, Terminal, Backend!Terminal
<1> QED
  BY <1>1, <1>2

\* What is shown after an event is a card.
LEMMA RenderedTypes ==
  ASSUME card \in Cards, conn \in Conns, NEW e \in Events, NEW n \in Conns
  PROVE  Rendered(e, n) \in Cards
<1> DEFINE c == IF conn.failed THEN card
                ELSE CASE e.type = "text" -> OnText(card, e.arg)
                       [] e.type = "no_speech" -> OnNoSpeech(card)
                       [] e.type = "preview_lost" -> OnPreviewLost(card, conn.state)
                       [] e.type = "failure" -> OnFailure(card, e.arg)
                       [] OTHER -> card
<1> USE DEF Cards, Texts
<1>1. \A f \in {"none", "batch", "live", "cleanup"} : f \in {"none"} \cup EventArgs["failure"]
  BY DEF EventArgs
<1>2. c \in Cards
  <2>1. OnText(card, e.arg) \in Cards
    BY DEF OnText
  <2>2. OnNoSpeech(card) \in Cards
    BY DEF OnNoSpeech, SetText
  <2>3. OnPreviewLost(card, conn.state) \in Cards
    BY DEF OnPreviewLost
  <2>4. e.type = "failure" => OnFailure(card, e.arg) \in Cards
    BY <1>1, EventArgument DEF OnFailure
  <2> HIDE DEF Cards
  <2> QED
    BY <2>1, <2>2, <2>3, <2>4
<1> HIDE DEF c
<1>3. ASSUME NEW d \in Cards, NEW t \in Texts
      PROVE  /\ SetText(d, t) \in Cards /\ ShowPlaceholder(d) \in Cards
             /\ ApplyFailure(d) \in Cards
  <2>1. ASSUME NEW x \in Cards, NEW y \in Texts PROVE SetText(x, y) \in Cards
    BY DEF SetText
  <2>2. /\ [d EXCEPT !.had = FALSE] \in Cards
        /\ [d EXCEPT !.notice = "batch_failed"] \in Cards
        /\ [d EXCEPT !.notice = "cleanup_failed"] \in Cards
    OBVIOUS
  <2>3. "placeholder" \in Texts /\ "no_preview" \in Texts
    OBVIOUS
  <2>4. ApplyFailure(d) \in {SetText([d EXCEPT !.notice = "batch_failed"], "no_preview"),
                            [d EXCEPT !.notice = "batch_failed"],
                            [d EXCEPT !.notice = "cleanup_failed"]}
    BY DEF ApplyFailure
  <2> HIDE DEF Cards, Texts
  <2> QED
    BY <2>1, <2>2, <2>3, <2>4 DEF ShowPlaceholder
<1>4. ASSUME NEW old \in Backend!States, NEW new \in Backend!States
      PROVE  OnState(c, old, new) \in Cards
  <2> DEFINE ended == old \in Capture /\ new \notin Capture
             d == [c EXCEPT !.preview = c.preview /\ ~ended,
                            !.notice = IF ended THEN "none" ELSE c.notice]
             fresh == [d EXCEPT !.preview = FALSE, !.failure = "none", !.notice = "none"]
             live == [d EXCEPT !.failure = IF old = "WARMING" THEN d.failure ELSE "none",
                               !.notice = IF d.preview THEN "preview_lost" ELSE d.notice]
             a == [d EXCEPT !.had = FALSE]
             b == [d EXCEPT !.notice = "none"]
  <2>1. d \in Cards
    BY <1>2
  <2> HIDE DEF d
  <2>2. fresh \in Cards /\ live \in Cards /\ a \in Cards /\ b \in Cards
    BY <1>1, <2>1
  <2> HIDE DEF fresh, live, a, b
  <2>3. OnState(c, old, new) =
          CASE new = "WARMING" -> ShowPlaceholder(fresh)
            [] new = "RECORDING" -> IF d.had THEN live ELSE ShowPlaceholder(live)
            [] new = "TRANSCRIBING" -> a
            [] new = "READY" -> IF d.failure = "none" THEN b ELSE ApplyFailure(d)
            [] new = "ERROR" -> SetText(b, "error")
            [] OTHER -> d
    BY DEF OnState, d, fresh, live, a, b
  <2>4. "error" \in Texts
    OBVIOUS
  <2> HIDE DEF Cards, Texts
  <2>5. /\ ShowPlaceholder(fresh) \in Cards /\ ShowPlaceholder(live) \in Cards
        /\ ApplyFailure(d) \in Cards /\ SetText(b, "error") \in Cards
    BY <1>3, <2>1, <2>2, <2>4
  <2> QED
    BY <2>1, <2>2, <2>3, <2>5
<1>5. Rendered(e, n) = IF n.state = conn.state THEN c ELSE OnState(c, conn.state, n.state)
  BY DEF Rendered, c
<1>6. conn.state \in Backend!States /\ n.state \in Backend!States
  BY DEF Conns
<1> HIDE DEF Cards
<1> QED
  BY <1>2, <1>4, <1>5, <1>6

\* A text that can be copied has its name among the copies.
LEMMA CopiesTypes ==
  ASSUME card \in Cards, Backend!TypeOK
  PROVE  OnScreen \in Copies /\ Deliverable \in Copies /\ Outcome \in Copies
BY DEF OnScreen, Deliverable, Outcome, Cards, Copies, Texts, Backend!TypeOK

\* Every move of the dictation keeps its types.
LEMMA DictationTypes ==
  ASSUME Backend!TypeOK, Backend!Next \/ UNCHANGED dictVars PROVE Backend!TypeOK'
<1>1. CASE UNCHANGED dictVars
  BY <1>1 DEF dictVars, Backend!TypeOK
<1>2. CASE Backend!Next
  BY <1>2 DEF Backend!Next, Backend!TypeOK, Backend!WarmUp, Backend!Record, Backend!Fail,
     Backend!StopRecording, Backend!Abandon, Backend!Hear, Backend!Stream,
     Backend!Transcribe, Backend!HearNothing, Backend!LoseTranscript, Backend!Polish,
     Backend!LosePolish, Backend!Move, Backend!States, Backend!InFlight, Backend!Capture,
     Backend!Working, Backend!Terminal
<1> QED
  BY <1>1, <1>2

\* What was sent waits behind the rest, or is lost with the frontend.
Sent(s) == \/ ui = "gone" /\ events' = <<>>
           \/ ui # "gone" /\ events' = events \o s

LEMMA SendSent ==
  ASSUME events \in Seq(Events), NEW s \in Seq(Events), Send(s)
  PROVE  Sent(s) /\ events' \in Seq(Events)
<1>1. <<>> \in Seq(Events) /\ events \o s \in Seq(Events)
  OBVIOUS
<1> QED
  BY <1>1 DEF Send, Sent

LEMMA TellSent ==
  ASSUME events \in Seq(Events), Backend!TypeOK', NEW s \in Seq(Events), Tell(s)
  PROVE  /\ events' \in Seq(Events)
         /\ bstate' = bstate => Sent(s)
         /\ bstate' # bstate => Sent(Append(s, Event("state", bstate')))
<1>1. Event("state", bstate') \in Events
  BY EventsSent DEF Backend!TypeOK
<1>2. CASE bstate' = bstate
  <2>1. s \o <<>> = s
    OBVIOUS
  <2> QED
    BY <1>2, <2>1, SendSent DEF Tell
<1>3. CASE bstate' # bstate
  <2>1. /\ s \o <<Event("state", bstate')>> = Append(s, Event("state", bstate'))
        /\ Append(s, Event("state", bstate')) \in Seq(Events)
    BY <1>1
  <2> QED
    BY <1>3, <2>1, SendSent DEF Tell
<1> QED
  BY <1>2, <1>3

\* The backend's steps keep the types.
LEMMA BackendTypes == ASSUME FrontendTypeOK, BackendActs PROVE FrontendTypeOK'
<1>0. /\ Backend!TypeOK /\ events \in Seq(Events) /\ conn \in Conns
      /\ process \in {"starting", "up", "down"} /\ started \in BOOLEAN
      /\ ui \in {"running", "exiting", "gone"} /\ CardTypeOK /\ TuiTypeOK /\ GuiTypeOK
  BY DEF FrontendTypeOK, WireTypeOK, Conns
<1>1. ui' = ui /\ UNCHANGED <<cardVars, tuiVars, guiVars>>
  BY DEF BackendActs, Hello, BackendWorks, BackendReads, BackendDies
<1>2. Backend!TypeOK'
  <2>1. Backend!Next \/ UNCHANGED dictVars
    BY DEF BackendActs, Hello, BackendWorks, BackendReads, BackendDies, Starts, Streams,
       PreviewLost, BatchDone, FailBatch, CleanupDone, CleanupError, Cancelled, Backend!Next
  <2> QED
    BY <1>0, <2>1, DictationTypes
<1>3. process' \in {"starting", "up", "down"} /\ started' \in BOOLEAN /\ conn' \in Conns
  <2>1. CASE Hello \/ BackendWorks \/ BackendDies
    BY <1>0, <2>1 DEF Hello, BackendWorks, BackendDies
  <2>2. CASE BackendReads
    <3>1. conn' = conn \/ (conn.out # <<>> /\ conn' = [conn EXCEPT !.out = Tail(conn.out)])
      BY <2>2 DEF BackendReads
    <3>2. conn' \in Conns
      <4>1. conn.out # <<>> => Tail(conn.out) \in Seq(Commands)
        BY <1>0 DEF Conns
      <4> QED
        BY <1>0, <3>1, <4>1 DEF Conns
    <3>3. process' \in {process, "down"} /\ started' \in {started, TRUE}
      BY <2>2 DEF BackendReads
    <3> QED
      BY <1>0, <3>2, <3>3
  <2> QED
    BY <2>1, <2>2 DEF BackendActs
<1>4. events' \in Seq(Events)
  <2>1. ASSUME NEW s \in Seq(Events), Tell(s) PROVE events' \in Seq(Events)
    BY <1>0, <1>2, <2>1, TellSent
  <2>2. <<>> \in Seq(Events)
    OBVIOUS
  <2>3. CASE Hello
    <3>1. PICK v \in {"ok", "other"} : Send(<<Event("hello", v)>>)
      BY <2>3 DEF Hello, EventArgs
    <3>2. <<Event("hello", v)>> \in Seq(Events)
      BY EventsSent, ShortSequences
    <3> QED
      BY <1>0, <3>1, <3>2, SendSent
  <2>4. CASE Starts
    BY <2>1, <2>2, <2>4 DEF Starts
  <2>5. CASE Streams
    <3>1. PICK op \in {"append", "replace"} : Tell(<<Event("text", op)>>)
      BY <2>5 DEF Streams
    <3>2. <<Event("text", op)>> \in Seq(Events)
      BY EventsSent, ShortSequences
    <3> QED
      BY <2>1, <3>1, <3>2
  <2>6. CASE PreviewLost
    BY <2>1, <2>6, EventsSent, ShortSequences DEF PreviewLost
  <2>7. CASE BatchDone
    <3>1. /\ <<Event("result", "batch")>> \in Seq(Events)
          /\ <<>> \o <<Event("no_speech", "none")>> \in Seq(Events)
          /\ <<Event("result", "batch")>> \o <<Event("no_speech", "none")>> \in Seq(Events)
      BY EventsSent, ShortSequences
    <3> QED
      BY <2>1, <2>7, <3>1 DEF BatchDone
  <2>8. CASE FailBatch
    <3>1. /\ <<Event("text", "replace"), Event("failure", "live")>> \in Seq(Events)
          /\ <<Event("failure", "batch")>> \in Seq(Events)
      BY EventsSent, ShortSequences
    <3> QED
      BY <2>1, <2>8, <3>1 DEF FailBatch
  <2>9. CASE CleanupDone
    <3>1. <<Event("result", "cleaned")>> \in Seq(Events)
      BY EventsSent, ShortSequences
    <3> QED
      BY <2>1, <2>2, <2>9, <3>1 DEF CleanupDone
  <2>10. CASE CleanupError
    <3>1. <<Event("text", "replace"), Event("failure", "cleanup")>> \in Seq(Events)
      BY EventsSent, ShortSequences
    <3> QED
      BY <2>1, <2>10, <3>1 DEF CleanupError
  <2>11. CASE BackendReads
    <3>1. events' = events \/ Tell(<<>>)
      BY <2>11 DEF BackendReads, Cancelled
    <3> QED
      BY <1>0, <2>1, <2>2, <3>1
  <2>12. CASE BackendDies
    <3>1. PICK n \in 0 .. Len(events) : events' = SubSeq(events, 1, n)
      BY <2>12 DEF BackendDies
    <3>2. \A i \in 1 .. n : events[i] \in Events
      BY <1>0
    <3> QED
      BY <1>0, <3>1, <3>2
  <2> QED
    BY <2>3, <2>4, <2>5, <2>6, <2>7, <2>8, <2>9, <2>10, <2>11, <2>12
       DEF BackendActs, BackendWorks
<1> QED
  <2>1. WireTypeOK'
    BY <1>0, <1>1, <1>2, <1>3, <1>4 DEF WireTypeOK, Conns
  <2>2. CardTypeOK' /\ TuiTypeOK' /\ GuiTypeOK'
    BY <1>0, <1>1 DEF CardTypeOK, TuiTypeOK, GuiTypeOK, cardVars, tuiVars, guiVars
  <2> QED
    BY <2>1, <2>2 DEF FrontendTypeOK

\* What a frontend takes from the backend keeps the types.
LEMMA TakesTypes ==
  ASSUME FrontendTypeOK, NEW e \in Events, NEW n \in Conns, Takes(n, e),
         UNCHANGED <<dictVars, process, started>>, events' \in Seq(Events)
  PROVE  FrontendTypeOK'
<1>0. card \in Cards /\ conn \in Conns /\ clip \in Copies
  BY DEF FrontendTypeOK, WireTypeOK, CardTypeOK, Conns, Cards
<1>1. /\ conn' = n /\ card' = Rendered(e, n) /\ UNCHANGED <<kind, clip, ui>>
      /\ confirm' \in BOOLEAN
  <2>1. \A x, y \in BOOLEAN : (x /\ y) \in BOOLEAN
    OBVIOUS
  <2> QED
    BY DEF Takes, TuiTakes, GuiTakes
<1>2. WireTypeOK'
  BY <1>1 DEF FrontendTypeOK, WireTypeOK, Conns, Backend!TypeOK, dictVars
<1>3. CardTypeOK'
  BY <1>0, <1>1, RenderedTypes DEF FrontendTypeOK, CardTypeOK, Cards
<1>4. IsResult(e) => e.arg \in {"batch", "cleaned"} /\ e.arg \in Copies
  BY EventArgument DEF IsResult, Copies
<1>5. CASE kind = "tui" /\ TuiTakes(n, e) /\ UNCHANGED guiVars
  <2> DEFINE q == IF IsResult(e) THEN Append(tasks, Task("copy", e.arg, FALSE)) ELSE tasks
  <2>1. tasks \in Seq(Tasks)
    BY DEF FrontendTypeOK, TuiTypeOK, Tasks
  <2>2. IsResult(e) => Task("copy", e.arg, FALSE) \in Tasks
    BY <1>4 DEF Task, Tasks
  <2>3. q \in Seq(Tasks)
    BY <2>1, <2>2, ShortSequences
  <2>4. Leave(q, FALSE) \/ (tasks' = q /\ UNCHANGED leaving)
    BY <1>5 DEF TuiTakes
  <2>5. Task("settle", "none", FALSE) \in Tasks
    BY DEF Task, Tasks, Copies
  <2> HIDE DEF q
  <2>6. tasks' \in Seq(Tasks) /\ leaving' \in {leaving, TRUE}
    BY <2>3, <2>4, <2>5, ShortSequences DEF Leave
  <2>7. TuiTypeOK'
    BY <1>5, <2>6 DEF TuiTakes, FrontendTypeOK, TuiTypeOK, Tasks
  <2> QED
    BY <1>2, <1>3, <1>5, <2>7 DEF FrontendTypeOK, GuiTypeOK, guiVars
<1>6. CASE kind = "gui" /\ GuiTakes(n, e) /\ UNCHANGED tuiVars
  <2>1. idles \in Seq({"batch", "cleaned", "close"}) /\ default \in {"none", "stop", "copy", "close"}
        /\ pending \in {"none", "batch", "cleaned"}
    BY DEF FrontendTypeOK, GuiTypeOK
  <2>2. PICK s \in {<<>>, <<e.arg>>}, d \in {<<>>, <<"close">>} :
          /\ idles' = idles \o s \o d
          /\ s = <<e.arg>> => IsResult(e)
    BY <1>6 DEF GuiTakes
  <2>3. /\ s \in Seq({"batch", "cleaned", "close"}) /\ d \in Seq({"batch", "cleaned", "close"})
    <3>1. "close" \in {"batch", "cleaned", "close"}
      OBVIOUS
    <3>2. s = <<e.arg>> => e.arg \in {"batch", "cleaned", "close"}
      BY <1>4, <2>2
    <3> QED
      BY <3>1, <3>2, ShortSequences
  <2>4. idles' \in Seq({"batch", "cleaned", "close"})
    BY <2>1, <2>2, <2>3
  <2>5. default' \in {"none", "stop", "copy", "close"}
    BY <1>6, <2>1 DEF GuiTakes, DefaultIn
  <2>6. pending' \in {"none", "batch", "cleaned"}
    BY <1>4, <1>6, <2>1 DEF GuiTakes
  <2>7. GuiTypeOK'
    BY <1>6, <2>4, <2>5, <2>6 DEF GuiTakes, FrontendTypeOK, GuiTypeOK
  <2> QED
    BY <1>2, <1>3, <1>6, <2>7 DEF FrontendTypeOK, TuiTypeOK, tuiVars
<1> QED
  BY <1>5, <1>6 DEF Takes

\* A read and the deadline hand an event, or none, to a connection they leave.
LEMMA Reading ==
  ASSUME FrontendTypeOK, ReadStdout \/ HelloDeadline
  PROVE  \E e \in Events, n \in Conns :
           /\ Takes(n, e) /\ UNCHANGED <<dictVars, process, started>> /\ ui # "gone"
           /\ \/ /\ events # <<>> /\ e = Head(events) /\ n = Handle(conn, e)
                 /\ events' = Tail(events)
              \/ e = Nothing /\ n \in {AtEof(conn), CheckHello(conn)} /\ events' = events
<1>0. events \in Seq(Events) /\ conn \in Conns /\ Nothing \in Events
  BY EventsSent DEF FrontendTypeOK, WireTypeOK, Conns
<1>1. CASE events # <<>> /\ events' = Tail(events) /\ Takes(Handle(conn, Head(events)), Head(events))
           /\ ReadStdout
  <2>1. Head(events) \in Events
    BY <1>0, <1>1
  <2>2. Handle(conn, Head(events)) \in Conns
    BY <1>0, <2>1, Handled
  <2> QED
    BY <1>1, <2>1, <2>2 DEF ReadStdout
<1>2. CASE events' = events /\ Takes(AtEof(conn), Nothing) /\ ReadStdout
  <2>1. AtEof(conn) \in Conns
    BY <1>0, Ends
  <2> QED
    BY <1>0, <1>2, <2>1 DEF ReadStdout
<1>3. CASE HelloDeadline
  <2>1. CheckHello(conn) \in Conns
    BY <1>0, Ends
  <2> QED
    BY <1>0, <1>3, <2>1 DEF HelloDeadline
<1> QED
  BY <1>1, <1>2, <1>3 DEF ReadStdout

\* The waiting copies without the one at the head.
LEMMA RestOfTasks ==
  ASSUME NEW S, NEW q \in Seq(S), q # <<>>
  PROVE  SubSeq(q, 1, 0) \o SubSeq(q, 2, Len(q)) = Tail(q)
<1>1. SubSeq(q, 1, 0) = <<>> /\ SubSeq(q, 2, Len(q)) = Tail(q)
  OBVIOUS
<1>2. <<>> \o Tail(q) = Tail(q)
  OBVIOUS
<1> QED
  BY <1>1, <1>2

\* A task at the lock is the first of them: it copies and goes, or leaves too,
\* or it settles.
LEMMA TaskRuns ==
  ASSUME tasks \in Seq(Tasks), RunTask
  PROVE  /\ tasks # <<>> /\ tasks[1] \in Tasks /\ Tail(tasks) \in Seq(Tasks)
         /\ kind = "tui" /\ ui # "gone"
         /\ \/ /\ clip' \in {tasks[1].text, clip}
               /\ (tasks' = Tail(tasks) /\ UNCHANGED leaving) \/ Leave(Tail(tasks), TRUE)
               /\ UNCHANGED <<conn, printed, ui>>
            \/ tasks' = Tail(tasks) /\ UNCHANGED <<clip, leaving>> /\ Settled
         /\ UNCHANGED <<dictVars, process, started, events, kind, card, confirm, signalled>>
<1>1. tasks # <<>> /\ TaskEnds(1)
  BY DEF RunTask
<1>2. SubSeq(tasks, 1, 1 - 1) \o SubSeq(tasks, 1 + 1, Len(tasks)) = Tail(tasks)
  BY <1>1, RestOfTasks
<1>3. tasks[1] \in Tasks /\ Tail(tasks) \in Seq(Tasks)
  BY <1>1
<1>4. \/ /\ clip' \in {tasks[1].text, clip}
         /\ IF tasks[1].what = "copy" THEN tasks' = Tail(tasks) /\ UNCHANGED leaving
            ELSE Leave(Tail(tasks), TRUE)
         /\ UNCHANGED <<conn, printed, ui>>
      \/ tasks' = Tail(tasks) /\ UNCHANGED <<clip, leaving>> /\ Settled
  BY <1>1, <1>2 DEF TaskEnds
<1>5. /\ kind = "tui" /\ ui # "gone"
      /\ UNCHANGED <<dictVars, process, started, events, kind, card, confirm, signalled>>
  BY <1>1 DEF TaskEnds
<1> QED
  BY <1>1, <1>3, <1>4, <1>5

\* Nothing the user does changes the state of the connection, or loses it.
LEMMA ActsOnConnection ==
  ASSUME conn \in Conns, TuiActs \/ GuiActs
  PROVE  conn' \in Conns /\ conn'.state = conn.state /\ conn'.failed = conn.failed
<1>1. \/ conn' = conn
      \/ conn' = SendCommand(conn, "stop") \/ conn' = SendCommand(conn, "cancel")
      \/ conn' = CloseConn(conn, FALSE) \/ conn' = CloseConn(conn, TRUE)
      \/ conn' = HangUp(conn)
  <2>1. CASE TuiActs
    BY <2>1 DEF TuiActs, ActionPrimary, ActionCancelOrExit, Answered, ActionCopy, SendKey,
       RunTask, TaskEnds, Settled, TuiSignal, TuiExits
  <2>2. CASE GuiActs
    BY <2>2 DEF GuiActs, OnCloseRequest, CloseWindow, GuiSignal, RequestCancel, SendClick,
       OnCancelResponse, OnStop, CopyToClipboard, PressEnter, OnActiveChanged, RunIdle
  <2> QED
    BY <2>1, <2>2
<1>2. "stop" \in Commands /\ "cancel" \in Commands
  BY DEF Commands
<1>3. ASSUME NEW cmd \in Commands, conn' = SendCommand(conn, cmd)
      PROVE  conn' \in Conns /\ conn'.state = conn.state /\ conn'.failed = conn.failed
  BY <1>3, Connection
<1>4. ASSUME NEW t \in BOOLEAN, conn' = CloseConn(conn, t)
      PROVE  conn' \in Conns /\ conn'.state = conn.state /\ conn'.failed = conn.failed
  BY <1>4, Connection
<1>5. ASSUME conn' = HangUp(conn)
      PROVE  conn' \in Conns /\ conn'.state = conn.state /\ conn'.failed = conn.failed
  BY <1>5, Connection
<1> QED
  BY <1>1, <1>2, <1>3, <1>4, <1>5

\* What the user and the copies do in the terminal.
LEMMA TuiTypes == ASSUME FrontendTypeOK, TuiActs, UNCHANGED guiVars PROVE FrontendTypeOK'
<1>0. /\ conn \in Conns /\ card \in Cards /\ Backend!TypeOK /\ tasks \in Seq(Tasks)
      /\ clip \in Copies /\ leaving \in BOOLEAN /\ signalled \in BOOLEAN
      /\ printed \in Copies /\ confirm \in BOOLEAN /\ events \in Seq(Events)
  BY DEF FrontendTypeOK, WireTypeOK, CardTypeOK, TuiTypeOK, Conns, Cards, Tasks
<1>1. WireTypeOK'
  <2>1. /\ UNCHANGED <<dictVars, process, started>>
        /\ events' \in {events, <<>>} /\ ui' \in {ui, "exiting", "gone"}
    BY DEF TuiActs, ActionPrimary, ActionCancelOrExit, Answered, ActionCopy, KeyFrame,
       RunTask, TaskEnds, Settled, TuiSignal, TuiExits, Vanishes
  <2>2. events' \in Seq(Events)
    BY <1>0, <2>1, ShortSequences
  <2>3. conn' \in Conns
    BY <1>0, ActsOnConnection
  <2>4. Backend!TypeOK' /\ process' \in {"starting", "up", "down"} /\ started' \in BOOLEAN
        /\ ui' \in {"running", "exiting", "gone"}
    BY <2>1, DictationTypes DEF FrontendTypeOK, WireTypeOK
  <2> QED
    BY <2>2, <2>3, <2>4 DEF WireTypeOK, Conns
<1>2. kind' = kind /\ card' = card /\ confirm' \in BOOLEAN
  BY <1>0 DEF TuiActs, ActionPrimary, ActionCancelOrExit, Answered, ActionCopy, KeyFrame,
     RunTask, TaskEnds, TuiSignal, TuiExits, cardVars
<1>3. ASSUME NEW q \in Seq(Tasks), Leave(q, TRUE)
      PROVE  tasks' \in Seq(Tasks) /\ leaving' \in BOOLEAN
  <2>1. Task("settle", "none", TRUE) \in Tasks
    BY DEF Task, Tasks, Copies
  <2> QED
    BY <1>0, <1>3, <2>1, ShortSequences DEF Leave
<1>4. ASSUME clip' \in Copies, tasks' \in Seq(Tasks), leaving' \in BOOLEAN,
             signalled' \in BOOLEAN, printed' \in Copies
      PROVE  FrontendTypeOK'
  <2>1. CardTypeOK'
    BY <1>0, <1>2, <1>4 DEF FrontendTypeOK, CardTypeOK, Cards
  <2>2. TuiTypeOK'
    BY <1>4 DEF TuiTypeOK, Tasks
  <2>3. GuiTypeOK'
    BY DEF FrontendTypeOK, GuiTypeOK, guiVars
  <2> QED
    BY <1>1, <2>1, <2>2, <2>3 DEF FrontendTypeOK
<1>5. CASE ActionPrimary \/ ActionCancelOrExit \/ Answered \/ ActionCopy
  <2>1. Deliverable \in Copies
    BY <1>0, CopiesTypes
  <2>2. \A w \in {"copy", "copy_then_leave"} :
          Append(tasks, Task(w, Deliverable, TRUE)) \in Seq(Tasks)
    <3>1. \A w \in {"copy", "copy_then_leave"} : Task(w, Deliverable, TRUE) \in Tasks
      BY <2>1 DEF Task, Tasks
    <3> QED
      BY <1>0, <3>1, ShortSequences
  <2>3. \/ UNCHANGED <<tasks, leaving>>
        \/ Leave(tasks, TRUE)
        \/ /\ UNCHANGED leaving
           /\ \E w \in {"copy", "copy_then_leave"} :
                tasks' = Append(tasks, Task(w, Deliverable, TRUE))
    BY <1>5 DEF ActionPrimary, ActionCancelOrExit, Answered, ActionCopy
  <2>4. tasks' \in Seq(Tasks) /\ leaving' \in BOOLEAN
    BY <1>0, <1>3, <2>2, <2>3
  <2>5. UNCHANGED <<clip, signalled, printed>>
    BY <1>5 DEF ActionPrimary, ActionCancelOrExit, Answered, ActionCopy, KeyFrame
  <2> QED
    BY <1>0, <1>4, <2>4, <2>5
<1>6. CASE RunTask
  <2>1. tasks' \in Seq(Tasks) /\ leaving' \in BOOLEAN
    BY <1>0, <1>3, <1>6, TaskRuns
  <2>2. clip' \in Copies
    BY <1>0, <1>6, TaskRuns DEF Tasks
  <2>3. printed' \in Copies /\ signalled' = signalled
    BY <1>0, <1>6, TaskRuns, CopiesTypes DEF Settled
  <2> QED
    BY <1>0, <1>4, <2>1, <2>2, <2>3
<1>7. CASE TuiSignal \/ TuiExits
  <2>1. /\ tasks' \in {tasks, <<>>} /\ leaving' \in BOOLEAN /\ signalled' \in BOOLEAN
        /\ clip' = clip /\ printed' \in {printed, "none"}
    BY <1>0, <1>7 DEF TuiSignal, TuiExits, cardVars
  <2>2. tasks' \in Seq(Tasks)
    BY <1>0, <2>1, ShortSequences
  <2>3. printed' \in Copies
    BY <1>0, <2>1 DEF Copies
  <2> QED
    BY <1>0, <1>4, <2>1, <2>2, <2>3
<1> QED
  BY <1>5, <1>6, <1>7 DEF TuiActs

\* What the user and the main loop do in the window.
LEMMA GuiTypes == ASSUME FrontendTypeOK, GuiActs, UNCHANGED tuiVars PROVE FrontendTypeOK'
<1> DEFINE Idles == {"batch", "cleaned", "close"}
<1>0. /\ conn \in Conns /\ card \in Cards /\ Backend!TypeOK /\ idles \in Seq(Idles)
      /\ clip \in Copies /\ confirm \in BOOLEAN /\ events \in Seq(Events)
      /\ active \in BOOLEAN /\ pending \in {"none", "batch", "cleaned"}
      /\ default \in {"none", "stop", "copy", "close"}
  BY DEF FrontendTypeOK, WireTypeOK, CardTypeOK, GuiTypeOK, Conns, Cards
<1>1. /\ UNCHANGED <<dictVars, process, started, card, kind>>
      /\ events' \in {events, <<>>} /\ ui' \in {ui, "gone"} /\ confirm' \in BOOLEAN
  BY <1>0 DEF GuiActs, OnCloseRequest, CloseWindow, GuiSignal, RequestCancel,
     OnCancelResponse, OnStop, CopyToClipboard, PressEnter, OnActiveChanged, RunIdle,
     ButtonFrame, BackendFrame, Vanishes
<1>2. conn' \in Conns
  BY <1>0, ActsOnConnection
<1>3. /\ clip' \in {clip, pending, OnScreen, "batch", "cleaned"}
      /\ active' \in BOOLEAN /\ pending' \in {pending, "none"}
      /\ default' \in {default, "none", "stop"}
  <2>1. CASE OnActiveChanged
    BY <2>1 DEF OnActiveChanged
  <2>2. CASE RunIdle
    <3>1. idles # <<>> => Head(idles) \in Idles
      BY <1>0
    <3> QED
      BY <1>0, <2>2, <3>1 DEF RunIdle, CloseWindow
  <2>3. CASE GuiActs /\ ~OnActiveChanged /\ ~RunIdle
    BY <1>0, <2>3 DEF GuiActs, OnCloseRequest, CloseWindow, GuiSignal, RequestCancel,
       OnCancelResponse, OnStop, CopyToClipboard, PressEnter, ButtonFrame, guiVars
  <2> QED
    BY <2>1, <2>2, <2>3
<1>4. idles' \in Seq(Idles)
  <2>1. \/ idles' = idles \/ idles' = <<>>
        \/ idles # <<>> /\ idles' = Tail(idles)
        \/ pending # "none" /\ idles' = Append(idles, pending)
    BY DEF GuiActs, OnCloseRequest, CloseWindow, GuiSignal, RequestCancel,
       OnCancelResponse, OnStop, CopyToClipboard, PressEnter, RunIdle, OnActiveChanged,
       ButtonFrame, guiVars
  <2>2. pending # "none" => pending \in Idles
    BY <1>0
  <2>3. idles # <<>> => Tail(idles) \in Seq(Idles)
    BY <1>0
  <2> QED
    BY <1>0, <2>1, <2>2, <2>3, ShortSequences
<1>5. WireTypeOK'
  <2>1. events' \in Seq(Events)
    BY <1>0, <1>1, ShortSequences
  <2>2. Backend!TypeOK' /\ process' \in {"starting", "up", "down"} /\ started' \in BOOLEAN
        /\ ui' \in {"running", "exiting", "gone"}
    BY <1>1, DictationTypes DEF FrontendTypeOK, WireTypeOK
  <2> QED
    BY <1>2, <2>1, <2>2 DEF WireTypeOK, Conns
<1>6. clip' \in Copies
  <2>1. OnScreen \in Copies
    BY <1>0, CopiesTypes
  <2> QED
    BY <1>0, <1>3, <2>1 DEF Copies
<1>7. CardTypeOK'
  BY <1>0, <1>1, <1>6 DEF FrontendTypeOK, CardTypeOK, Cards
<1>8. GuiTypeOK'
  BY <1>0, <1>3, <1>4, <1>6 DEF GuiTypeOK
<1> QED
  BY <1>5, <1>7, <1>8 DEF FrontendTypeOK, TuiTypeOK, tuiVars

\* Every variable of a frontend, of the pipe and of the backend has its type.
LEMMA FrontendTypeStep ==
  FrontendTypeOK /\ [FrontendNext]_frontendVars => FrontendTypeOK'
<1> SUFFICES ASSUME FrontendTypeOK, [FrontendNext]_frontendVars PROVE FrontendTypeOK'
  OBVIOUS
<1>1. CASE ReadStdout \/ HelloDeadline
  <2>1. PICK e \in Events, n \in Conns :
          /\ Takes(n, e) /\ UNCHANGED <<dictVars, process, started>>
          /\ (events # <<>> /\ events' = Tail(events)) \/ events' = events
    BY <1>1, Reading
  <2>2. events' \in Seq(Events)
    BY <2>1 DEF FrontendTypeOK, WireTypeOK
  <2> QED
    BY <2>1, <2>2, TakesTypes
<1>2. CASE UNCHANGED frontendVars
  BY <1>2 DEF frontendVars, wireVars, dictVars, cardVars, tuiVars, guiVars, FrontendTypeOK,
     WireTypeOK, CardTypeOK, TuiTypeOK, GuiTypeOK, Backend!TypeOK
<1> QED
  BY <1>1, <1>2, BackendTypes, TuiTypes, GuiTypes DEF FrontendNext, AtRest

\* The types hold from the start.
LEMMA FrontendTypesStart == FrontendInit => FrontendTypeOK
<1> SUFFICES ASSUME FrontendInit PROVE FrontendTypeOK
  OBVIOUS
<1>1. <<"start">> \in Seq(Commands)
  BY ShortSequences DEF Commands
<1>2. WireTypeOK
  BY <1>1, ShortSequences DEF FrontendInit, WireInit, WireTypeOK, Backend!Init, Backend!TypeOK,
     Backend!States, Backend!InFlight
<1>3. CardTypeOK
  BY DEF FrontendInit, CardInit, CardTypeOK, Texts, Copies
<1>4. TuiTypeOK
  <2>1. tasks \in Seq(Tasks)
    BY ShortSequences DEF FrontendInit, TuiInit
  <2> QED
    BY <2>1 DEF FrontendInit, TuiInit, TuiTypeOK, Copies, Tasks
<1>5. GuiTypeOK
  BY DEF FrontendInit, GuiInit, GuiTypeOK
<1> QED
  BY <1>2, <1>3, <1>4, <1>5 DEF FrontendTypeOK

\* Every variable of the backend, the pipe and the frontend keeps its type,
\* whatever the sizes of the pipe (client.py, pipe.py, card.py, clipboard.py).
THEOREM FrontendTypes == FrontendSpec => []FrontendTypeOK
BY FrontendTypesStart, FrontendTypeStep, PTL DEF FrontendSpec

-----------------------------------------------------------------------------
(* What the backend says                                                   *)

Ready(e) == e.type = "state" /\ e.arg = "READY"
Restart(e) == e.type = "state" /\ e.arg \in {"WARMING", "RECORDING"}
Spoken(e) == e.type = "result" /\ e.arg = "cleaned"
LastWord(e) == e.type \in {"failure", "no_speech"} \/ Spoken(e)

Live == conn.state \notin Terminal

\* The events that wait, those before the n-th, and those behind it.
Waiting == 1 .. Len(events)
Before(n) == {i \in Waiting : i < n}
Behind(n) == {i \in Waiting : i > n}
End == Len(events) + 1

Streamed(n) == card.text = "stream" \/ \E i \in Before(n) : events[i].type = "text"

Losses == {"batch_failed", "cleanup_failed"}
Why == IF verdict = "cleanup_failed" THEN "cleanup" ELSE IF heard THEN "live" ELSE "batch"
NeedsText == verdict \in {"none", "cleanup_failed"} \/ (verdict = "batch_failed" /\ heard)

\* How far the dictation has come, and what a lost connection means.
DictInv ==
  /\ bstate \in {"INITIALIZING", "WARMING", "RECORDING", "TRANSCRIBING"} =>
       result = "none" /\ verdict = "none"
  /\ bstate = "CLEANING" => result = "batch" /\ verdict = "none"
  /\ Backend!OutcomeStands
  /\ result = "cleaned" => bstate = "READY"
  /\ verdict # "none" => bstate = "READY"
  /\ process = "starting" => bstate = "INITIALIZING" /\ btext = "nothing"
  /\ ui = "gone" => events = <<>>
  /\ conn.failed => ~Live

Fits(e) ==
  /\ e.type = "failure" => verdict \in Losses /\ e.arg = Why
  /\ e.type = "no_speech" => verdict = "no_speech"
  /\ e.type = "result" => result = "cleaned"

Opening == {"INITIALIZING", "WARMING"}
Textless(s) == \A k \in 1 .. Len(s) : s[k].type # "text"

\* What a step of the backend may write: a text is added only to a text, none
\* comes before the recording, and READY is the last word, behind the one that
\* explains it.
Script(s) ==
  /\ process # "up" => UNCHANGED dictVars /\ \A k \in 1 .. Len(s) : s[k].type = "hello"
  /\ process' = "up" => process = "up" \/ btext = "nothing"
  /\ bstate = "READY" => UNCHANGED dictVars /\ s = <<>>
  /\ \A k \in 1 .. Len(s) :
       s[k].type = "text" /\ s[k].arg = "append" => btext # "nothing"
  /\ \A k \in 1 .. Len(s) : Restart(s[k]) => bstate \in Opening /\ Textless(s)
  /\ bstate' \in Opening => bstate \in Opening /\ Textless(s)
  /\ btext' # "nothing" => btext # "nothing" \/ ~Textless(s)
  /\ \A k \in 1 .. Len(s) : Ready(s[k]) => k = Len(s) /\ bstate' = "READY"
  /\ \A k \in 1 .. Len(s) : LastWord(s[k]) =>
       bstate' = "READY" /\ Fits(s[k])' /\ k + 1 = Len(s) /\ Ready(s[Len(s)])
  /\ bstate # "READY" /\ bstate' = "READY" =>
       /\ verdict' = "no_speech" => \E k \in 1 .. Len(s) : s[k].type = "no_speech"
       /\ verdict' \in Losses => \E k \in 1 .. Len(s) : s[k].type = "failure"
       /\ NeedsText' => btext # "nothing" \/ ~Textless(s)
       /\ result' = "cleaned" => \E k \in 1 .. Len(s) : Spoken(s[k])

\* The steps of the dictation keep its part of DictInv.
LEMMA DictMoves ==
  ASSUME DictInv, Backend!TypeOK, Backend!Next \/ UNCHANGED dictVars
  PROVE  /\ bstate' \in {"INITIALIZING", "WARMING", "RECORDING", "TRANSCRIBING"} =>
              result' = "none" /\ verdict' = "none"
         /\ bstate' = "CLEANING" => result' = "batch" /\ verdict' = "none"
         /\ Backend!OutcomeStands'
         /\ result' = "cleaned" => bstate' = "READY"
         /\ verdict' # "none" => bstate' = "READY"
<1> USE DEF DictInv, Backend!OutcomeStands
<1>1. CASE UNCHANGED dictVars
  BY <1>1 DEF dictVars
<1>2. CASE Backend!WarmUp \/ Backend!Record \/ Backend!Fail \/ Backend!StopRecording
             \/ Backend!Abandon
  BY <1>2 DEF Backend!WarmUp, Backend!Record, Backend!Fail, Backend!StopRecording,
     Backend!Abandon, Backend!Move, Backend!Capture, Backend!InFlight, Backend!Working
<1>3. CASE Backend!Hear \/ Backend!Stream
  BY <1>3 DEF Backend!Hear, Backend!Stream
<1>4. CASE Backend!Transcribe \/ Backend!HearNothing \/ Backend!LoseTranscript
  BY <1>4 DEF Backend!Transcribe, Backend!HearNothing, Backend!LoseTranscript, Backend!Move
<1>5. CASE Backend!Polish \/ Backend!LosePolish
  BY <1>5 DEF Backend!Polish, Backend!LosePolish, Backend!Move
<1> QED
  BY <1>1, <1>2, <1>3, <1>4, <1>5 DEF Backend!Next

\* Every step of the backend is a move of its dictation, or leaves it alone.
LEMMA BackendMoves ==
  ASSUME FrontendTypeOK, BackendActs
  PROVE  /\ Backend!Next \/ UNCHANGED dictVars
         /\ conn'.state = conn.state /\ conn'.failed = conn.failed
         /\ ui' = ui /\ UNCHANGED <<cardVars, tuiVars, guiVars>>
         /\ process' = "starting" => process = "starting" /\ UNCHANGED dictVars
<1>0. conn \in Conns
  BY DEF FrontendTypeOK, WireTypeOK, Conns
<1>1. Backend!Next \/ UNCHANGED dictVars
  BY DEF BackendActs, Hello, BackendWorks, BackendReads, BackendDies, Starts, Streams,
     PreviewLost, BatchDone, FailBatch, CleanupDone, CleanupError, Cancelled, Backend!Next
<1>2. conn'.state = conn.state /\ conn'.failed = conn.failed
  <2>1. conn' = conn \/ conn' = [conn EXCEPT !.out = Tail(conn.out)]
    BY DEF BackendActs, Hello, BackendWorks, BackendReads, BackendDies
  <2> QED
    BY <1>0, <2>1 DEF Conns
<1>3. ui' = ui /\ UNCHANGED <<cardVars, tuiVars, guiVars>>
  BY DEF BackendActs, Hello, BackendWorks, BackendReads, BackendDies
<1>4. process' # "starting"
  BY DEF BackendActs, Hello, BackendWorks, BackendReads, BackendDies
<1> QED
  BY <1>1, <1>2, <1>3, <1>4

\* Every step keeps DictInv.
LEMMA DictStep ==
  DictInv /\ FrontendTypeOK /\ [FrontendNext]_frontendVars => DictInv'
<1> SUFFICES ASSUME DictInv, FrontendTypeOK, [FrontendNext]_frontendVars PROVE DictInv'
  OBVIOUS
<1>0. conn \in Conns /\ events \in Seq(Events) /\ Backend!TypeOK
  BY DEF FrontendTypeOK, WireTypeOK, Conns
<1>1. CASE BackendActs
  <2>1. ui' = "gone" => events' = <<>>
    <3>1. CASE BackendDies
      <4>1. ui = "gone" => events = <<>>
        BY DEF DictInv
      <4>2. PICK n \in 0 .. Len(events) : events' = SubSeq(events, 1, n)
        BY <3>1 DEF BackendDies
      <4>3. ui = "gone" => n = 0
        BY <4>1, <4>2
      <4> QED
        BY <1>1, <4>1, <4>2, <4>3, BackendMoves
    <3>2. CASE Hello \/ BackendWorks \/ BackendReads
      <4>1. (\E s : Send(s)) \/ events' = events
        BY <3>2 DEF Hello, BackendWorks, BackendReads, Starts, Streams, PreviewLost,
           BatchDone, FailBatch, CleanupDone, CleanupError, Cancelled, Tell
      <4> QED
        BY <1>1, <4>1, BackendMoves DEF Send, DictInv
    <3> QED
      BY <1>1, <3>1, <3>2 DEF BackendActs
  <2> QED
    BY <1>0, <1>1, <2>1, BackendMoves, DictMoves DEF DictInv, Live, dictVars
<1>2. CASE ReadStdout \/ HelloDeadline
  <2>1. PICK e \in Events, n \in Conns :
          /\ Takes(n, e) /\ UNCHANGED <<dictVars, process, started>> /\ ui # "gone"
          /\ \/ n = Handle(conn, e) /\ events' = Tail(events)
             \/ n \in {AtEof(conn), CheckHello(conn)} /\ events' = events
    BY <1>2, Reading
  <2>2. conn' = n /\ ui' = ui
    BY <2>1 DEF Takes, TuiTakes, GuiTakes
  <2>3. n.failed => n.state \in Terminal
    BY <1>0, <2>1, Handled, Ends DEF DictInv, Live, Terminal, Backend!Terminal
  <2> QED
    BY <1>0, <2>1, <2>2, <2>3, DictMoves DEF DictInv, Live, dictVars
<1>3. CASE (TuiActs /\ UNCHANGED guiVars) \/ (GuiActs /\ UNCHANGED tuiVars)
  <2>1. conn'.state = conn.state /\ conn'.failed = conn.failed
    BY <1>0, <1>3, ActsOnConnection
  <2>2. UNCHANGED <<dictVars, process>>
    BY <1>3 DEF TuiActs, ActionPrimary, ActionCancelOrExit, Answered, ActionCopy, KeyFrame,
       RunTask, TaskEnds, TuiSignal, TuiExits, GuiActs, OnCloseRequest, CloseWindow,
       GuiSignal, RequestCancel, OnCancelResponse, OnStop, CopyToClipboard, PressEnter,
       OnActiveChanged, RunIdle, ButtonFrame, BackendFrame
  <2>3. ui' = "gone" => events' = <<>>
    BY <1>3 DEF TuiActs, ActionPrimary, ActionCancelOrExit, Answered, ActionCopy, KeyFrame,
       RunTask, TaskEnds, Settled, TuiSignal, TuiExits, Vanishes, GuiActs, OnCloseRequest,
       CloseWindow, GuiSignal, RequestCancel, OnCancelResponse, OnStop, CopyToClipboard,
       PressEnter, OnActiveChanged, RunIdle, ButtonFrame, BackendFrame, DictInv
  <2> QED
    BY <1>0, <2>1, <2>2, <2>3, DictMoves DEF DictInv, Live, dictVars
<1>4. CASE UNCHANGED frontendVars
  BY <1>0, <1>4, DictMoves DEF DictInv, Live, dictVars, frontendVars, wireVars
<1> QED
  BY <1>1, <1>2, <1>3, <1>4 DEF FrontendNext, AtRest

\* What is told, event by event: alone, and before a transition.
LEMMA SaidAlone ==
  ASSUME events \in Seq(Events), Backend!TypeOK', bstate' = bstate,
         NEW a \in Events, Tell(<<a>>)
  PROVE  \E s \in Seq(Events) : Sent(s) /\ Len(s) = 1 /\ s[1] = a
<1> DEFINE r == <<a>>
<1>1. r \in Seq(Events) /\ Len(r) = 1 /\ r[1] = a
  OBVIOUS
<1>2. Tell(r)
  OBVIOUS
<1> HIDE DEF r
<1>3. Sent(r)
  BY <1>1, <1>2, TellSent
<1> QED
  BY <1>1, <1>3

LEMMA SaidBefore ==
  ASSUME events \in Seq(Events), Backend!TypeOK', bstate' # bstate,
         NEW s \in Seq(Events), Tell(s)
  PROVE  \E r \in Seq(Events) :
           /\ Sent(r) /\ Len(r) = Len(s) + 1 /\ r[Len(s) + 1] = Event("state", bstate')
           /\ \A k \in 1 .. Len(s) : r[k] = s[k]
<1> DEFINE x == Event("state", bstate')
<1>0. x \in Events
  BY EventsSent DEF Backend!TypeOK
<1>1. Sent(Append(s, x))
  BY TellSent
<1> HIDE DEF x
<1> DEFINE r == Append(s, x)
<1>2. /\ r \in Seq(Events) /\ Len(r) = Len(s) + 1 /\ r[Len(s) + 1] = x
      /\ \A k \in 1 .. Len(s) : r[k] = s[k]
  BY <1>0
<1>3. Sent(r)
  BY <1>1
<1> HIDE DEF r
<1> QED
  BY <1>2, <1>3 DEF x

LEMMA SaidMove ==
  ASSUME events \in Seq(Events), Backend!TypeOK', bstate' # bstate, Tell(<<>>)
  PROVE  \E s \in Seq(Events) : Sent(s) /\ Len(s) = 1 /\ s[1] = Event("state", bstate')
<1> DEFINE q == <<>>
<1>1. q \in Seq(Events) /\ Len(q) = 0 /\ Tell(q)
  OBVIOUS
<1> HIDE DEF q
<1>2. PICK r \in Seq(Events) :
        /\ Sent(r) /\ Len(r) = Len(q) + 1 /\ r[Len(q) + 1] = Event("state", bstate')
  BY <1>1, SaidBefore
<1> QED
  BY <1>1, <1>2

LEMMA SaidOnce ==
  ASSUME events \in Seq(Events), Backend!TypeOK', bstate' # bstate,
         NEW a \in Events, Tell(<<a>>)
  PROVE  \E s \in Seq(Events) :
           Sent(s) /\ Len(s) = 2 /\ s[1] = a /\ s[2] = Event("state", bstate')
<1> DEFINE q == <<a>>
<1>1. q \in Seq(Events) /\ Len(q) = 1 /\ q[1] = a /\ Tell(q)
  OBVIOUS
<1> HIDE DEF q
<1>2. PICK r \in Seq(Events) :
        /\ Sent(r) /\ Len(r) = Len(q) + 1 /\ r[Len(q) + 1] = Event("state", bstate')
        /\ \A k \in 1 .. Len(q) : r[k] = q[k]
  BY <1>1, SaidBefore
<1>3. r[1] = q[1]
  BY <1>1, <1>2
<1> QED
  BY <1>1, <1>2, <1>3

LEMMA SaidTwice ==
  ASSUME events \in Seq(Events), Backend!TypeOK', bstate' # bstate,
         NEW a \in Events, NEW b \in Events, Tell(<<a, b>>)
  PROVE  \E s \in Seq(Events) :
           /\ Sent(s) /\ Len(s) = 3 /\ s[1] = a /\ s[2] = b
           /\ s[3] = Event("state", bstate')
<1> DEFINE q == <<a, b>>
<1>1. q \in Seq(Events) /\ Len(q) = 2 /\ q[1] = a /\ q[2] = b /\ Tell(q)
  OBVIOUS
<1> HIDE DEF q
<1>2. PICK r \in Seq(Events) :
        /\ Sent(r) /\ Len(r) = Len(q) + 1 /\ r[Len(q) + 1] = Event("state", bstate')
        /\ \A k \in 1 .. Len(q) : r[k] = q[k]
  BY <1>1, SaidBefore
<1>3. r[1] = q[1] /\ r[2] = q[2]
  BY <1>1, <1>2
<1> QED
  BY <1>1, <1>2, <1>3

\* Every step of the backend writes a script, but for a step that ends it.
LEMMA Scripted ==
  ASSUME FrontendTypeOK, FrontendTypeOK', DictInv, DictInv',
         Hello \/ BackendWorks \/ BackendReads
  PROVE  \E s \in Seq(Events) : Sent(s) /\ Script(s)
<1>0. /\ events \in Seq(Events) /\ Backend!TypeOK /\ Backend!TypeOK'
      /\ process \in {"starting", "up", "down"}
  BY DEF FrontendTypeOK, WireTypeOK
<1>12. /\ \A op \in {"append", "replace"} : Event("text", op) \in Events
      /\ Event("preview_lost", "none") \in Events /\ Event("no_speech", "none") \in Events
      /\ Event("result", "batch") \in Events /\ Event("result", "cleaned") \in Events
      /\ Event("failure", "batch") \in Events /\ Event("failure", "live") \in Events
      /\ Event("failure", "cleanup") \in Events
  BY EventsSent
<1>1. CASE Hello
  <2>1. PICK v \in {"ok", "other"} : Send(<<Event("hello", v)>>)
    BY <1>1 DEF Hello, EventArgs
  <2> DEFINE s == <<Event("hello", v)>>
  <2>2. s \in Seq(Events) /\ Len(s) = 1 /\ s[1].type = "hello"
    <3>1. Event("hello", v) \in Events
      BY EventsSent
    <3>2. s \in Seq(Events) /\ Len(s) = 1 /\ s[1] = Event("hello", v)
      BY <3>1
    <3> QED
      BY <3>2 DEF Event
  <2>3. Sent(s)
    BY <1>0, <2>1, <2>2, SendSent
  <2>4. UNCHANGED dictVars /\ process = "starting"
    BY <1>1 DEF Hello
  <2> HIDE DEF s
  <2>5. Script(s)
    BY <2>2, <2>4 DEF Script, DictInv, Ready, Restart, LastWord, Spoken, Textless, dictVars
  <2> QED
    BY <2>2, <2>3, <2>5
<1>2. ASSUME events' = events, UNCHANGED dictVars, process = "up"
      PROVE  \E s \in Seq(Events) : Sent(s) /\ Script(s)
  <2>1. <<>> \in Seq(Events) /\ Len(<<>>) = 0 /\ events \o <<>> = events
    BY <1>0
  <2>2. Sent(<<>>)
    BY <1>2, <2>1 DEF Sent, DictInv
  <2>3. Script(<<>>)
    BY <1>2, <2>1 DEF Script, Textless, dictVars
  <2> QED
    BY <2>1, <2>2, <2>3
\* A move that says no more than the state it leads to.
<1>3. ASSUME process = "up", Tell(<<>>), bstate' # bstate, UNCHANGED <<btext, result, verdict>>,
             bstate \notin {"READY", "ERROR", "CANCELLED"}, bstate' # "READY",
             bstate' \in {"WARMING", "RECORDING"} => bstate \in Opening,
             bstate' # "INITIALIZING"
      PROVE  \E s \in Seq(Events) : Sent(s) /\ Script(s)
  <2>1. PICK s \in Seq(Events) : Sent(s) /\ Len(s) = 1 /\ s[1] = Event("state", bstate')
    BY <1>0, <1>3, SaidMove
  <2>2. Script(s)
    BY <1>3, <2>1 DEF Script, Event, Ready, Restart, LastWord, Spoken, Textless, Opening
  <2> QED
    BY <2>1, <2>2
<1>4. CASE BackendWorks /\ Starts
  BY <1>3, <1>4 DEF BackendWorks, Starts, Backend!Fail, Backend!WarmUp, Backend!Record,
     Backend!Move, Opening
<1>5. CASE BackendWorks /\ Streams
  <2>1. PICK op \in {"append", "replace"} :
          /\ op = "append" => btext = "partial" /\ btext' = "partial"
          /\ Tell(<<Event("text", op)>>)
    BY <1>5 DEF Streams
  <2>2. /\ bstate' = bstate /\ UNCHANGED <<result, verdict>> /\ process = "up"
        /\ bstate \in {"RECORDING", "TRANSCRIBING", "CLEANING"}
    BY <1>5 DEF BackendWorks, Streams, Backend!Hear, Backend!Stream
  <2>3. PICK s \in Seq(Events) : Sent(s) /\ Len(s) = 1 /\ s[1] = Event("text", op)
    BY <1>0, <1>12, <2>1, <2>2, SaidAlone
  <2>4. Script(s)
    BY <2>1, <2>2, <2>3 DEF Script, Event, Ready, Restart, LastWord, Spoken, Textless, Opening
  <2> QED
    BY <2>3, <2>4
<1>6. CASE BackendWorks /\ PreviewLost
  <2>1. UNCHANGED dictVars /\ process = "up" /\ bstate # "READY"
    BY <1>6 DEF BackendWorks, PreviewLost, Capture, Backend!Capture
  <2>2. PICK s \in Seq(Events) : Sent(s) /\ Len(s) = 1 /\ s[1] = Event("preview_lost", "none")
    BY <1>0, <1>12, <1>6, <2>1, SaidAlone DEF PreviewLost, dictVars
  <2>3. Script(s)
    BY <2>1, <2>2 DEF Script, Event, Ready, Restart, LastWord, Spoken, Textless, dictVars
  <2> QED
    BY <2>2, <2>3
<1>7. CASE BackendWorks /\ BatchDone
  <2>0. process = "up"
    BY <1>7 DEF BackendWorks
  <2>1. CASE Backend!Transcribe /\ Tell(<<Event("result", "batch")>>)
    <3>1. bstate = "TRANSCRIBING" /\ bstate' = "CLEANING" /\ UNCHANGED <<btext, verdict>>
          /\ result' = "batch"
      BY <2>1 DEF Backend!Transcribe, Backend!Move
    <3>2. PICK s \in Seq(Events) : /\ Sent(s) /\ Len(s) = 2 /\ s[1] = Event("result", "batch")
                                   /\ s[2] = Event("state", bstate')
      BY <1>0, <1>12, <2>1, <3>1, SaidOnce
    <3>3. Script(s)
      BY <2>0, <3>1, <3>2 DEF Script, Event, Ready, Restart, LastWord, Spoken, Textless, Opening
    <3> QED
      BY <3>2, <3>3
  <2>2. CASE /\ Backend!HearNothing
             /\ Tell((IF result' = "batch" THEN <<Event("result", "batch")>> ELSE <<>>)
                     \o <<Event("no_speech", "none")>>)
    <3>1. bstate = "TRANSCRIBING" /\ bstate' = "READY" /\ UNCHANGED <<btext, heard>>
          /\ result' \in {"none", "batch"} /\ verdict' = "no_speech"
      BY <2>2 DEF Backend!HearNothing, Backend!Move
    <3>2. PICK s \in Seq(Events) :
            /\ Sent(s)
            /\ \/ /\ Len(s) = 2 /\ s[1] = Event("no_speech", "none")
                  /\ s[2] = Event("state", bstate')
               \/ /\ Len(s) = 3 /\ s[1] = Event("result", "batch")
                  /\ s[2] = Event("no_speech", "none") /\ s[3] = Event("state", bstate')
      <4> DEFINE r == Event("result", "batch")
                 m == Event("no_speech", "none")
      <4>0. r \in Events /\ m \in Events
        BY <1>12
      <4>1. Tell(<<>> \o <<m>>) \/ Tell(<<r>> \o <<m>>)
        BY <2>2
      <4> HIDE DEF r, m
      <4>2. CASE Tell(<<>> \o <<m>>)
        <5>1. <<>> \o <<m>> = <<m>>
          OBVIOUS
        <5>2. Tell(<<m>>)
          BY <4>2, <5>1
        <5> QED
          BY <1>0, <3>1, <4>0, <5>2, SaidOnce DEF m
      <4>3. CASE Tell(<<r>> \o <<m>>)
        <5> DEFINE q == <<r>> \o <<m>>
        <5>1. q \in Seq(Events) /\ Len(q) = 2 /\ q[1] = r /\ q[2] = m
          BY <4>0
        <5>2. Tell(q)
          BY <4>3
        <5> HIDE DEF q
        <5>3. PICK s \in Seq(Events) :
                /\ Sent(s) /\ Len(s) = Len(q) + 1 /\ s[Len(q) + 1] = Event("state", bstate')
                /\ \A k \in 1 .. Len(q) : s[k] = q[k]
          BY <1>0, <3>1, <5>1, <5>2, SaidBefore
        <5>4. s[1] = r /\ s[2] = m
          BY <5>1, <5>3
        <5> QED
          BY <5>1, <5>3, <5>4 DEF r, m
      <4> QED
        BY <4>1, <4>2, <4>3
    <3>3. CASE /\ Len(s) = 2 /\ s[1] = Event("no_speech", "none")
               /\ s[2] = Event("state", bstate')
      <4>1. Script(s)
        BY <2>0, <3>1, <3>3 DEF Script, Event, Ready, Restart, LastWord, Spoken, Textless,
           Opening, Fits, Losses, NeedsText
      <4> QED
        BY <3>2, <4>1
    <3>4. CASE /\ Len(s) = 3 /\ s[1] = Event("result", "batch")
               /\ s[2] = Event("no_speech", "none") /\ s[3] = Event("state", bstate')
      <4>1. \A k \in 1 .. Len(s) :
              /\ s[k].type # "text" /\ ~Restart(s[k])
              /\ Ready(s[k]) => k = 3
              /\ LastWord(s[k]) => k = 2
        BY <3>1, <3>4 DEF Event, Ready, Restart, LastWord, Spoken
      <4>2. 2 \in 1 .. Len(s) /\ s[2].type = "no_speech" /\ Ready(s[3]) /\ Fits(s[2])'
        BY <3>1, <3>4 DEF Event, Ready, Fits
      <4>3. Script(s)
        BY <2>0, <3>1, <3>4, <4>1, <4>2 DEF Script, Textless, Opening, Losses, NeedsText
      <4> QED
        BY <3>2, <4>3
    <3> QED
      BY <3>2, <3>3, <3>4
  <2> QED
    BY <1>7, <2>1, <2>2 DEF BatchDone
<1>8. CASE BackendWorks /\ FailBatch
  <2>1. /\ process = "up" /\ bstate = "TRANSCRIBING" /\ bstate' = "READY" /\ heard' = heard
        /\ result' = result /\ verdict' = "batch_failed" /\ (~heard => btext' = btext)
        /\ heard \in BOOLEAN
    BY <1>0, <1>8 DEF BackendWorks, FailBatch, Backend!LoseTranscript, Backend!Move,
       Backend!TypeOK
  <2>2. result' # "cleaned"
    BY <2>1 DEF DictInv
  <2>3. CASE heard
    <3>1. PICK s \in Seq(Events) :
            /\ Sent(s) /\ Len(s) = 3 /\ s[1] = Event("text", "replace")
            /\ s[2] = Event("failure", "live") /\ s[3] = Event("state", bstate')
      BY <1>0, <1>12, <1>8, <2>1, <2>3, SaidTwice DEF FailBatch
    <3>2. Script(s)
      BY <2>1, <2>2, <2>3, <3>1 DEF Script, Event, Ready, Restart, LastWord, Spoken, Textless,
         Opening, Fits, Losses, Why, NeedsText
    <3> QED
      BY <3>1, <3>2
  <2>4. CASE ~heard
    <3>1. PICK s \in Seq(Events) :
            /\ Sent(s) /\ Len(s) = 2
            /\ s[1] = Event("failure", "batch") /\ s[2] = Event("state", bstate')
      BY <1>0, <1>12, <1>8, <2>1, <2>4, SaidOnce DEF FailBatch
    <3>2. Script(s)
      BY <2>1, <2>2, <2>4, <3>1 DEF Script, Event, Ready, Restart, LastWord, Spoken, Textless,
         Opening, Fits, Losses, Why, NeedsText
    <3> QED
      BY <3>1, <3>2
  <2> QED
    BY <2>1, <2>3, <2>4
<1>9. CASE BackendWorks /\ CleanupDone
  <2>1. /\ process = "up" /\ bstate = "CLEANING" /\ bstate' = "READY" /\ verdict' = "none"
        /\ btext # "nothing"
        /\ result' = "cleaned" \/ (result' = "batch" /\ btext' = btext)
    BY <1>9 DEF BackendWorks, CleanupDone, Backend!Polish, Backend!Move, DictInv
  <2>2. CASE result' = "cleaned"
    <3>1. PICK s \in Seq(Events) :
            /\ Sent(s) /\ Len(s) = 2
            /\ s[1] = Event("result", "cleaned") /\ s[2] = Event("state", bstate')
      BY <1>0, <1>12, <1>9, <2>1, <2>2, SaidOnce DEF CleanupDone
    <3>2. Script(s)
      BY <2>1, <2>2, <3>1 DEF Script, Event, Ready, Restart, LastWord, Spoken, Textless,
         Opening, Fits, Losses, NeedsText
    <3> QED
      BY <3>1, <3>2
  <2>3. CASE result' = "batch" /\ btext' = btext
    <3>1. PICK s \in Seq(Events) : Sent(s) /\ Len(s) = 1 /\ s[1] = Event("state", bstate')
      BY <1>0, <1>9, <2>1, <2>3, SaidMove DEF CleanupDone
    <3>2. Script(s)
      BY <2>1, <2>3, <3>1 DEF Script, Event, Ready, Restart, LastWord, Spoken, Textless,
         Opening, Losses, NeedsText
    <3> QED
      BY <3>1, <3>2
  <2> QED
    BY <2>1, <2>2, <2>3
<1>10. CASE BackendWorks /\ CleanupError
  <2>1. /\ process = "up" /\ bstate = "CLEANING" /\ bstate' = "READY"
        /\ verdict' = "cleanup_failed" /\ result' = "batch"
    BY <1>10 DEF BackendWorks, CleanupError, Backend!LosePolish, Backend!Move, DictInv
  <2>2. PICK s \in Seq(Events) :
          /\ Sent(s) /\ Len(s) = 3 /\ s[1] = Event("text", "replace")
          /\ s[2] = Event("failure", "cleanup") /\ s[3] = Event("state", bstate')
    BY <1>0, <1>12, <1>10, <2>1, SaidTwice DEF CleanupError
  <2>3. Script(s)
    BY <2>1, <2>2 DEF Script, Event, Ready, Restart, LastWord, Spoken, Textless, Opening, Fits,
       Losses, Why, NeedsText
  <2> QED
    BY <2>2, <2>3
<1>11. CASE BackendReads
  <2>1. process = "up"
    BY <1>11 DEF BackendReads
  <2>2. \/ UNCHANGED <<dictVars, events>>
        \/ (Backend!Abandon \/ Backend!StopRecording) /\ Tell(<<>>)
    BY <1>11 DEF BackendReads, Cancelled
  <2>3. CASE (Backend!Abandon \/ Backend!StopRecording) /\ Tell(<<>>)
    BY <1>3, <2>1, <2>3 DEF Backend!Abandon, Backend!StopRecording, Backend!Move,
       Backend!InFlight, Backend!Capture, Backend!Working
  <2> QED
    BY <1>2, <2>1, <2>2, <2>3
<1> QED
  BY <1>1, <1>4, <1>5, <1>6, <1>7, <1>8, <1>9, <1>10, <1>11 DEF BackendWorks

-----------------------------------------------------------------------------
(* What the frontend makes of it                                           *)

\* While no end is on the screen, what a text is added to is a text of the
\* backend's own, and nothing of an older stage is left.
TextInv ==
  Live =>
    /\ card.copyable = (card.text = "stream") /\ card.text # "garbled"
    /\ \A i \in Waiting : events[i].type = "text" /\ events[i].arg = "append" => Streamed(i)
    /\ \A i \in Waiting : Restart(events[i]) => ~Streamed(i)
    /\ bstate \in Opening => ~Streamed(End)
    /\ process = "up" /\ ui # "gone" /\ btext # "nothing" /\ verdict # "no_speech" =>
         Streamed(End)

\* The card has been told, or will be before the n-th event, what READY needs.
Told(n) ==
  /\ verdict = "no_speech" =>
       card.text = "no_speech" \/ \E i \in Before(n) : events[i].type = "no_speech"
  /\ verdict \in Losses =>
       card.failure # "none" \/ \E i \in Before(n) : events[i].type = "failure"
  /\ NeedsText => Streamed(n)

CardStands ==
  /\ card.copyable = (card.text = "stream")
  /\ card.notice = IF verdict = "no_speech" THEN "none" ELSE verdict
  /\ card.text = IF verdict = "no_speech" THEN "no_speech"
                 ELSE IF verdict = "batch_failed" /\ ~heard THEN "no_preview"
                 ELSE "stream"

\* READY comes last, and whoever reads it has read, or reads before it, what it
\* stands for; what explains it has nothing but READY behind it.
EndInv ==
  /\ \A i \in Waiting : Ready(events[i]) => Behind(i) = {} /\ bstate = "READY"
  /\ \A i \in Waiting : LastWord(events[i]) =>
       /\ bstate = "READY" /\ Fits(events[i])
       /\ \A j \in Behind(i) : Ready(events[j])
  /\ Live /\ card.failure # "none" =>
       /\ bstate = "READY" /\ verdict \in Losses /\ card.failure = Why
       /\ \A j \in Waiting : Ready(events[j])
  /\ Live /\ card.text = "no_speech" =>
       /\ bstate = "READY" /\ verdict = "no_speech"
       /\ \A j \in Waiting : Ready(events[j])
  /\ Live => \A i \in Waiting : Ready(events[i]) => Told(i)
  /\ conn.state = "READY" => bstate = "READY" /\ events = <<>> /\ CardStands

\* What is written comes behind what waits.
LEMMA Grown ==
  ASSUME events \in Seq(Events), NEW s \in Seq(Events), events' = events \o s,
         UNCHANGED card
  PROVE  /\ End' = End + Len(s)
         /\ \A i \in Waiting : i \in Waiting' /\ events'[i] = events[i]
         /\ \A k \in 1 .. Len(s) : /\ Len(events) + k \in Waiting'
                                   /\ events'[Len(events) + k] = s[k]
         /\ \A i \in Waiting' : i \in Waiting \/ \E k \in 1 .. Len(s) :
              i = Len(events) + k /\ events'[i] = s[k]
         /\ \A i \in Waiting : Streamed(i)' <=> Streamed(i)
         /\ \A n \in Nat, k \in 1 .. Len(s) + 1 : n = Len(events) + k =>
              (Streamed(n)' <=>
                 Streamed(End) \/ \E l \in 1 .. Len(s) : l < k /\ s[l].type = "text")
         /\ Streamed(End)' <=> Streamed(End) \/ ~Textless(s)
<1> DEFINE m == Len(events)
<1>0. m \in Nat /\ Len(s) \in Nat /\ Len(events') = m + Len(s)
  OBVIOUS
<1>1. \A i \in 1 .. m : i \in 1 .. Len(events') /\ events'[i] = events[i]
  OBVIOUS
<1>2. \A k \in 1 .. Len(s) : m + k \in 1 .. Len(events') /\ events'[m + k] = s[k]
  OBVIOUS
<1> HIDE DEF m
<1>3. ASSUME NEW i \in 1 .. Len(events'), i \notin 1 .. m
      PROVE  \E k \in 1 .. Len(s) : i = m + k /\ events'[i] = s[k]
  <2>1. i - m \in 1 .. Len(s) /\ i = m + (i - m)
    BY <1>0, <1>3
  <2> QED
    BY <1>2, <2>1
<1>4. ASSUME NEW i \in 1 .. m PROVE Streamed(i)' <=> Streamed(i)
  BY <1>0, <1>1, <1>4 DEF Streamed, Before, Waiting, m
<1>5. ASSUME NEW k \in 1 .. Len(s) + 1, NEW n \in Nat, n = m + k
      PROVE  Streamed(n)' <=>
               Streamed(End) \/ \E l \in 1 .. Len(s) : l < k /\ s[l].type = "text"
  <2>1. Streamed(End) <=> card.text = "stream" \/ \E i \in 1 .. m : events[i].type = "text"
    BY <1>0 DEF Streamed, Before, Waiting, End, m
  <2>2. Streamed(n)' <=>
          card.text = "stream" \/ \E i \in 1 .. Len(events') : i < m + k /\ events'[i].type = "text"
    BY <1>5 DEF Streamed, Before, Waiting
  <2>3. ASSUME NEW i \in 1 .. Len(events'), i < m + k, events'[i].type = "text"
        PROVE  \/ \E j \in 1 .. m : events[j].type = "text"
               \/ \E l \in 1 .. Len(s) : l < k /\ s[l].type = "text"
    <3>1. CASE i \in 1 .. m
      BY <1>1, <2>3, <3>1
    <3>2. CASE i \notin 1 .. m
      <4>1. PICK l \in 1 .. Len(s) : i = m + l /\ events'[i] = s[l]
        BY <1>3, <3>2
      <4>2. l < k
        BY <1>0, <2>3, <4>1
      <4>3. s[l].type = "text"
        BY <2>3, <4>1
      <4> QED
        BY <4>2, <4>3
    <3> QED
      BY <3>1, <3>2
  <2>4. ASSUME NEW j \in 1 .. m, events[j].type = "text"
        PROVE  \E i \in 1 .. Len(events') : i < m + k /\ events'[i].type = "text"
    <3>1. j < m + k
      BY <1>0
    <3> QED
      BY <1>1, <2>4, <3>1
  <2>5. ASSUME NEW l \in 1 .. Len(s), l < k, s[l].type = "text"
        PROVE  \E i \in 1 .. Len(events') : i < m + k /\ events'[i].type = "text"
    <3>1. m + l < m + k
      BY <1>0, <2>5
    <3> QED
      BY <1>2, <2>5, <3>1
  <2> QED
    BY <2>1, <2>2, <2>3, <2>4, <2>5
<1>6. Streamed(End)' <=> Streamed(End) \/ ~Textless(s)
  <2>1. PICK n \in Nat : n = m + (Len(s) + 1)
    BY <1>0
  <2>2. n = End' /\ Len(s) + 1 \in 1 .. Len(s) + 1
    BY <1>0, <2>1 DEF End
  <2>3. Streamed(n)' <=> Streamed(End) \/ ~Textless(s)
    <3>1. Streamed(n)' <=>
            Streamed(End) \/ \E l \in 1 .. Len(s) : l < Len(s) + 1 /\ s[l].type = "text"
      BY <1>5, <2>1, <2>2
    <3>2. \A l \in 1 .. Len(s) : l < Len(s) + 1
      BY <1>0
    <3> QED
      BY <3>1, <3>2 DEF Textless
  <2>4. Streamed(n)' <=> Streamed(End)'
    BY <2>2 DEF Streamed, Before
  <2> QED
    BY <2>3, <2>4
<1> QED
  BY <1>0, <1>1, <1>2, <1>3, <1>4, <1>5, <1>6 DEF Waiting, End, m

\* A step that leaves the dictation and the card alone may lose what waits last.
LEMMA Kept ==
  ASSUME events \in Seq(Events), TextInv, EndInv, UNCHANGED <<dictVars, card>>,
         conn'.state = conn.state, Len(events') \in 0 .. Len(events),
         \A i \in 1 .. Len(events') : events'[i] = events[i], events' \in Seq(Events),
         process' = "up" /\ ui' # "gone" =>
           process = "up" /\ ui # "gone" /\ events' = events
  PROVE  TextInv' /\ EndInv'
<1> DEFINE m == Len(events)
           mm == Len(events')
<1>0. m \in Nat /\ mm \in 0 .. m /\ \A i \in 1 .. mm : i \in 1 .. m /\ events'[i] = events[i]
  OBVIOUS
<1>1. Live' <=> Live
  BY DEF Live
<1>2. ASSUME NEW i \in 1 .. mm PROVE Streamed(i)' <=> Streamed(i)
  BY <1>0 DEF Streamed, Before, Waiting
<1>3. /\ Streamed(End)' => Streamed(End)
      /\ events' = events => (Streamed(End)' <=> Streamed(End))
  <2>1. Streamed(End) <=> card.text = "stream" \/ \E i \in 1 .. m : events[i].type = "text"
    BY <1>0 DEF Streamed, Before, Waiting, End
  <2>2. Streamed(End)' <=> card.text = "stream" \/ \E i \in 1 .. mm : events'[i].type = "text"
    BY <1>0 DEF Streamed, Before, Waiting, End
  <2> QED
    BY <1>0, <2>1, <2>2
<1>4. /\ UNCHANGED <<bstate, heard, btext, result, verdict, card>>
  BY DEF dictVars
<1>5. TextInv'
  <2> SUFFICES ASSUME Live'
               PROVE  /\ card'.copyable = (card'.text = "stream") /\ card'.text # "garbled"
                      /\ \A i \in 1 .. mm : events'[i].type = "text" /\ events'[i].arg = "append"
                           => Streamed(i)'
                      /\ \A i \in 1 .. mm : Restart(events'[i]) => ~Streamed(i)'
                      /\ bstate' \in Opening => ~Streamed(End)'
                      /\ process' = "up" /\ ui' # "gone" /\ btext' # "nothing"
                           /\ verdict' # "no_speech" => Streamed(End)'
    BY DEF TextInv, Waiting, Restart
  <2> QED
    BY <1>0, <1>1, <1>2, <1>3, <1>4 DEF TextInv, Waiting
<1>6. EndInv'
  <2>1. ASSUME NEW i \in 1 .. mm, Ready(events'[i]) PROVE mm = m /\ i = m /\ bstate = "READY"
    <3>1. {j \in 1 .. m : j > i} = {} /\ bstate = "READY"
      BY <1>0, <2>1 DEF EndInv, Waiting, Behind
    <3>2. m \in 1 .. m /\ ~(m > i)
      BY <1>0, <3>1
    <3> QED
      BY <1>0, <3>1, <3>2
  <2>2. ASSUME NEW i \in 1 .. mm, LastWord(events'[i])
        PROVE  /\ bstate = "READY" /\ Fits(events'[i])
               /\ \A j \in 1 .. mm : j > i => Ready(events'[j])
    <3>1. /\ bstate = "READY" /\ Fits(events[i])
          /\ \A j \in 1 .. m : j > i => Ready(events[j])
      BY <1>0, <2>2 DEF EndInv, Waiting, Behind
    <3> QED
      BY <1>0, <3>1
  <2>3. ASSUME Live, NEW i \in 1 .. mm, Ready(events'[i]) PROVE Told(i)'
    <3>1. Told(i)
      BY <1>0, <2>3 DEF EndInv, Waiting
    <3>2. \A j : j \in Before(i)' <=> j \in Before(i)
      BY <1>0 DEF Before, Waiting
    <3>3. \A j \in Before(i) : events'[j] = events[j]
      BY <1>0, <3>2 DEF Before, Waiting
    <3> QED
      BY <1>2, <1>4, <3>1, <3>2, <3>3 DEF Told, NeedsText
  <2>4. conn'.state = "READY" => bstate' = "READY" /\ events' = <<>> /\ CardStands'
    <3>1. events = <<>> => events' = <<>>
      BY <1>0
    <3> QED
      BY <1>4, <3>1 DEF EndInv, CardStands
  <2>5. /\ Live /\ card.failure # "none" =>
             verdict \in Losses /\ card.failure = Why /\ \A j \in 1 .. mm : Ready(events'[j])
        /\ Live /\ card.text = "no_speech" =>
             verdict = "no_speech" /\ \A j \in 1 .. mm : Ready(events'[j])
    BY <1>0 DEF EndInv, Waiting
  <2>6. Why' = Why
    BY <1>4 DEF Why
  <2>7. \A i \in 1 .. mm : Ready(events'[i]) => Behind(i)' = {}
    BY <1>0, <2>1 DEF Behind, Waiting
  <2>8. (\A i \in Waiting : Ready(events[i]) => Behind(i) = {} /\ bstate = "READY")'
    BY <1>4, <2>1, <2>7 DEF Waiting, Ready
  <2>9. (\A i \in Waiting : LastWord(events[i]) =>
           /\ bstate = "READY" /\ Fits(events[i])
           /\ \A j \in Behind(i) : Ready(events[j]))'
    <3>1. ASSUME NEW i \in 1 .. mm, Fits(events'[i])
          PROVE  LET e == events'[i] IN
                   /\ e.type = "failure" => verdict' \in Losses /\ e.arg = Why'
                   /\ e.type = "no_speech" => verdict' = "no_speech"
                   /\ e.type = "result" => result' = "cleaned"
      BY <1>4, <2>6, <3>1 DEF Fits
    <3> QED
      BY <1>4, <2>2, <3>1 DEF Waiting, Behind, LastWord, Ready, Spoken, Fits, Losses
  <2>10. (Live => \A i \in Waiting : Ready(events[i]) => Told(i))'
    BY <1>1, <2>3 DEF Waiting, Ready
  <2>11. /\ (Live /\ card.failure # "none" =>
                /\ bstate = "READY" /\ verdict \in Losses /\ card.failure = Why
                /\ \A j \in Waiting : Ready(events[j]))'
         /\ (Live /\ card.text = "no_speech" =>
                /\ bstate = "READY" /\ verdict = "no_speech"
                /\ \A j \in Waiting : Ready(events[j]))'
    BY <1>1, <1>4, <2>5, <2>6 DEF EndInv, Waiting, Ready, Losses
  <2> QED
    BY <2>4, <2>8, <2>9, <2>10, <2>11 DEF EndInv
<1> QED
  BY <1>5, <1>6

\* A script behind what waits keeps what is said of the texts.
LEMMA ScriptOfTexts ==
  ASSUME events \in Seq(Events), process \in {"starting", "up", "down"},
         NEW s \in Seq(Events), events' = events \o s, Script(s),
         DictInv, TextInv, conn'.state = conn.state, UNCHANGED <<card, ui>>, ui # "gone"
  PROVE  TextInv'
<1> DEFINE m == Len(events)
<1>0. m \in Nat /\ Len(s) \in Nat
  OBVIOUS
<1>1. Live' <=> Live
  BY DEF Live
<1>2. ASSUME Live, NEW k \in 1 .. Len(s), s[k].type = "text", s[k].arg = "append"
      PROVE  Streamed(End)
  <2>1. process = "up" /\ btext # "nothing" /\ bstate # "READY"
    BY <1>2 DEF Script
  <2>2. verdict = "none"
    BY <2>1 DEF DictInv
  <2> QED
    BY <1>2, <2>1, <2>2 DEF TextInv
<1>3. ASSUME Live, NEW k \in 1 .. Len(s), Restart(s[k])
      PROVE  ~Streamed(End) /\ Textless(s)
  BY <1>3 DEF Script, TextInv
<1>4. ASSUME Live, bstate' \in Opening PROVE ~Streamed(End)'
  BY <1>4, Grown DEF Script, TextInv
<1>5. ASSUME Live, process' = "up", btext' # "nothing", verdict' # "no_speech"
      PROVE  Streamed(End)'
  <2>1. CASE Textless(s)
    <3>1. process = "up" /\ btext # "nothing"
      BY <1>5, <2>1 DEF Script
    <3>2. verdict # "no_speech"
      BY <1>5 DEF Script, DictInv, dictVars
    <3> QED
      BY <1>5, <3>1, <3>2, Grown DEF TextInv
  <2> QED
    BY <2>1, Grown
<1>6. ASSUME Live, NEW i \in Waiting', i \in Waiting
      PROVE  /\ events'[i].type = "text" /\ events'[i].arg = "append" => Streamed(i)'
             /\ Restart(events'[i]) => ~Streamed(i)'
  BY <1>6, Grown DEF TextInv
<1>7. ASSUME Live, NEW i \in Waiting', i \notin Waiting
      PROVE  /\ events'[i].type = "text" /\ events'[i].arg = "append" => Streamed(i)'
             /\ Restart(events'[i]) => ~Streamed(i)'
  <2>1. PICK k \in 1 .. Len(s) : i = m + k /\ events'[i] = s[k]
    BY <1>7, Grown
  <2>2. i \in Nat /\ k \in 1 .. Len(s) + 1
    BY <1>0, <2>1
  <2>3. Streamed(i)' <=> Streamed(End) \/ \E l \in 1 .. Len(s) : l < k /\ s[l].type = "text"
    BY <2>1, <2>2, Grown
  <2> QED
    BY <1>2, <1>3, <1>7, <2>1, <2>3 DEF Textless
<1>8. \A i \in Waiting' :
        /\ Live /\ events'[i].type = "text" /\ events'[i].arg = "append" => Streamed(i)'
        /\ Live /\ Restart(events'[i]) => ~Streamed(i)'
  BY <1>6, <1>7
<1>9. Live => (\A i \in Waiting : events[i].type = "text" /\ events[i].arg = "append"
                                    => Streamed(i))'
  BY <1>8 DEF Waiting
<1>10. Live => (\A i \in Waiting : Restart(events[i]) => ~Streamed(i))'
  BY <1>8 DEF Waiting, Restart
<1>11. Live => card'.copyable = (card'.text = "stream") /\ card'.text # "garbled"
  BY DEF TextInv
<1> QED
  BY <1>1, <1>4, <1>5, <1>9, <1>10, <1>11 DEF TextInv

\* A script is the first to speak of an end, and says before READY what it means.
LEMMA ScriptOfEnds ==
  ASSUME events \in Seq(Events), process \in {"starting", "up", "down"},
         NEW s \in Seq(Events), events' = events \o s, Script(s), bstate # "READY",
         DictInv, TextInv, EndInv, conn'.state = conn.state, UNCHANGED <<card, ui>>,
         ui # "gone"
  PROVE  EndInv'
<1> DEFINE m == Len(events)
<1>0. m \in Nat /\ Len(s) \in Nat /\ Len(events') = m + Len(s)
  OBVIOUS
<1>7. Waiting' = 1 .. (m + Len(s))
  BY <1>0 DEF Waiting
<1> HIDE DEF m
<1>1. /\ Live' <=> Live
      /\ Live => card.failure = "none" /\ card.text # "no_speech"
      /\ conn'.state # "READY"
      /\ \A i \in Waiting : ~Ready(events[i]) /\ ~LastWord(events[i])
  BY DEF Live, EndInv
<1>2. ASSUME NEW i \in Waiting', Ready(events'[i]) \/ LastWord(events'[i])
      PROVE  \E k \in 1 .. Len(s) : i = m + k /\ events'[i] = s[k]
  <2>1. i \notin Waiting
    BY <1>1, <1>2, Grown
  <2> QED
    BY <2>1, Grown DEF m
<1>3. ASSUME NEW i \in Waiting', Ready(events'[i])
      PROVE  /\ i = m + Len(s) /\ bstate' = "READY" /\ Len(s) \in 1 .. Len(s)
             /\ Ready(s[Len(s)])
  BY <1>0, <1>2, <1>3 DEF Script
<1>4. (\A i \in Waiting : Ready(events[i]) => Behind(i) = {} /\ bstate = "READY")'
  <2>1. ASSUME NEW i \in Waiting', Ready(events'[i]) PROVE Behind(i)' = {}
    <3>1. Behind(i)' = {j \in Waiting' : j > i}
      BY DEF Behind
    <3>2. ASSUME NEW j \in Waiting' PROVE ~(j > i)
      <4>1. i = m + Len(s)
        BY <1>3, <2>1
      <4>2. j \in 1 .. (m + Len(s))
        BY <1>7
      <4> QED
        BY <1>0, <4>1, <4>2
    <3> QED
      BY <3>1, <3>2
  <2> QED
    BY <1>3, <2>1 DEF Ready
<1>5. (\A i \in Waiting : LastWord(events[i]) =>
         /\ bstate = "READY" /\ Fits(events[i])
         /\ \A j \in Behind(i) : Ready(events[j]))'
  <2>1. ASSUME NEW i \in Waiting', LastWord(events'[i])
        PROVE  /\ bstate' = "READY" /\ \E k \in 1 .. Len(s) : events'[i] = s[k] /\ Fits(s[k])'
               /\ \A j \in Waiting' : j > i => Ready(events'[j])
    <3>1. PICK k \in 1 .. Len(s) : i = m + k /\ events'[i] = s[k]
      BY <1>2, <2>1
    <3>2. bstate' = "READY" /\ Fits(s[k])' /\ k + 1 = Len(s) /\ Ready(s[Len(s)])
      BY <2>1, <3>1 DEF Script
    <3>3. ASSUME NEW j \in Waiting', j > i PROVE Ready(events'[j])
      <4>1. j = m + Len(s) /\ Len(s) \in 1 .. Len(s)
        <5>1. j \in 1 .. (m + Len(s)) /\ j > m + k
          BY <1>7, <3>1, <3>3
        <5>2. ASSUME NEW a \in Nat, NEW b \in Nat, NEW c \in 1 .. b, NEW d \in 1 .. (a + b),
                     c + 1 = b, d > a + c
              PROVE  d = a + b /\ b \in 1 .. b
          BY <5>2
        <5> QED
          BY <1>0, <3>2, <5>1, <5>2
      <4> QED
        BY <3>2, <4>1, Grown DEF m
    <3> QED
      BY <3>1, <3>2, <3>3
  <2>2. ASSUME NEW i \in Waiting', NEW k \in 1 .. Len(s), events'[i] = s[k], Fits(s[k])'
        PROVE  LET e == events'[i] IN
                 /\ e.type = "failure" => verdict' \in Losses' /\ e.arg = Why'
                 /\ e.type = "no_speech" => verdict' = "no_speech"
                 /\ e.type = "result" => result' = "cleaned"
    BY <2>2 DEF Fits
  <2> QED
    BY <2>1, <2>2 DEF Waiting, Behind, LastWord, Ready, Spoken, Fits
<1>6. (Live => \A i \in Waiting : Ready(events[i]) => Told(i))'
  <2> SUFFICES ASSUME Live, NEW i \in Waiting', Ready(events'[i]) PROVE Told(i)'
    BY <1>1 DEF Waiting, Ready
  <2> DEFINE z == Len(s)
  <2>1. i = m + z /\ bstate' = "READY" /\ z \in 1 .. Len(s) /\ Ready(s[z])
    BY <1>3
  <2>2. ASSUME NEW k \in 1 .. Len(s), s[k].type \in {"no_speech", "failure", "text"}
        PROVE  \E j \in Before(i)' : events'[j] = s[k]
    <3>1. k # z
      BY <2>1, <2>2 DEF Ready
    <3>2. m + k \in Waiting' /\ events'[m + k] = s[k]
      BY Grown DEF m
    <3>3. m + k < i
      BY <1>0, <2>1, <3>1
    <3> QED
      BY <3>2, <3>3 DEF Before
  <2>3. verdict' = "no_speech" => \E j \in Before(i)' : events'[j].type = "no_speech"
    BY <2>1, <2>2 DEF Script
  <2>4. verdict' \in Losses => \E j \in Before(i)' : events'[j].type = "failure"
    BY <2>1, <2>2 DEF Script
  <2>5. ASSUME NeedsText' PROVE Streamed(i)'
    <3>1. btext # "nothing" \/ ~Textless(s)
      BY <2>1, <2>5 DEF Script
    <3>2. CASE ~Textless(s)
      <4>1. PICK k \in 1 .. Len(s) : s[k].type = "text"
        BY <3>2 DEF Textless
      <4>2. \E j \in Before(i)' : events'[j].type = "text"
        BY <2>2, <4>1
      <4> QED
        BY <4>2 DEF Streamed
    <3>3. CASE btext # "nothing"
      <4>1. process = "up"
        BY <2>1 DEF Script, Ready
      <4>2. verdict = "none"
        BY DEF DictInv
      <4>3. Streamed(End)
        BY <3>3, <4>1, <4>2 DEF TextInv
      <4>4. i \in Nat /\ z \in 1 .. Len(s) + 1
        BY <1>0, <2>1
      <4> QED
        BY <2>1, <4>3, <4>4, Grown DEF m
    <3> QED
      BY <3>1, <3>2, <3>3
  <2> QED
    BY <2>3, <2>4, <2>5 DEF Told, Losses, Before, Waiting
<1> QED
  BY <1>1, <1>4, <1>5, <1>6 DEF EndInv

\* Whatever the backend does, and however it ends.
LEMMA BackendSays ==
  ASSUME FrontendTypeOK, FrontendTypeOK', DictInv, DictInv', TextInv, EndInv, BackendActs
  PROVE  TextInv' /\ EndInv'
<1>0. /\ events \in Seq(Events) /\ events' \in Seq(Events)
      /\ process \in {"starting", "up", "down"}
  BY DEF FrontendTypeOK, WireTypeOK
<1>1. conn'.state = conn.state /\ ui' = ui /\ UNCHANGED card
  BY BackendMoves DEF cardVars
<1>2. CASE BackendDies
  <2>1. PICK n \in 0 .. Len(events) : events' = SubSeq(events, 1, n)
    BY <1>2 DEF BackendDies
  <2>2. /\ Len(events') \in 0 .. Len(events)
        /\ \A i \in 1 .. Len(events') : events'[i] = events[i]
    BY <1>0, <2>1
  <2>3. UNCHANGED dictVars /\ process' # "up"
    BY <1>2 DEF BackendDies
  <2> QED
    BY <1>0, <1>1, <2>2, <2>3, Kept
<1>3. CASE Hello \/ BackendWorks \/ BackendReads
  <2>1. PICK s \in Seq(Events) : Sent(s) /\ Script(s)
    BY <1>3, Scripted
  <2>2. process \in {"starting", "up"}
    BY <1>3 DEF Hello, BackendWorks, BackendReads
  <2>3. CASE bstate = "READY"
    <3>1. UNCHANGED dictVars /\ s = <<>> /\ process = "up"
      BY <2>1, <2>2, <2>3 DEF Script, DictInv
    <3>2. events \o <<>> = events
      BY <1>0
    <3>3. events' = events
      BY <2>1, <3>1, <3>2 DEF Sent, DictInv
    <3>4. Len(events') \in 0 .. Len(events)
      BY <1>0, <3>3
    <3> QED
      BY <1>0, <1>1, <3>1, <3>3, <3>4, Kept
  <2>4. CASE bstate # "READY" /\ ui # "gone"
    BY <1>0, <1>1, <2>1, <2>4, ScriptOfTexts, ScriptOfEnds DEF Sent
  <2>5. CASE bstate # "READY" /\ ui = "gone"
    <3>1. events = <<>> /\ events' = <<>>
      BY <2>1, <2>5 DEF Sent, DictInv
    <3>2. /\ Live' <=> Live
          /\ Live => card.failure = "none" /\ card.text # "no_speech"
          /\ conn'.state # "READY"
      BY <1>1, <2>5 DEF Live, EndInv
    <3>3. Waiting = {} /\ Waiting' = {} /\ Before(End) = {} /\ Before(End)' = {}
      BY <3>1 DEF Waiting, Before
    <3>4. (Streamed(End) <=> card.text = "stream") /\ (Streamed(End)' <=> card'.text = "stream")
      BY <3>3 DEF Streamed
    <3>5. TextInv'
      BY <1>1, <2>1, <2>5, <3>2, <3>3, <3>4 DEF TextInv, Script
    <3>6. EndInv'
      BY <1>1, <3>2, <3>3 DEF EndInv
    <3> QED
      BY <3>5, <3>6
  <2> QED
    BY <2>3, <2>4, <2>5
<1> QED
  BY <1>2, <1>3 DEF BackendActs

\* The card after an event that leaves the connection alive.
LEMMA Shown ==
  ASSUME card \in Cards, conn \in Conns, NEW e \in Events, NEW n \in Conns,
         ~conn.failed, n.state = conn.state \/ (e.type = "state" /\ n.state = e.arg),
         n.state \notin Terminal, card.text # "garbled",
         card.copyable = (card.text = "stream"),
         e.type = "text" /\ e.arg = "append" => card.text = "stream",
         Restart(e) => card.text # "stream"
  PROVE  LET c == Rendered(e, n) IN
         /\ c.copyable = (c.text = "stream") /\ c.text # "garbled"
         /\ e.type = "no_speech" => c.text = "no_speech"
         /\ e.type # "no_speech" =>
              /\ c.text = "stream" <=> card.text = "stream" \/ e.type = "text"
              /\ c.text = "no_speech" => card.text = "no_speech"
         /\ e.type = "failure" => c.failure = e.arg
         /\ e.type # "failure" => c.failure \in {"none", card.failure}
<1> DEFINE c == CASE e.type = "text" -> OnText(card, e.arg)
                  [] e.type = "no_speech" -> OnNoSpeech(card)
                  [] e.type = "preview_lost" -> OnPreviewLost(card, conn.state)
                  [] e.type = "failure" -> OnFailure(card, e.arg)
                  [] OTHER -> card
<1>1. Rendered(e, n) = IF n.state = conn.state THEN c ELSE OnState(c, conn.state, n.state)
  BY DEF Rendered
<1>2. CASE n.state = conn.state
  <2>1. Rendered(e, n) = c
    BY <1>1, <1>2
  <2>2. CASE e.type = "text"
    <3>1. e.arg \in {"append", "replace"}
      BY <2>2, EventArgument
    <3> QED
      BY <2>1, <2>2, <3>1 DEF OnText, Cards
  <2>3. CASE e.type = "no_speech"
    BY <2>1, <2>3 DEF OnNoSpeech, SetText, Cards
  <2>4. CASE e.type = "preview_lost"
    BY <2>1, <2>4 DEF OnPreviewLost, Cards
  <2>5. CASE e.type = "failure"
    BY <2>1, <2>5 DEF OnFailure, Cards
  <2>6. CASE e.type \notin {"text", "no_speech", "preview_lost", "failure"}
    BY <2>1, <2>6
  <2> QED
    BY <2>2, <2>3, <2>4, <2>5, <2>6
<1>3. CASE n.state # conn.state
  <2>1. e.type = "state" /\ n.state = e.arg /\ c = card
    BY <1>3
  <2>2. Rendered(e, n) = OnState(card, conn.state, n.state)
    BY <1>1, <1>3, <2>1
  <2>3. n.state \in {"INITIALIZING", "WARMING", "RECORDING", "TRANSCRIBING", "CLEANING"}
    BY DEF Conns, Backend!States, Backend!InFlight, Backend!Capture, Backend!Working,
       Backend!Terminal, Terminal
  <2>4. n.state \in {"WARMING", "RECORDING"} => card.text # "stream"
    BY <2>1 DEF Restart
  <2> DEFINE d == OnState(card, conn.state, n.state)
  <2>5. /\ d.text \in {card.text, "placeholder"} /\ d.failure \in {"none", card.failure}
        /\ d.copyable = (d.text = "stream")
        /\ d.text = "stream" <=> card.text = "stream"
    <3>1. CASE n.state = "WARMING"
      BY <2>4, <3>1 DEF OnState, ShowPlaceholder, SetText, Cards
    <3>2. CASE n.state = "RECORDING"
      BY <2>4, <3>2 DEF OnState, ShowPlaceholder, SetText, Cards
    <3>3. CASE n.state = "TRANSCRIBING"
      BY <3>3 DEF OnState, Cards
    <3>4. CASE n.state \in {"INITIALIZING", "CLEANING"}
      BY <3>4 DEF OnState, Cards
    <3> QED
      BY <2>3, <3>1, <3>2, <3>3, <3>4
  <2> HIDE DEF d
  <2> QED
    <3>1. Rendered(e, n) = d
      BY <2>2 DEF d
    <3> QED
      BY <2>1, <2>5, <3>1
<1> QED
  BY <1>2, <1>3

\* The card that READY leaves.
LEMMA ReadyStands ==
  ASSUME card \in Cards, conn \in Conns, Backend!TypeOK,
         card.copyable = (card.text = "stream"),
         card.failure # "none" => verdict \in Losses /\ card.failure = Why,
         verdict = "no_speech" => card.text = "no_speech",
         verdict \in Losses => card.failure # "none",
         NeedsText => card.text = "stream",
         card' = OnState(card, conn.state, "READY"), UNCHANGED dictVars
  PROVE  CardStands'
<1> DEFINE ended == conn.state \in Capture /\ "READY" \notin Capture
           d == [card EXCEPT !.preview = card.preview /\ ~ended,
                             !.notice = IF ended THEN "none" ELSE card.notice]
<1>1. /\ d \in Cards /\ d.text = card.text /\ d.copyable = card.copyable
      /\ d.failure = card.failure
  BY DEF Cards
<1> HIDE DEF d
<1>2. card' = IF d.failure = "none" THEN [d EXCEPT !.notice = "none"] ELSE ApplyFailure(d)
  BY DEF OnState, d
<1>3. verdict \in {"none", "no_speech", "batch_failed", "cleanup_failed"}
  BY DEF Backend!TypeOK
<1>4. CardStands' <=>
        /\ card'.copyable = (card'.text = "stream")
        /\ card'.notice = IF verdict = "no_speech" THEN "none" ELSE verdict
        /\ card'.text = IF verdict = "no_speech" THEN "no_speech"
                        ELSE IF verdict = "batch_failed" /\ ~heard THEN "no_preview"
                        ELSE "stream"
  BY DEF CardStands, dictVars
<1>5. CASE card.failure = "none"
  <2>1. verdict \in {"none", "no_speech"}
    BY <1>3, <1>5 DEF Losses
  <2>2. /\ card'.text = card.text /\ card'.copyable = card.copyable
        /\ card'.notice = "none"
    BY <1>1, <1>2, <1>5 DEF Cards
  <2> QED
    BY <1>4, <2>1, <2>2 DEF NeedsText
<1>6. CASE card.failure = "cleanup"
  <2>1. verdict = "cleanup_failed"
    BY <1>3, <1>6 DEF Losses, Why
  <2>2. /\ card'.text = card.text /\ card'.copyable = card.copyable
        /\ card'.notice = "cleanup_failed"
    BY <1>1, <1>2, <1>6 DEF ApplyFailure, Cards
  <2> QED
    BY <1>4, <2>1, <2>2 DEF NeedsText
<1>7. CASE card.failure = "live"
  <2>1. verdict = "batch_failed" /\ heard
    BY <1>3, <1>7 DEF Losses, Why
  <2>2. /\ card'.text = card.text /\ card'.copyable = card.copyable
        /\ card'.notice = "batch_failed"
    BY <1>1, <1>2, <1>7 DEF ApplyFailure, Cards
  <2> QED
    BY <1>4, <2>1, <2>2 DEF NeedsText
<1>8. CASE card.failure = "batch"
  <2>1. verdict = "batch_failed" /\ ~heard
    BY <1>3, <1>8 DEF Losses, Why
  <2>2. card'.text = "no_preview" /\ ~card'.copyable /\ card'.notice = "batch_failed"
    BY <1>1, <1>2, <1>8 DEF ApplyFailure, SetText, Cards
  <2>3. card'.copyable = FALSE
    BY <1>1, <1>2, <1>8 DEF ApplyFailure, SetText, Cards
  <2> QED
    BY <1>4, <2>1, <2>2, <2>3
<1> QED
  BY <1>3, <1>5, <1>6, <1>7, <1>8 DEF Losses, Why

\* The queue after the first event is taken.
LEMMA Taken ==
  ASSUME events \in Seq(Events), events # <<>>, events' = Tail(events)
  PROVE  /\ events' \in Seq(Events) /\ Len(events') + 1 = Len(events)
         /\ 1 \in Waiting /\ events[1] = Head(events) /\ events[1] \in Events
         /\ \A i \in Waiting' : i + 1 \in Waiting /\ events'[i] = events[i + 1]
         /\ \A i \in Waiting : i # 1 => i - 1 \in Waiting' /\ events'[i - 1] = events[i]
         /\ \A i \in Nat \ {0}, T \in {"text", "no_speech", "failure"} :
              (\E j \in Before(i + 1) : events[j].type = T) <=>
                events[1].type = T \/ \E j \in Before(i)' : events'[j].type = T
<1> DEFINE m == Len(events)
<1>1. /\ events' \in Seq(Events) /\ Len(events') + 1 = m /\ m \in Nat \ {0}
      /\ Len(events') \in Nat /\ events[1] = Head(events) /\ events[1] \in Events
  OBVIOUS
<1>2. \A i \in 1 .. Len(events') : events'[i] = events[i + 1]
  OBVIOUS
<1> HIDE DEF m
<1>3. ASSUME NEW i \in 1 .. Len(events') PROVE i + 1 \in 1 .. m
  BY <1>1
<1>4. ASSUME NEW i \in 1 .. m, i # 1
      PROVE  i - 1 \in 1 .. Len(events') /\ events'[i - 1] = events[i]
  <2>1. i - 1 \in 1 .. Len(events') /\ (i - 1) + 1 = i
    BY <1>1, <1>4
  <2> QED
    BY <1>2, <2>1
<1>5. ASSUME NEW i \in Nat \ {0}, NEW T \in {"text", "no_speech", "failure"}
      PROVE  (\E j \in 1 .. m : j < i + 1 /\ events[j].type = T) <=>
               events[1].type = T
               \/ \E j \in 1 .. Len(events') : j < i /\ events'[j].type = T
  <2>1. ASSUME NEW j \in 1 .. m, j < i + 1, events[j].type = T, j # 1
        PROVE  \E k \in 1 .. Len(events') : k < i /\ events'[k].type = T
    <3>1. j - 1 \in 1 .. Len(events') /\ events'[j - 1] = events[j]
      BY <1>4, <2>1
    <3>2. j - 1 < i
      BY <1>1, <2>1
    <3> QED
      BY <2>1, <3>1, <3>2
  <2>2. ASSUME NEW k \in 1 .. Len(events'), k < i, events'[k].type = T
        PROVE  \E j \in 1 .. m : j < i + 1 /\ events[j].type = T
    <3>1. k + 1 \in 1 .. m /\ events[k + 1].type = T
      BY <1>2, <1>3, <2>2
    <3>2. k + 1 < i + 1
      BY <1>1, <2>2
    <3> QED
      BY <3>1, <3>2
  <2>3. 1 \in 1 .. m /\ 1 < i + 1
    BY <1>1
  <2> QED
    BY <2>1, <2>2, <2>3
<1>6. ASSUME NEW i \in Nat \ {0}, NEW T \in {"text", "no_speech", "failure"}
      PROVE  (\E j \in Before(i + 1) : events[j].type = T) <=>
                events[1].type = T \/ \E j \in Before(i)' : events'[j].type = T
  <2>1. \A j : j \in Before(i + 1) <=> j \in 1 .. m /\ j < i + 1
    BY DEF Before, Waiting, m
  <2>2. \A j : j \in Before(i)' <=> j \in 1 .. Len(events') /\ j < i
    BY DEF Before, Waiting
  <2>3. (\E j \in 1 .. m : j < i + 1 /\ events[j].type = T) <=>
          events[1].type = T
          \/ \E j \in 1 .. Len(events') : j < i /\ events'[j].type = T
    BY <1>5
  <2> QED
    BY <2>1, <2>2, <2>3, Zenon
<1>7. 1 \in 1 .. m
  BY <1>1
<1> QED
  BY <1>1, <1>2, <1>3, <1>4, <1>6, <1>7 DEF Waiting, m

\* READY and what explains it are still the last words of what is left.
LEMMA ShiftsEnds ==
  ASSUME events \in Seq(Events), EndInv, events # <<>>, events' = Tail(events),
         UNCHANGED dictVars
  PROVE  /\ (\A i \in Waiting : Ready(events[i]) => Behind(i) = {} /\ bstate = "READY")'
         /\ (\A i \in Waiting : LastWord(events[i]) =>
               /\ bstate = "READY" /\ Fits(events[i])
               /\ \A j \in Behind(i) : Ready(events[j]))'
<1>0. events \in Seq(Events)
  OBVIOUS
<1>1. UNCHANGED <<bstate, heard, btext, result, verdict>>
  BY DEF dictVars
<1>3. (\A i \in Waiting : Ready(events[i]) => Behind(i) = {} /\ bstate = "READY")'
  <2> SUFFICES ASSUME NEW i \in Waiting', Ready(events'[i])
               PROVE  Behind(i)' = {} /\ bstate' = "READY"
    BY DEF Waiting, Ready
  <2>1. i + 1 \in Waiting /\ Ready(events[i + 1])
    BY <1>0, Taken
  <2>2. Behind(i + 1) = {} /\ bstate = "READY"
    BY <2>1 DEF EndInv
  <2>3. ASSUME NEW j \in Waiting', j > i PROVE FALSE
    <3>1. j + 1 \in Waiting /\ i \in Nat /\ j \in Nat
      BY <1>0, <2>3, Taken DEF Waiting
    <3>2. j + 1 > i + 1
      BY <2>3, <3>1
    <3> QED
      BY <2>2, <3>1, <3>2 DEF Behind
  <2>4. Behind(i)' = {j \in Waiting' : j > i}
    BY DEF Behind
  <2> QED
    BY <1>1, <2>2, <2>3, <2>4
<1>4. (\A i \in Waiting : LastWord(events[i]) =>
         /\ bstate = "READY" /\ Fits(events[i])
         /\ \A j \in Behind(i) : Ready(events[j]))'
  <2>1. ASSUME NEW i \in Waiting', LastWord(events'[i])
        PROVE  /\ bstate = "READY" /\ Fits(events[i + 1]) /\ events'[i] = events[i + 1]
               /\ \A j \in Waiting' : j > i => Ready(events'[j])
    <3>1. i + 1 \in Waiting /\ events'[i] = events[i + 1]
      BY <1>0, Taken
    <3>2. /\ bstate = "READY" /\ Fits(events[i + 1])
          /\ \A j \in Behind(i + 1) : Ready(events[j])
      BY <2>1, <3>1 DEF EndInv
    <3>3. ASSUME NEW j \in Waiting', j > i PROVE Ready(events'[j])
      <4>1. j + 1 \in Waiting /\ events'[j] = events[j + 1] /\ i \in Nat /\ j \in Nat
        BY <1>0, Taken DEF Waiting
      <4>2. j + 1 > i + 1
        BY <3>3, <4>1
      <4> QED
        BY <3>2, <4>1, <4>2 DEF Behind
    <3> QED
      BY <3>1, <3>2, <3>3
  <2>2. ASSUME NEW i \in Waiting', Fits(events[i + 1]), events'[i] = events[i + 1]
        PROVE  LET x == events'[i] IN
                 /\ x.type = "failure" => verdict' \in Losses' /\ x.arg = Why'
                 /\ x.type = "no_speech" => verdict' = "no_speech"
                 /\ x.type = "result" => result' = "cleaned"
    BY <1>1, <2>2 DEF Fits, Why, Losses
  <2>3. ASSUME NEW i \in Waiting', LastWord(events'[i])
        PROVE  LET x == events'[i] IN
                 /\ bstate' = "READY"
                 /\ x.type = "failure" => verdict' \in Losses' /\ x.arg = Why'
                 /\ x.type = "no_speech" => verdict' = "no_speech"
                 /\ x.type = "result" => result' = "cleaned"
                 /\ \A j \in Waiting' : j > i => Ready(events'[j])
    BY <1>1, <2>1, <2>2, <2>3
  <2> QED
    BY <2>3 DEF Waiting, Behind, LastWord, Ready, Spoken, Fits
<1> QED
  BY <1>3, <1>4

\* The invariants a reader leaves whose connection is no longer alive.
LEMMA ReadsLast ==
  ASSUME FrontendTypeOK, DictInv, TextInv, EndInv, events # <<>>, events' = Tail(events),
         NEW n \in Conns, n = Handle(conn, events[1]), conn' = n,
         card' = Rendered(events[1], n), UNCHANGED <<dictVars, process, ui>>, ~Live'
  PROVE  TextInv' /\ EndInv'
<1> DEFINE e == events[1]
<1>0. /\ events \in Seq(Events) /\ conn \in Conns /\ card \in Cards /\ Backend!TypeOK
      /\ e \in Events
  BY Taken DEF FrontendTypeOK, WireTypeOK, CardTypeOK, Conns, Cards
<1>1. UNCHANGED <<bstate, heard, btext, result, verdict>>
  BY DEF dictVars
<1> HIDE DEF e
<1>2. TextInv'
  BY DEF TextInv
<1>5. conn'.state = "READY" => bstate' = "READY" /\ events' = <<>> /\ CardStands'
  <2> SUFFICES ASSUME n.state = "READY"
               PROVE  bstate' = "READY" /\ events' = <<>> /\ CardStands'
    OBVIOUS
  <2>1. Live
    <3>1. CASE ~Live
      <4>1. n.state = conn.state
        BY <1>0, <3>1, Handled DEF Live, e
      <4> QED
        BY <4>1 DEF EndInv
    <3> QED
      BY <3>1
  <2>2. Ready(e)
    BY <1>0, <2>1, Handled DEF Live, DictInv, Ready, e, Terminal, Backend!Terminal
  <2>3. Behind(1) = {} /\ bstate = "READY" /\ Told(1) /\ 1 \in Waiting
    BY <1>0, <2>1, <2>2, Taken DEF EndInv, e
  <2>4. events' = <<>>
    <3>1. ASSUME NEW j \in Waiting, j # 1 PROVE FALSE
      BY <2>3, <3>1 DEF Behind, Waiting
    <3>2. Len(events) \in Nat \ {0} /\ Len(events) \in Waiting
      BY <1>0 DEF Waiting
    <3>3. Len(events) = 1
      BY <3>1, <3>2
    <3>4. events' \in Seq(Events) /\ Len(events') = 0
      BY <1>0, <3>3, Taken
    <3> QED
      BY <3>4
  <2>5. Before(1) = {}
    BY DEF Before, Waiting
  <2>6. /\ verdict = "no_speech" => card.text = "no_speech"
        /\ verdict \in Losses => card.failure # "none"
        /\ NeedsText => card.text = "stream"
    BY <2>3, <2>5 DEF Told, Streamed
  <2>7. /\ card.copyable = (card.text = "stream")
        /\ card.failure # "none" => verdict \in Losses /\ card.failure = Why
    BY <2>1 DEF TextInv, EndInv
  <2>8. card' = OnState(card, conn.state, "READY")
    <3>1. conn.state # "READY" /\ ~conn.failed
      BY <2>1 DEF Live, Terminal, Backend!Terminal, DictInv
    <3>2. card' = Rendered(e, n)
      BY DEF e
    <3> QED
      BY <2>2, <3>1, <3>2 DEF Rendered, Ready
  <2>9. CardStands'
    BY <1>0, <2>6, <2>7, <2>8, ReadyStands
  <2> QED
    BY <1>1, <2>3, <2>4, <2>9
<1> QED
  BY <1>0, <1>2, <1>5, ShiftsEnds DEF EndInv

\* The invariants a reader leaves that goes on.
LEMMA ReadsOn ==
  ASSUME FrontendTypeOK, DictInv, TextInv, EndInv, events # <<>>, events' = Tail(events),
         NEW n \in Conns, n = Handle(conn, events[1]), conn' = n,
         card' = Rendered(events[1], n), UNCHANGED <<dictVars, process, ui>>, Live, Live'
  PROVE  TextInv' /\ EndInv'
<1> DEFINE e == events[1]
<1>0. /\ events \in Seq(Events) /\ conn \in Conns /\ card \in Cards /\ e \in Events
      /\ 1 \in Waiting /\ ~conn.failed
  BY Taken DEF FrontendTypeOK, WireTypeOK, CardTypeOK, Conns, Cards, DictInv
<1>1. UNCHANGED <<bstate, heard, btext, result, verdict>>
  BY DEF dictVars
<1>2. n.state \notin Terminal /\ (n.state = conn.state \/ (e.type = "state" /\ n.state = e.arg))
  BY <1>0, Handled DEF Live, Terminal, Backend!Terminal
<1>3. /\ e.type = "text" /\ e.arg = "append" => card.text = "stream"
      /\ Restart(e) => card.text # "stream"
      /\ card.text # "garbled" /\ card.copyable = (card.text = "stream")
  <2>1. Before(1) = {}
    BY DEF Before, Waiting
  <2> QED
    BY <1>0, <2>1 DEF TextInv, Streamed
<1>4. ~Ready(e) /\ card.failure = "none" /\ card.text # "no_speech"
  <2>1. ~Ready(e)
    BY <1>0, Handled DEF Live, Ready, Terminal, Backend!Terminal
  <2> QED
    BY <1>0, <2>1 DEF EndInv
<1>5. /\ card'.copyable = (card'.text = "stream") /\ card'.text # "garbled"
      /\ e.type = "no_speech" => card'.text = "no_speech"
      /\ e.type # "no_speech" =>
           /\ card'.text = "stream" <=> card.text = "stream" \/ e.type = "text"
           /\ card'.text # "no_speech"
      /\ e.type = "failure" => card'.failure = e.arg /\ e.arg # "none"
      /\ e.type # "failure" => card'.failure = "none"
  <2>1. card' = Rendered(e, n)
    OBVIOUS
  <2> HIDE DEF e
  <2>2. e.type = "failure" => e.arg # "none"
    BY <1>0, EventArgument
  <2> QED
    BY <1>0, <1>2, <1>3, <1>4, <2>1, <2>2, Shown
<1>6. LastWord(e) => /\ bstate = "READY" /\ Fits(e)
                     /\ \A i \in Waiting' : Ready(events'[i])
  <2> SUFFICES ASSUME LastWord(e)
               PROVE  bstate = "READY" /\ Fits(e) /\ \A i \in Waiting' : Ready(events'[i])
    OBVIOUS
  <2>1. bstate = "READY" /\ Fits(e) /\ \A j \in Behind(1) : Ready(events[j])
    BY <1>0 DEF EndInv
  <2>2. ASSUME NEW i \in Waiting' PROVE Ready(events'[i])
    <3>1. i + 1 \in Waiting /\ events'[i] = events[i + 1] /\ i \in Nat /\ i > 0
      BY <1>0, Taken DEF Waiting
    <3>2. i + 1 > 1
      BY <3>1
    <3> QED
      BY <2>1, <3>1, <3>2 DEF Behind
  <2> QED
    BY <2>1, <2>2
\* What had streamed in before an event has streamed in still.
<1>7. ASSUME e.type # "no_speech", NEW i \in Nat \ {0}
      PROVE  Streamed(i)' <=> Streamed(i + 1)
  <2>1. (\E j \in Before(i + 1) : events[j].type = "text") <=>
          e.type = "text" \/ \E j \in Before(i)' : events'[j].type = "text"
    BY <1>0, Taken
  <2> QED
    BY <1>5, <1>7, <2>1 DEF Streamed
<1>8. TextInv'
  <2>1. CASE e.type = "no_speech"
    <3>1. /\ bstate = "READY" /\ verdict = "no_speech"
          /\ \A i \in Waiting' : Ready(events'[i])
      BY <1>6, <2>1 DEF LastWord, Fits
    <3>2. \A i \in Waiting' : ~Restart(events'[i]) /\ events'[i].type # "text"
      BY <3>1 DEF Ready, Restart
    <3> QED
      BY <1>1, <1>5, <3>1, <3>2 DEF TextInv, Waiting, Restart, Opening
  <2>2. CASE e.type # "no_speech"
    <3>1. ASSUME NEW i \in Waiting'
          PROVE  /\ events'[i].type = "text" /\ events'[i].arg = "append" => Streamed(i)'
                 /\ Restart(events'[i]) => ~Streamed(i)'
      <4>1. i \in Nat \ {0} /\ i + 1 \in Waiting /\ events'[i] = events[i + 1]
        BY <1>0, Taken DEF Waiting
      <4> QED
        BY <1>7, <2>2, <4>1 DEF TextInv
    <3>2. Streamed(End)' <=> Streamed(End)
      <4>1. PICK k : k = Len(events)
        OBVIOUS
      <4>4. Len(events') \in Nat /\ Len(events') + 1 = Len(events)
        BY <1>0, Taken
      <4>5. k \in Nat \ {0} /\ k = Len(events') + 1
        BY <4>1, <4>4
      <4>2. Streamed(k)' <=> Streamed(k + 1)
        BY <1>7, <2>2, <4>5
      <4>3. (Streamed(k)' <=> Streamed(End)') /\ (Streamed(k + 1) <=> Streamed(End))
        BY <4>1, <4>5 DEF Streamed, Before, End
      <4> QED
        BY <4>2, <4>3
    <3>3. (\A i \in Waiting : events[i].type = "text" /\ events[i].arg = "append" => Streamed(i))'
          /\ (\A i \in Waiting : Restart(events[i]) => ~Streamed(i))'
      BY <3>1 DEF Waiting, Restart
    <3> QED
      BY <1>1, <1>5, <3>2, <3>3 DEF TextInv
  <2> QED
    BY <2>1, <2>2
<1>9. (Live /\ card.failure # "none" =>
         /\ bstate = "READY" /\ verdict \in Losses /\ card.failure = Why
         /\ \A j \in Waiting : Ready(events[j]))'
  <2> SUFFICES ASSUME card'.failure # "none"
               PROVE  /\ bstate = "READY" /\ verdict \in Losses /\ card'.failure = Why
                      /\ \A j \in Waiting' : Ready(events'[j])
    BY <1>1 DEF Waiting, Ready, Losses, Why
  <2>1. e.type = "failure"
    BY <1>5
  <2> QED
    BY <1>5, <1>6, <2>1 DEF LastWord, Fits
<1>10. (Live /\ card.text = "no_speech" =>
          /\ bstate = "READY" /\ verdict = "no_speech"
          /\ \A j \in Waiting : Ready(events[j]))'
  <2> SUFFICES ASSUME card'.text = "no_speech"
               PROVE  /\ bstate = "READY" /\ verdict = "no_speech"
                      /\ \A j \in Waiting' : Ready(events'[j])
    BY <1>1 DEF Waiting, Ready
  <2>1. e.type = "no_speech"
    BY <1>5
  <2> QED
    BY <1>6, <2>1 DEF LastWord, Fits
<1>11. (Live => \A i \in Waiting : Ready(events[i]) => Told(i))'
  <2> SUFFICES ASSUME NEW i \in Waiting', Ready(events'[i]) PROVE Told(i)'
    BY DEF Waiting, Ready
  <2>1. i \in Nat \ {0} /\ i + 1 \in Waiting /\ events'[i] = events[i + 1]
    BY <1>0, Taken DEF Waiting
  <2>2. Told(i + 1)
    BY <2>1 DEF EndInv
  <2>3. ASSUME NEW T \in {"text", "no_speech", "failure"}
        PROVE  (\E j \in Before(i + 1) : events[j].type = T) <=>
                 e.type = T \/ \E j \in Before(i)' : events'[j].type = T
    BY <1>0, <2>1, Taken
  <2>4. verdict = "no_speech" =>
          card'.text = "no_speech" \/ \E j \in Before(i)' : events'[j].type = "no_speech"
    BY <1>4, <1>5, <2>2, <2>3 DEF Told
  <2>5. verdict \in Losses =>
          card'.failure # "none" \/ \E j \in Before(i)' : events'[j].type = "failure"
    BY <1>4, <1>5, <2>2, <2>3 DEF Told
  <2>6. NeedsText => Streamed(i)'
    <3>1. NeedsText => e.type # "no_speech"
      BY <1>6 DEF LastWord, Fits, NeedsText
    <3> QED
      BY <1>7, <2>1, <2>2, <3>1 DEF Told
  <2>7. NeedsText' <=> NeedsText
    BY <1>1 DEF NeedsText
  <2> QED
    BY <1>1, <2>4, <2>5, <2>6, <2>7 DEF Told, Losses
<1>12. conn'.state # "READY"
  BY <1>2 DEF Terminal, Backend!Terminal
<1> QED
  BY <1>0, <1>8, <1>9, <1>10, <1>11, <1>12, ShiftsEnds DEF EndInv

\* The end of the output, and a hello that does not come.
LEMMA ReadsNothing ==
  ASSUME FrontendTypeOK, DictInv, TextInv, EndInv, events' = events,
         NEW n \in Conns, n \in {AtEof(conn), CheckHello(conn)}, conn' = n,
         card' = Rendered(Nothing, n), UNCHANGED <<dictVars, process, ui>>, ui # "gone"
  PROVE  TextInv' /\ EndInv'
<1>0. events \in Seq(Events) /\ conn \in Conns
  BY DEF FrontendTypeOK, WireTypeOK, Conns
<1>1. CASE n.state = conn.state
  <2>1. card' = card
    BY <1>1 DEF Rendered, Nothing, Event
  <2>2. /\ Len(events') \in 0 .. Len(events)
        /\ \A i \in 1 .. Len(events') : events'[i] = events[i]
    BY <1>0
  <2> QED
    BY <1>0, <1>1, <2>1, <2>2, Kept
<1>2. CASE n.state # conn.state
  <2>1. n.state \in Terminal \ {"READY", "CANCELLED"}
    BY <1>0, <1>2, Ends
  <2>2. ~Live' /\ conn'.state # "READY"
    BY <2>1 DEF Live
  <2>3. UNCHANGED <<bstate, heard, btext, result, verdict>>
    BY DEF dictVars
  <2>4. TextInv'
    BY <2>2 DEF TextInv
  <2>5. (\A i \in Waiting : Ready(events[i]) => Behind(i) = {} /\ bstate = "READY")'
    BY <2>3 DEF EndInv, Waiting, Behind, Ready
  <2>6. (\A i \in Waiting : LastWord(events[i]) =>
           /\ bstate = "READY" /\ Fits(events[i])
           /\ \A j \in Behind(i) : Ready(events[j]))'
    BY <2>3 DEF EndInv, Waiting, Behind, Ready, LastWord, Spoken, Fits, Losses, Why
  <2> QED
    BY <2>2, <2>4, <2>5, <2>6 DEF EndInv
<1> QED
  BY <1>1, <1>2

\* What the user and the main loop do leaves the dictation and the card alone,
\* and what waits too, unless it ends the frontend.
LEMMA UserActs ==
  ASSUME FrontendTypeOK, (TuiActs /\ UNCHANGED guiVars) \/ (GuiActs /\ UNCHANGED tuiVars)
  PROVE  /\ UNCHANGED <<dictVars, process, started, card, kind>>
         /\ conn'.state = conn.state /\ conn'.failed = conn.failed
         /\ \/ ui' = "gone" /\ events' = <<>>
            \/ events' = events /\ (ui = "gone" => ui' = "gone")
<1>0. conn \in Conns /\ tasks \in Seq(Tasks)
  BY DEF FrontendTypeOK, WireTypeOK, TuiTypeOK, Conns, Tasks
<1>1. conn'.state = conn.state /\ conn'.failed = conn.failed
  BY <1>0, ActsOnConnection
<1>2. CASE TuiActs
  <2>1. CASE RunTask
    BY <1>0, <1>1, <2>1, TaskRuns DEF Settled
  <2>2. CASE TuiActs /\ ~RunTask
    BY <1>1, <2>2 DEF TuiActs, ActionPrimary, ActionCancelOrExit, Answered, ActionCopy,
       KeyFrame, TuiSignal, TuiExits, Vanishes, cardVars
  <2> QED
    BY <1>2, <2>1, <2>2
<1>3. CASE GuiActs
  BY <1>1, <1>3 DEF GuiActs, OnCloseRequest, CloseWindow, GuiSignal, RequestCancel,
     OnCancelResponse, OnStop, CopyToClipboard, PressEnter, OnActiveChanged, RunIdle,
     ButtonFrame, BackendFrame, Vanishes
<1> QED
  BY <1>2, <1>3

\* Every step keeps what the card shows true to what was and will be said.
LEMMA CardStep ==
  /\ FrontendTypeOK /\ FrontendTypeOK' /\ DictInv /\ DictInv' /\ TextInv /\ EndInv
  /\ [FrontendNext]_frontendVars
  => TextInv' /\ EndInv'
<1> SUFFICES ASSUME FrontendTypeOK, FrontendTypeOK', DictInv, DictInv', TextInv, EndInv,
                    [FrontendNext]_frontendVars
             PROVE  TextInv' /\ EndInv'
  OBVIOUS
<1>0. events \in Seq(Events) /\ events' \in Seq(Events) /\ conn \in Conns
  BY DEF FrontendTypeOK, WireTypeOK, Conns
<1>1. CASE BackendActs
  BY <1>1, BackendSays
<1>2. CASE ReadStdout \/ HelloDeadline
  <2>1. PICK e \in Events, n \in Conns :
          /\ Takes(n, e) /\ UNCHANGED <<dictVars, process, started>> /\ ui # "gone"
          /\ \/ /\ events # <<>> /\ e = Head(events) /\ n = Handle(conn, e)
                /\ events' = Tail(events)
             \/ e = Nothing /\ n \in {AtEof(conn), CheckHello(conn)} /\ events' = events
    BY <1>2, Reading
  <2>2. conn' = n /\ card' = Rendered(e, n) /\ ui' = ui
    BY <2>1 DEF Takes, TuiTakes, GuiTakes
  <2>3. CASE /\ events # <<>> /\ e = Head(events) /\ n = Handle(conn, e)
             /\ events' = Tail(events)
    <3>1. e = events[1]
      BY <1>0, <2>3
    <3>2. CASE ~Live'
      BY <2>1, <2>2, <2>3, <3>1, <3>2, ReadsLast
    <3>3. CASE Live /\ Live'
      BY <2>1, <2>2, <2>3, <3>1, <3>3, ReadsOn
    <3>4. Live' => Live
      BY <1>0, <2>2, <2>3, Handled DEF Live
    <3> QED
      BY <3>2, <3>3, <3>4
  <2>4. CASE e = Nothing /\ n \in {AtEof(conn), CheckHello(conn)} /\ events' = events
    BY <2>1, <2>2, <2>4, ReadsNothing
  <2> QED
    BY <2>1, <2>3, <2>4
<1>3. ASSUME UNCHANGED <<dictVars, process, card>>, conn'.state = conn.state,
             \/ ui' = "gone" /\ events' = <<>>
             \/ events' = events /\ (ui = "gone" => ui' = "gone")
      PROVE  TextInv' /\ EndInv'
  <2>1. /\ Len(events') \in 0 .. Len(events)
        /\ \A i \in 1 .. Len(events') : events'[i] = events[i]
    <3>1. CASE events' = events
      BY <1>0, <3>1
    <3>2. CASE events' = <<>>
      BY <1>0, <3>2
    <3> QED
      BY <1>3, <3>1, <3>2
  <2> QED
    BY <1>0, <1>3, <2>1, Kept
<1>4. CASE (TuiActs /\ UNCHANGED guiVars) \/ (GuiActs /\ UNCHANGED tuiVars)
  BY <1>3, <1>4, UserActs
<1>5. CASE UNCHANGED frontendVars
  BY <1>3, <1>5 DEF frontendVars, wireVars, cardVars
<1> QED
  BY <1>1, <1>2, <1>4, <1>5 DEF FrontendNext, AtRest

\* The three hold from the start.
LEMMA CardStarts == FrontendInit => DictInv /\ TextInv /\ EndInv
<1> SUFFICES ASSUME FrontendInit PROVE DictInv /\ TextInv /\ EndInv
  OBVIOUS
<1>1. /\ bstate = "INITIALIZING" /\ btext = "nothing" /\ result = "none" /\ verdict = "none"
      /\ process = "starting" /\ events = <<>> /\ conn.state = "INITIALIZING"
      /\ ~conn.failed /\ ui = "running" /\ card.text = "blank" /\ card.copyable = FALSE
      /\ card.failure = "none"
  BY DEF FrontendInit, WireInit, CardInit, Backend!Init
<1>2. Waiting = {} /\ Before(End) = {} /\ ~Streamed(End)
  BY <1>1 DEF Waiting, Before, End, Streamed
<1>3. DictInv
  BY <1>1 DEF DictInv, Backend!OutcomeStands
<1>4. TextInv
  BY <1>1, <1>2 DEF TextInv
<1>5. EndInv
  BY <1>1, <1>2 DEF EndInv
<1> QED
  BY <1>3, <1>4, <1>5

\* A card that is READY shows what the backend said the dictation came to, with
\* the notice that explains it, and only a transcript can be copied
\* (tui/card.py on_state, gui/ui.py _on_state_change).
THEOREM ReadyIsTheOutcome == FrontendSpec => []ReadyShowsOutcome
<1>1. FrontendInit => FrontendTypeOK /\ DictInv /\ TextInv /\ EndInv
  BY CardStarts, FrontendTypesStart
<1>2. /\ FrontendTypeOK /\ DictInv /\ TextInv /\ EndInv /\ [FrontendNext]_frontendVars
      => (FrontendTypeOK /\ DictInv /\ TextInv /\ EndInv)'
  BY FrontendTypeStep, DictStep, CardStep
<1>3. EndInv => ReadyShowsOutcome
  BY DEF EndInv, CardStands, ReadyShowsOutcome
<1> QED
  BY <1>1, <1>2, <1>3, PTL DEF FrontendSpec

-----------------------------------------------------------------------------
(* What is printed                                                         *)

PrintInv == printed # "none" => ~signalled /\ conn.state = "READY" /\ printed = Outcome

\* A dictation that is over does not move again.
LEMMA ReadyRests ==
  ASSUME bstate = "READY", Backend!Next \/ UNCHANGED dictVars PROVE UNCHANGED dictVars
BY DEF Backend!Next, Backend!WarmUp, Backend!Record, Backend!Fail, Backend!StopRecording,
   Backend!Abandon, Backend!Hear, Backend!Stream, Backend!Transcribe, Backend!HearNothing,
   Backend!LoseTranscript, Backend!Polish, Backend!LosePolish, Backend!Move,
   Backend!Capture, Backend!InFlight, Backend!Working

\* Every step is a move of the dictation or leaves it alone, and a connection
\* that is READY stays so.
LEMMA ReadyStays ==
  ASSUME FrontendTypeOK, EndInv, [FrontendNext]_frontendVars, conn.state = "READY"
  PROVE  UNCHANGED dictVars /\ conn'.state = "READY"
<1>0. conn \in Conns /\ events \in Seq(Events) /\ bstate = "READY"
  BY DEF FrontendTypeOK, WireTypeOK, Conns, EndInv
<1>1. CASE BackendActs
  BY <1>0, <1>1, BackendMoves, ReadyRests
<1>2. CASE ReadStdout \/ HelloDeadline
  <2>1. PICK e \in Events, n \in Conns :
          /\ Takes(n, e) /\ UNCHANGED <<dictVars, process, started>>
          /\ n = Handle(conn, e) \/ n \in {AtEof(conn), CheckHello(conn)}
    BY <1>2, Reading
  <2>2. conn' = n
    BY <2>1 DEF Takes, TuiTakes, GuiTakes
  <2>3. n.state = conn.state
    BY <1>0, <2>1, Handled, Ends DEF Terminal, Backend!Terminal
  <2> QED
    BY <2>1, <2>2, <2>3
<1>3. CASE (TuiActs /\ UNCHANGED guiVars) \/ (GuiActs /\ UNCHANGED tuiVars)
  BY <1>3, UserActs
<1>4. CASE UNCHANGED frontendVars
  BY <1>4 DEF frontendVars, wireVars
<1> QED
  BY <1>1, <1>2, <1>3, <1>4 DEF FrontendNext, AtRest

\* Only a leave prints, and what it prints is on the screen of a READY card.
LEMMA PrintStep ==
  /\ FrontendTypeOK /\ EndInv /\ PrintInv /\ [FrontendNext]_frontendVars => PrintInv'
<1> SUFFICES ASSUME FrontendTypeOK, EndInv, PrintInv, [FrontendNext]_frontendVars
             PROVE  PrintInv'
  OBVIOUS
<1>0. tasks \in Seq(Tasks)
  BY DEF FrontendTypeOK, TuiTypeOK, Tasks
<1>1. ASSUME UNCHANGED <<printed, signalled>> PROVE PrintInv'
  <2> SUFFICES ASSUME printed # "none" PROVE PrintInv'
    BY <1>1 DEF PrintInv
  <2>1. UNCHANGED dictVars /\ conn'.state = "READY"
    BY ReadyStays DEF PrintInv
  <2> QED
    BY <1>1, <2>1 DEF PrintInv, Outcome, dictVars
<1>2. CASE RunTask
  <2>1. CASE UNCHANGED printed
    BY <1>0, <1>1, <1>2, <2>1, TaskRuns
  <2>2. CASE Settled
    <3>1. CASE signalled
      BY <1>0, <1>1, <1>2, <2>2, <3>1, TaskRuns DEF Settled
    <3>2. CASE ~signalled /\ printed' = Deliverable
      <4> SUFFICES ASSUME Deliverable # "none" PROVE PrintInv'
        BY <3>2 DEF PrintInv
      <4>1. conn.state = "READY" /\ card.copyable
        BY DEF Deliverable
      <4>2. card.text = "stream"
        BY <4>1 DEF EndInv, CardStands
      <4>3. Deliverable = Outcome
        BY <4>1, <4>2 DEF Deliverable, OnScreen
      <4>4. UNCHANGED dictVars /\ conn'.state = "READY"
        BY <4>1, ReadyStays
      <4>5. Outcome' = Outcome /\ ~signalled'
        BY <1>0, <1>2, <3>2, <4>4, TaskRuns DEF Outcome, dictVars
      <4> QED
        BY <3>2, <4>3, <4>4, <4>5 DEF PrintInv
    <3>3. signalled \/ (~signalled /\ printed' = Deliverable)
      BY <2>2, Zenon DEF Settled
    <3> QED
      BY <3>1, <3>2, <3>3, Zenon
  <2> QED
    BY <1>0, <1>2, <2>1, <2>2, TaskRuns
<1>3. CASE TuiSignal
  BY <1>3 DEF TuiSignal, PrintInv
<1>4. CASE TuiActs /\ ~RunTask /\ ~TuiSignal
  BY <1>1, <1>4 DEF TuiActs, ActionPrimary, ActionCancelOrExit, Answered, ActionCopy,
     KeyFrame, TuiExits
<1>5. CASE GuiActs /\ UNCHANGED tuiVars
  BY <1>1, <1>5 DEF tuiVars
<1>6. CASE BackendActs
  BY <1>1, <1>6, BackendMoves DEF tuiVars
<1>7. CASE ReadStdout \/ HelloDeadline
  <2>1. PICK e \in Events, n \in Conns : Takes(n, e)
    BY <1>7, Reading
  <2> QED
    BY <1>1, <2>1 DEF Takes, TuiTakes, tuiVars
<1>8. CASE UNCHANGED frontendVars
  BY <1>1, <1>8 DEF frontendVars, tuiVars
<1> QED
  BY <1>2, <1>3, <1>4, <1>5, <1>6, <1>7, <1>8 DEF FrontendNext, AtRest

\* What is printed on exit is what the dictation came to, and after a signal
\* nothing is (tui/app.py _leave, _on_signal).
THEOREM PrintsTheOutcome == FrontendSpec => []PrintsOnlyTheOutcome
<1> DEFINE Inv == FrontendTypeOK /\ DictInv /\ TextInv /\ EndInv /\ PrintInv
<1>1. FrontendInit => Inv
  BY CardStarts, FrontendTypesStart DEF FrontendInit, TuiInit, PrintInv
<1>2. Inv /\ [FrontendNext]_frontendVars => Inv'
  BY FrontendTypeStep, DictStep, CardStep, PrintStep
<1>3. Inv => PrintsOnlyTheOutcome
  BY DEF PrintInv, PrintsOnlyTheOutcome
<1> QED
  BY <1>1, <1>2, <1>3, PTL DEF FrontendSpec

-----------------------------------------------------------------------------
(* The copies                                                              *)

Idles == Seq({"batch", "cleaned", "close"})

Holds(q, t) == \E i \in 1 .. Len(q) : q[i] = t
Asks(q, t) == \E i \in 1 .. Len(q) : q[i].text = t

\* Behind a copy of the batch text comes the cleaned one, among q or in p.
FollowedIn(q, p) ==
  /\ p # "batch"
  /\ \A i \in 1 .. Len(q) : q[i] = "batch" =>
       p = "cleaned" \/ \E j \in 1 .. Len(q) : i < j /\ q[j] = "cleaned"

InOrder(q) ==
  \A i, j \in 1 .. Len(q) : i < j /\ q[i].text = "cleaned" => q[j].text # "batch"

\* The window's copies, as they come and go.
LEMMA IdleCopies ==
  ASSUME NEW q \in Idles, NEW a \in {"batch", "cleaned", "close"}, NEW t,
         NEW p \in {"none", "batch", "cleaned"}
  PROVE  /\ ~Holds(<<>>, t) /\ (Holds(Append(q, a), t) <=> Holds(q, t) \/ a = t)
         /\ q # <<>> => Holds(q, Head(q)) /\ (Holds(Tail(q), t) => Holds(q, t))
         /\ FollowedIn(<<>>, p) <=> p # "batch"
         /\ FollowedIn(q, "cleaned") /\ FollowedIn(Append(q, "cleaned"), "none")
         /\ FollowedIn(q, p) => FollowedIn(Append(q, "close"), p)
         /\ FollowedIn(q, p) /\ q # <<>> =>
              /\ FollowedIn(Tail(q), p)
              /\ Head(q) = "batch" => p = "cleaned" \/ Holds(Tail(q), "cleaned")
<1> USE DEF Idles
<1>1. ~Holds(<<>>, t) /\ (Holds(Append(q, a), t) <=> Holds(q, t) \/ a = t)
  <2>1. Len(<<>>) = 0 /\ Len(Append(q, a)) = Len(q) + 1 /\ Append(q, a)[Len(q) + 1] = a
    OBVIOUS
  <2>2. \A i \in 1 .. Len(q) : Append(q, a)[i] = q[i]
    OBVIOUS
  <2> QED
    BY <2>1, <2>2 DEF Holds
<1>2. ASSUME q # <<>>
      PROVE  /\ Len(q) \in Nat \ {0} /\ Len(Tail(q)) = Len(q) - 1 /\ Head(q) = q[1]
             /\ \A i \in 1 .. Len(q) - 1 : Tail(q)[i] = q[i + 1]
  BY <1>2
<1>3. q # <<>> => Holds(q, Head(q)) /\ (Holds(Tail(q), t) => Holds(q, t))
  BY <1>2 DEF Holds
<1>4. FollowedIn(<<>>, p) <=> p # "batch"
  BY DEF FollowedIn
<1>5. FollowedIn(q, "cleaned") /\ FollowedIn(Append(q, "cleaned"), "none")
  BY DEF FollowedIn
<1>6. FollowedIn(q, p) => FollowedIn(Append(q, "close"), p)
  BY DEF FollowedIn
<1>7. ASSUME FollowedIn(q, p), q # <<>>
      PROVE  /\ FollowedIn(Tail(q), p)
             /\ Head(q) = "batch" => p = "cleaned" \/ Holds(Tail(q), "cleaned")
  <2>1. ASSUME NEW i \in 1 .. Len(q), p # "cleaned", q[i] = "batch"
        PROVE  \E j \in 1 .. Len(Tail(q)) : i < j + 1 /\ Tail(q)[j] = "cleaned"
    <3>1. PICK j \in 1 .. Len(q) : i < j /\ q[j] = "cleaned"
      BY <1>7, <2>1 DEF FollowedIn
    <3>2. j - 1 \in 1 .. Len(Tail(q)) /\ Tail(q)[j - 1] = q[j] /\ i < (j - 1) + 1
      BY <1>2, <1>7, <3>1
    <3> QED
      BY <3>1, <3>2
  <2>2. ASSUME NEW i \in 1 .. Len(Tail(q)), p # "cleaned", Tail(q)[i] = "batch"
        PROVE  \E j \in 1 .. Len(Tail(q)) : i < j /\ Tail(q)[j] = "cleaned"
    <3>1. i + 1 \in 1 .. Len(q) /\ q[i + 1] = "batch"
      BY <1>2, <1>7, <2>2
    <3>2. PICK j \in 1 .. Len(Tail(q)) : i + 1 < j + 1 /\ Tail(q)[j] = "cleaned"
      BY <2>1, <2>2, <3>1
    <3> QED
      BY <3>2
  <2>3. Head(q) = "batch" => p = "cleaned" \/ Holds(Tail(q), "cleaned")
    BY <1>2, <1>7, <2>1 DEF Holds
  <2> QED
    BY <1>7, <2>2, <2>3 DEF FollowedIn
<1> QED
  BY <1>1, <1>3, <1>4, <1>5, <1>6, <1>7

\* The terminal's copies, as they come and go.
LEMMA TaskCopies ==
  ASSUME NEW q \in Seq(Tasks), NEW a \in Tasks, NEW t
  PROVE  /\ InOrder(<<>>) /\ ~Asks(<<>>, t)
         /\ Asks(Append(q, a), t) <=> Asks(q, t) \/ a.text = t
         /\ InOrder(q) /\ (a.text = "batch" => ~Asks(q, "cleaned")) => InOrder(Append(q, a))
         /\ q # <<>> =>
              /\ Asks(q, q[1].text) /\ (Asks(Tail(q), t) => Asks(q, t))
              /\ InOrder(q) => /\ InOrder(Tail(q))
                               /\ q[1].text = "cleaned" => ~Asks(Tail(q), "batch")
<1>1. Len(<<>>) = 0
  OBVIOUS
<1>2. /\ Len(Append(q, a)) = Len(q) + 1 /\ Append(q, a)[Len(q) + 1] = a
      /\ \A i \in 1 .. Len(q) : Append(q, a)[i] = q[i]
      /\ Len(q) \in Nat
  OBVIOUS
<1>3. ASSUME q # <<>>
      PROVE  /\ Len(q) \in Nat \ {0} /\ Len(Tail(q)) = Len(q) - 1
             /\ \A i \in 1 .. Len(q) - 1 : Tail(q)[i] = q[i + 1]
  BY <1>3
<1>4. InOrder(<<>>) /\ ~Asks(<<>>, t)
  BY <1>1 DEF InOrder, Asks
<1>5. Asks(Append(q, a), t) <=> Asks(q, t) \/ a.text = t
  BY <1>2 DEF Asks
<1>6. ASSUME InOrder(q), a.text = "batch" => ~Asks(q, "cleaned") PROVE InOrder(Append(q, a))
  <2>1. ASSUME NEW i \in 1 .. Len(q) + 1, NEW j \in 1 .. Len(q) + 1, i < j,
               Append(q, a)[i].text = "cleaned"
        PROVE  Append(q, a)[j].text # "batch"
    <3>1. i \in 1 .. Len(q) /\ Append(q, a)[i] = q[i]
      BY <1>2, <2>1
    <3>2. CASE j = Len(q) + 1
      BY <1>2, <1>6, <2>1, <3>1, <3>2 DEF Asks
    <3>3. CASE j \in 1 .. Len(q)
      BY <1>2, <1>6, <2>1, <3>1, <3>3 DEF InOrder
    <3> QED
      BY <1>2, <3>2, <3>3
  <2> QED
    BY <1>2, <2>1 DEF InOrder
<1>7. q # <<>> => Asks(q, q[1].text) /\ (Asks(Tail(q), t) => Asks(q, t))
  BY <1>3 DEF Asks
<1>8. ASSUME q # <<>>, InOrder(q)
      PROVE  /\ InOrder(Tail(q))
             /\ q[1].text = "cleaned" => ~Asks(Tail(q), "batch")
  <2>1. \A i \in 1 .. Len(Tail(q)) : i + 1 \in 1 .. Len(q) /\ Tail(q)[i] = q[i + 1] /\ 1 < i + 1
    BY <1>3, <1>8
  <2>2. InOrder(Tail(q))
    BY <1>8, <2>1 DEF InOrder
  <2>3. q[1].text = "cleaned" => ~Asks(Tail(q), "batch")
    BY <1>3, <1>8, <2>1 DEF InOrder, Asks
  <2> QED
    BY <2>2, <2>3
<1> QED
  BY <1>4, <1>5, <1>6, <1>7, <1>8

\* The cleaned text is on its way to the clipboard, or there.
CleanedOut == clip = "cleaned" \/ pending = "cleaned" \/ Holds(idles, "cleaned")
              \/ Asks(tasks, "cleaned")

\* No copy of the batch text is still to come that the cleaned one does not follow.
Followed == FollowedIn(idles, pending)

Quiet == \A i \in Waiting : events[i].type # "result"

\* Each frontend has its own way to the clipboard; nothing is behind the cleaned
\* text on it.
LineInv ==
  /\ kind = "tui" => idles = <<>> /\ pending = "none"
  /\ kind = "gui" => tasks = <<>>
  /\ pending # "none" => ~active
  /\ InOrder(tasks) /\ (clip = "cleaned" => ~Asks(tasks, "batch"))
  /\ ui # "gone" /\ (clip = "cleaned" \/ Holds(idles, "cleaned")) => pending = "none"

\* Once the cleaned text is out no batch text follows it, and READY is not read
\* before the cleaned text is out.
WordInv ==
  /\ CleanedOut => result = "cleaned" /\ Followed /\ Quiet
  /\ result = "cleaned" /\ conn.state = "READY" => Followed
  /\ result = "cleaned" /\ Live => \A i \in Waiting : Ready(events[i]) =>
       (\E j \in Before(i) : Spoken(events[j])) \/ (Followed /\ Quiet)

CleanedShown == result = "cleaned" /\ conn.state = "READY"

\* What a step does to the copies: a cleaned one comes from those there were, or
\* because of `because`.
Copying(because) ==
  /\ LineInv'
  /\ CleanedOut' => CleanedOut \/ because
  /\ clip = "cleaned" /\ clip' = "batch" => Holds(idles', "cleaned")

\* Only a READY card has the cleaned text, or the batch text, on the screen.
LEMMA Screens ==
  ASSUME card \in Cards, Backend!TypeOK
  PROVE  /\ OnScreen = "cleaned" \/ Deliverable = "cleaned" => CleanedShown
         /\ OnScreen = "batch" \/ Deliverable = "batch" => result = "batch"
BY DEF OnScreen, Deliverable, Outcome, CleanedShown, Cards, Texts, Backend!TypeOK

\* The copies without primes in the arguments.
LEMMA CopiesAfter ==
  /\ CleanedOut' <=> \/ clip' = "cleaned" \/ pending' = "cleaned"
                     \/ Holds(idles', "cleaned") \/ Asks(tasks', "cleaned")
  /\ Followed' <=> FollowedIn(idles', pending')
  /\ LineInv' <=>
       /\ kind' = "tui" => idles' = <<>> /\ pending' = "none"
       /\ kind' = "gui" => tasks' = <<>>
       /\ pending' # "none" => ~active'
       /\ InOrder(tasks') /\ (clip' = "cleaned" => ~Asks(tasks', "batch"))
       /\ ui' # "gone" /\ (clip' = "cleaned" \/ Holds(idles', "cleaned")) => pending' = "none"
BY DEF CleanedOut, Followed, LineInv, Holds, Asks, FollowedIn, InOrder

\* A step of the terminal frontend: the first copy may go, and one may come.
LEMMA TasksMove ==
  ASSUME LineInv, kind = "tui", UNCHANGED <<kind, guiVars>>, tasks \in Seq(Tasks),
         NEW q \in Seq(Tasks), NEW t \in Tasks, tasks' = q \/ tasks' = Append(q, t),
         \/ q \in {tasks, <<>>} /\ clip' = clip
         \/ tasks # <<>> /\ q = Tail(tasks) /\ clip' \in {clip, tasks[1].text},
         t.text = "batch" => ~CleanedOut
  PROVE  Copying(t.text = "cleaned") /\ (Followed => Followed')
<1>0. /\ \A x \in {"cleaned", "batch"} :
              /\ ~Asks(<<>>, x)
              /\ Asks(Append(q, t), x) <=> Asks(q, x) \/ t.text = x
              /\ tasks # <<>> => Asks(tasks, tasks[1].text) /\ (Asks(Tail(tasks), x) => Asks(tasks, x))
      /\ InOrder(<<>>) /\ (InOrder(tasks) /\ tasks # <<>> => InOrder(Tail(tasks)))
      /\ InOrder(q) /\ (t.text = "batch" => ~Asks(q, "cleaned")) => InOrder(Append(q, t))
      /\ InOrder(tasks) /\ tasks # <<>> /\ tasks[1].text = "cleaned" => ~Asks(Tail(tasks), "batch")
  BY TaskCopies
<1>1. /\ InOrder(q) /\ (Asks(q, "cleaned") => Asks(tasks, "cleaned"))
      /\ Asks(q, "batch") => Asks(tasks, "batch")
      /\ clip' = "cleaned" => ~Asks(q, "batch") /\ (clip = "cleaned" \/ Asks(tasks, "cleaned"))
      /\ clip = "cleaned" => clip' # "batch"
  <2>1. CASE q \in {tasks, <<>>} /\ clip' = clip
    BY <1>0, <2>1 DEF LineInv
  <2>2. CASE tasks # <<>> /\ q = Tail(tasks) /\ clip' = clip
    BY <1>0, <2>2 DEF LineInv
  <2>3. CASE tasks # <<>> /\ q = Tail(tasks) /\ clip' = tasks[1].text
    BY <1>0, <2>3 DEF LineInv
  <2> QED
    BY <2>1, <2>2, <2>3
<1>2. t.text = "batch" => ~Asks(tasks, "cleaned") /\ clip # "cleaned"
  BY DEF CleanedOut
<1>3. /\ Asks(tasks', "cleaned") => Asks(q, "cleaned") \/ t.text = "cleaned"
      /\ Asks(tasks', "batch") => Asks(q, "batch") \/ t.text = "batch"
      /\ InOrder(tasks')
  <2>1. CASE tasks' = q
    BY <1>1, <2>1
  <2>2. CASE tasks' = Append(q, t)
    BY <1>0, <1>1, <1>2, <2>2
  <2> QED
    BY <2>1, <2>2
<1>4. UNCHANGED <<pending, idles, active>> /\ idles = <<>> /\ pending = "none"
  BY DEF guiVars, LineInv
<1>5. LineInv'
  BY <1>1, <1>2, <1>3, <1>4, CopiesAfter
<1>6. Followed => Followed'
  BY <1>4, CopiesAfter DEF Followed
<1>7. CleanedOut' => CleanedOut \/ t.text = "cleaned"
  BY <1>1, <1>3, <1>4, CopiesAfter DEF CleanedOut
<1> QED
  BY <1>1, <1>5, <1>6, <1>7 DEF Copying

\* What the user and the copies do in the terminal.
LEMMA TuiCopies ==
  ASSUME FrontendTypeOK, LineInv, CleanedOut => result = "cleaned", TuiActs, UNCHANGED guiVars
  PROVE  Copying(CleanedShown) /\ (Followed => Followed')
<1>0. tasks \in Seq(Tasks) /\ card \in Cards /\ Backend!TypeOK
  BY DEF FrontendTypeOK, WireTypeOK, TuiTypeOK, CardTypeOK, Tasks, Cards
<1>1. Deliverable \in Copies
  BY <1>0, CopiesTypes
<1>2. /\ Deliverable = "cleaned" => CleanedShown
      /\ Deliverable = "batch" => ~CleanedOut
  BY <1>0, Screens
<1>3. ASSUME NEW q \in Seq(Tasks), NEW t \in Tasks, tasks' = q \/ tasks' = Append(q, t),
             \/ q \in {tasks, <<>>} /\ clip' = clip
             \/ tasks # <<>> /\ q = Tail(tasks) /\ clip' \in {clip, tasks[1].text},
             t.text \in {"none", Deliverable}, kind = "tui", UNCHANGED kind
      PROVE  Copying(CleanedShown) /\ (Followed => Followed')
  <2>1. Copying(t.text = "cleaned") /\ (Followed => Followed')
    BY <1>0, <1>2, <1>3, TasksMove
  <2> QED
    BY <1>2, <1>3, <2>1 DEF Copying
<1> DEFINE nothing(key) == Task("settle", "none", key)
<1>4. \A key \in BOOLEAN : nothing(key) \in Tasks /\ nothing(key).text = "none"
  BY DEF Task, Tasks, Copies
<1>5. ASSUME NEW q \in Seq(Tasks), NEW key \in BOOLEAN, Leave(q, key)
      PROVE  tasks' = q \/ tasks' = Append(q, nothing(key))
  BY <1>5 DEF Leave
<1> HIDE DEF nothing
<1>6. CASE RunTask
  <2>1. /\ tasks # <<>> /\ Tail(tasks) \in Seq(Tasks) /\ kind = "tui" /\ UNCHANGED kind
        /\ clip' \in {clip, tasks[1].text}
        /\ tasks' = Tail(tasks) \/ Leave(Tail(tasks), TRUE)
    BY <1>0, <1>6, TaskRuns
  <2>2. tasks' = Tail(tasks) \/ tasks' = Append(Tail(tasks), nothing(TRUE))
    BY <1>5, <2>1
  <2> QED
    BY <1>3, <1>4, <2>1, <2>2
<1>7. CASE ActionPrimary \/ ActionCopy
  <2>1. kind = "tui" /\ UNCHANGED <<kind, clip>>
    BY <1>7 DEF ActionPrimary, ActionCopy, CardKey, Key, KeyFrame
  <2>2. \/ tasks' = tasks \/ Leave(tasks, TRUE)
        \/ \E what \in {"copy", "copy_then_leave"} :
             tasks' = Append(tasks, Task(what, Deliverable, TRUE))
    BY <1>7 DEF ActionPrimary, ActionCopy
  <2>3. CASE tasks' = tasks \/ Leave(tasks, TRUE)
    <3>1. tasks' = tasks \/ tasks' = Append(tasks, nothing(TRUE))
      BY <1>0, <1>5, <2>3
    <3> QED
      BY <1>0, <1>3, <1>4, <2>1, <3>1
  <2>4. ASSUME NEW what \in {"copy", "copy_then_leave"},
               tasks' = Append(tasks, Task(what, Deliverable, TRUE))
        PROVE  Copying(CleanedShown) /\ (Followed => Followed')
    <3>1. Task(what, Deliverable, TRUE) \in Tasks
          /\ Task(what, Deliverable, TRUE).text = Deliverable
      BY <1>1 DEF Task, Tasks
    <3> QED
      BY <1>0, <1>3, <2>1, <2>4, <3>1
  <2> QED
    BY <2>2, <2>3, <2>4
<1>8. CASE ActionCancelOrExit
  <2>1. kind = "tui" /\ UNCHANGED <<kind, clip>> /\ (tasks' = tasks \/ Leave(tasks, TRUE))
    BY <1>8 DEF ActionCancelOrExit, CardKey, Key, KeyFrame
  <2>2. tasks' = tasks \/ tasks' = Append(tasks, nothing(TRUE))
    BY <1>0, <1>5, <2>1
  <2> QED
    BY <1>0, <1>3, <1>4, <2>1, <2>2
<1>9. CASE Answered \/ TuiSignal \/ TuiExits
  <2>1. /\ kind = "tui" /\ UNCHANGED <<kind, clip>>
        /\ tasks' = tasks \/ tasks' = <<>>
    BY <1>9 DEF Answered, Key, KeyFrame, TuiSignal, TuiExits, cardVars
  <2>2. <<>> \in Seq(Tasks)
    OBVIOUS
  <2> QED
    BY <1>0, <1>3, <1>4, <2>1, <2>2
<1> QED
  BY <1>6, <1>7, <1>8, <1>9 DEF TuiActs

\* What the user and the main loop do to the copies of the window.
LEMMA GuiMoves ==
  ASSUME GuiActs
  PROVE  /\ kind = "gui" /\ UNCHANGED kind /\ ui = "running"
         /\ \/ /\ UNCHANGED <<pending, active>> /\ idles' = <<>> /\ ui' = "gone"
               /\ clip' \in IF pending = "none" THEN {clip} ELSE {pending, clip}
            \/ UNCHANGED <<clip, pending, idles, active, ui>>
            \/ /\ active /\ clip' = OnScreen /\ UNCHANGED <<pending, idles, active, ui>>
            \/ /\ active' = ~active /\ UNCHANGED <<clip, ui>>
               /\ \/ /\ ~active /\ pending # "none"
                     /\ idles' = Append(idles, pending) /\ pending' = "none"
                  \/ (active \/ pending = "none") /\ UNCHANGED <<idles, pending>>
            \/ /\ idles # <<>> /\ Head(idles) # "close"
               /\ clip' = Head(idles) /\ idles' = Tail(idles)
               /\ UNCHANGED <<pending, active, ui>>
<1>1. CASE OnCloseRequest \/ GuiSignal \/ (PressEnter /\ default = "close")
           \/ (RunIdle /\ Head(idles) = "close")
  BY <1>1 DEF OnCloseRequest, GuiSignal, PressEnter, RunIdle, CloseWindow, Window, Vanishes,
     OnStop, ButtonFrame, CopyToClipboard
<1>2. CASE RequestCancel \/ OnCancelResponse \/ OnStop
  BY <1>2 DEF RequestCancel, OnCancelResponse, OnStop, ButtonFrame, Window
<1>3. CASE CopyToClipboard
  BY <1>3 DEF CopyToClipboard, Window, guiVars
<1>4. CASE PressEnter /\ default # "close"
  BY <1>2, <1>3, <1>4 DEF PressEnter
<1>5. CASE OnActiveChanged
  BY <1>5 DEF OnActiveChanged, Window
<1>6. CASE RunIdle /\ Head(idles) # "close"
  BY <1>6 DEF RunIdle, Window
<1> QED
  BY <1>1, <1>2, <1>3, <1>4, <1>5, <1>6 DEF GuiActs

LEMMA GuiCopies ==
  ASSUME FrontendTypeOK, LineInv, CleanedOut => result = "cleaned" /\ Followed, GuiActs,
         UNCHANGED tuiVars
  PROVE  Copying(CleanedShown) /\ (Followed => Followed')
<1>0. /\ idles \in Idles /\ pending \in {"none", "batch", "cleaned"} /\ card \in Cards
      /\ Backend!TypeOK /\ active \in BOOLEAN
  BY DEF FrontendTypeOK, WireTypeOK, GuiTypeOK, CardTypeOK, Cards, Idles
<1>1. /\ kind = "gui" /\ UNCHANGED kind /\ ui = "running" /\ tasks = <<>> /\ tasks' = <<>>
      /\ kind # "tui" /\ kind' # "tui"
  BY GuiMoves DEF LineInv, tuiVars
<1>2. InOrder(<<>>) /\ \A x \in {"batch", "cleaned"} : ~Asks(<<>>, x)
  BY DEF InOrder, Asks
<1>3. SUFFICES /\ pending' # "none" => ~active'
               /\ ui' # "gone" /\ (clip' = "cleaned" \/ Holds(idles', "cleaned")) =>
                    pending' = "none"
               /\ FollowedIn(idles, pending) => FollowedIn(idles', pending')
               /\ clip' = "cleaned" \/ pending' = "cleaned" \/ Holds(idles', "cleaned") =>
                    CleanedOut \/ CleanedShown
               /\ clip = "cleaned" /\ clip' = "batch" => Holds(idles', "cleaned")
  BY <1>1, <1>2, CopiesAfter DEF Copying, Followed
<1>4. /\ pending # "none" => ~active
      /\ clip = "cleaned" \/ Holds(idles, "cleaned") => pending = "none"
      /\ clip = "cleaned" \/ pending = "cleaned" \/ Holds(idles, "cleaned") =>
           CleanedOut /\ result = "cleaned" /\ FollowedIn(idles, pending)
  BY <1>1 DEF LineInv, CleanedOut, Followed
<1>5. CASE /\ UNCHANGED <<pending, active>> /\ idles' = <<>> /\ ui' = "gone"
           /\ clip' \in IF pending = "none" THEN {clip} ELSE {pending, clip}
  <2>1. /\ ~Holds(<<>>, "cleaned") /\ (FollowedIn(<<>>, pending) <=> pending # "batch")
        /\ FollowedIn(idles, pending) => pending # "batch"
    BY <1>0 DEF Holds, FollowedIn
  <2> QED
    BY <1>4, <1>5, <2>1
<1>6. CASE UNCHANGED <<clip, pending, idles, active, ui>>
  BY <1>1, <1>4, <1>6
<1>7. CASE active /\ clip' = OnScreen /\ UNCHANGED <<pending, idles, active, ui>>
  <2>1. /\ OnScreen = "cleaned" => CleanedShown
        /\ OnScreen = "batch" => result # "cleaned"
    BY <1>0, Screens
  <2> QED
    BY <1>4, <1>7, <2>1
<1>8. CASE /\ active' = ~active /\ UNCHANGED <<clip, ui>>
           /\ \/ /\ ~active /\ pending # "none"
                 /\ idles' = Append(idles, pending) /\ pending' = "none"
              \/ (active \/ pending = "none") /\ UNCHANGED <<idles, pending>>
  <2>1. CASE ~active /\ pending # "none" /\ idles' = Append(idles, pending) /\ pending' = "none"
    <3>1. pending \in {"batch", "cleaned", "close"}
      BY <1>0, <2>1
    <3>2. Holds(idles', "cleaned") <=> Holds(idles, "cleaned") \/ pending = "cleaned"
      BY <1>0, <2>1, <3>1, IdleCopies
    <3>3. FollowedIn(idles, pending) => pending = "cleaned"
      BY <1>0, <2>1 DEF FollowedIn
    <3>4. FollowedIn(Append(idles, "cleaned"), "none")
      BY <1>0, IdleCopies
    <3> QED
      BY <1>4, <1>8, <2>1, <3>2, <3>3, <3>4
  <2>2. CASE (active \/ pending = "none") /\ UNCHANGED <<idles, pending>>
    BY <1>1, <1>4, <1>8, <2>2
  <2> QED
    BY <1>8, <2>1, <2>2
<1>9. CASE /\ idles # <<>> /\ Head(idles) # "close"
           /\ clip' = Head(idles) /\ idles' = Tail(idles)
           /\ UNCHANGED <<pending, active, ui>>
  <2>1. /\ Holds(idles, Head(idles)) /\ (Holds(Tail(idles), "cleaned") => Holds(idles, "cleaned"))
        /\ FollowedIn(idles, pending) =>
             /\ FollowedIn(Tail(idles), pending)
             /\ Head(idles) = "batch" => pending = "cleaned" \/ Holds(Tail(idles), "cleaned")
    BY <1>0, <1>9, IdleCopies
  <2> QED
    BY <1>1, <1>4, <1>9, <2>1
<1> QED
  BY <1>5, <1>6, <1>7, <1>8, <1>9, GuiMoves

\* What a backend event, or an end, does to the copies.
LEMMA TakenCopies ==
  ASSUME FrontendTypeOK, LineInv, CleanedOut => Quiet /\ result = "cleaned",
         ui # "gone", NEW e \in Events, NEW n \in Conns, Takes(n, e),
         IsResult(e) => n.state = conn.state /\ 1 \in Waiting /\ e = events[1]
  PROVE  /\ Copying(IsResult(e) /\ e.arg = "cleaned")
         /\ IsResult(e) /\ e.arg = "cleaned" => Followed'
         /\ ~IsResult(e) => (Followed => Followed')
<1>0. /\ idles \in Idles /\ pending \in {"none", "batch", "cleaned"} /\ tasks \in Seq(Tasks)
      /\ active \in BOOLEAN
  BY DEF FrontendTypeOK, GuiTypeOK, TuiTypeOK, Idles, Tasks
<1>1. IsResult(e) => e.arg \in {"batch", "cleaned"} /\ ~CleanedOut
  BY EventArgument DEF IsResult, Quiet
<1>2. CASE kind = "tui" /\ TuiTakes(n, e) /\ UNCHANGED guiVars
  <2>1. UNCHANGED <<kind, clip>>
    BY <1>2 DEF TuiTakes
  <2>2. ASSUME NEW t \in Tasks, tasks' = tasks \/ tasks' = Append(tasks, t),
               t.text = "none" \/ (IsResult(e) /\ t.text = e.arg)
        PROVE  Copying(IsResult(e) /\ e.arg = "cleaned")
    <3>1. Copying(t.text = "cleaned")
      BY <1>0, <1>1, <1>2, <2>1, <2>2, TasksMove
    <3> QED
      BY <2>2, <3>1 DEF Copying
  <2>3. ASSUME IsResult(e) PROVE Copying(IsResult(e) /\ e.arg = "cleaned")
    <3>1. Task("copy", e.arg, FALSE) \in Tasks /\ Task("copy", e.arg, FALSE).text = e.arg
      BY <1>1, <2>3 DEF Task, Tasks, Copies
    <3>2. tasks' = Append(tasks, Task("copy", e.arg, FALSE))
      BY <1>2, <2>3 DEF TuiTakes
    <3> QED
      BY <2>2, <2>3, <3>1, <3>2
  <2>4. ASSUME ~IsResult(e) PROVE Copying(IsResult(e) /\ e.arg = "cleaned")
    <3>1. Task("settle", "none", FALSE) \in Tasks /\ Task("settle", "none", FALSE).text = "none"
      BY DEF Task, Tasks, Copies
    <3>2. tasks' = tasks \/ tasks' = Append(tasks, Task("settle", "none", FALSE))
      BY <1>2, <2>4 DEF TuiTakes, Leave
    <3> QED
      BY <2>2, <3>1, <3>2
  <2>5. Followed'
    <3>1. FollowedIn(<<>>, "none")
      BY DEF FollowedIn
    <3> QED
      BY <1>2, <2>1, <3>1, CopiesAfter DEF LineInv, guiVars
  <2> QED
    BY <2>3, <2>4, <2>5
<1>3. CASE kind = "gui" /\ GuiTakes(n, e) /\ UNCHANGED tuiVars
  <2>1. UNCHANGED <<kind, clip, active, ui>> /\ tasks = <<>> /\ tasks' = <<>>
    BY <1>3 DEF GuiTakes, LineInv, tuiVars
  <2>2. InOrder(<<>>) /\ \A x \in {"batch", "cleaned"} : ~Asks(<<>>, x)
    BY DEF InOrder, Asks
  <2>3. SUFFICES
          /\ pending' # "none" => ~active
          /\ clip = "cleaned" \/ Holds(idles', "cleaned") => pending' = "none"
          /\ ~IsResult(e) => (FollowedIn(idles, pending) => FollowedIn(idles', pending'))
          /\ clip = "cleaned" \/ pending' = "cleaned" \/ Holds(idles', "cleaned") =>
               CleanedOut \/ (IsResult(e) /\ e.arg = "cleaned")
          /\ IsResult(e) /\ e.arg = "cleaned" => FollowedIn(idles', pending')
    BY <1>3, <2>1, <2>2, CopiesAfter DEF Copying, Followed
  <2>4. /\ pending # "none" => ~active
        /\ clip = "cleaned" \/ Holds(idles, "cleaned") => pending = "none"
        /\ clip = "cleaned" \/ pending = "cleaned" \/ Holds(idles, "cleaned") => CleanedOut
    BY <2>1 DEF LineInv, CleanedOut
  <2>5. idles \o <<>> = idles /\ \A a \in {"batch", "cleaned", "close"} :
          idles \o <<a>> \o <<>> = Append(idles, a) /\ idles \o <<>> \o <<a>> = Append(idles, a)
    BY <1>0 DEF Idles
  <2>6. CASE ~IsResult(e)
    <3>1. pending' = pending /\ (idles' = idles \/ idles' = Append(idles, "close"))
      BY <1>3, <2>5, <2>6 DEF GuiTakes
    <3>2. Holds(Append(idles, "close"), "cleaned") <=> Holds(idles, "cleaned")
      BY <1>0, IdleCopies
    <3>3. FollowedIn(idles, pending) => FollowedIn(Append(idles, "close"), pending)
      BY <1>0, IdleCopies
    <3> QED
      BY <2>4, <2>6, <3>1, <3>2, <3>3
  <2>7. CASE IsResult(e) /\ active
    <3>1. pending = "none" /\ pending' = "none" /\ idles' = Append(idles, e.arg)
      BY <1>1, <1>3, <2>4, <2>5, <2>7 DEF GuiTakes
    <3>2. Holds(Append(idles, e.arg), "cleaned") <=> Holds(idles, "cleaned") \/ e.arg = "cleaned"
      BY <1>0, <1>1, <2>7, IdleCopies
    <3>3. FollowedIn(Append(idles, "cleaned"), "none")
      BY <1>0, IdleCopies
    <3> QED
      BY <1>1, <2>4, <2>7, <3>1, <3>2, <3>3
  <2>8. CASE IsResult(e) /\ ~active
    <3>1. pending' = e.arg /\ idles' = idles
      BY <1>1, <1>3, <2>5, <2>8 DEF GuiTakes
    <3>2. FollowedIn(idles, "cleaned")
      BY <1>0, IdleCopies
    <3> QED
      BY <1>1, <2>4, <2>8, <3>1, <3>2
  <2> QED
    BY <2>6, <2>7, <2>8
<1> QED
  BY <1>2, <1>3 DEF Takes

\* Reading an event: the cleaned text goes out with its result, which everything
\* but READY has come before.
LEMMA ReadsCopies ==
  ASSUME FrontendTypeOK, DictInv, EndInv, LineInv, WordInv, ui # "gone",
         events # <<>>, events' = Tail(events), NEW n \in Conns,
         n = Handle(conn, events[1]), Takes(n, events[1]), UNCHANGED dictVars
  PROVE  Copying(TRUE) /\ WordInv'
<1> DEFINE e == events[1]
<1>0. /\ events \in Seq(Events) /\ conn \in Conns /\ e \in Events /\ 1 \in Waiting
      /\ events' \in Seq(Events)
  BY Taken DEF FrontendTypeOK, WireTypeOK, Conns
<1>1. /\ \A i \in Waiting' : i + 1 \in Waiting /\ events'[i] = events[i + 1] /\ i \in Nat
      /\ \A i \in Waiting : i # 1 => i - 1 \in Waiting' /\ events'[i - 1] = events[i] /\ i \in Nat
  BY <1>0, Taken DEF Waiting
<1>2. conn' = n /\ UNCHANGED <<clip, kind, result>>
  BY DEF Takes, TuiTakes, GuiTakes, dictVars
<1>3. /\ IsResult(e) => n.state = conn.state
      /\ n.state = "READY" /\ conn.state # "READY" => Live /\ ~conn.failed /\ Ready(e)
      /\ Live' => Live /\ ~conn.failed
  BY <1>0, <1>2, Handled DEF IsResult, Live, Terminal, Backend!Terminal, DictInv, Ready
<1> HIDE DEF e
<1>4. /\ Copying(IsResult(e) /\ e.arg = "cleaned")
      /\ IsResult(e) /\ e.arg = "cleaned" => Followed'
      /\ ~IsResult(e) => (Followed => Followed')
  BY <1>0, <1>3, TakenCopies DEF WordInv, e
<1>5. Quiet => Quiet'
  <2> SUFFICES ASSUME Quiet, NEW i \in Waiting' PROVE events'[i].type # "result"
    BY DEF Quiet, Waiting
  <2> QED
    BY <1>1 DEF Quiet
<1>6. CASE IsResult(e) /\ e.arg = "cleaned"
  <2>1. LastWord(e) /\ e.type = "result"
    BY <1>6 DEF LastWord, Spoken, IsResult
  <2>2. result = "cleaned" /\ \A j \in Behind(1) : Ready(events[j])
    BY <1>0, <2>1 DEF EndInv, Fits, e
  <2>3. Quiet'
    <3> SUFFICES ASSUME NEW i \in Waiting' PROVE events'[i].type # "result"
      BY DEF Quiet, Waiting
    <3>1. i + 1 \in Waiting /\ i + 1 > 1
      BY <1>1 DEF Waiting
    <3>2. Ready(events[i + 1])
      BY <2>2, <3>1 DEF Behind
    <3> QED
      BY <1>1, <3>2 DEF Ready
  <2> QED
    BY <1>2, <1>4, <1>6, <2>2, <2>3 DEF WordInv, Copying
<1>7. ASSUME NEW i \in Waiting', Ready(events'[i]), result = "cleaned", Live',
             ~(IsResult(e) /\ e.arg = "cleaned")
      PROVE  \/ \E j \in Waiting' : j < i /\ Spoken(events'[j])
             \/ Followed /\ Quiet
  <2>1. i + 1 \in Waiting /\ Ready(events[i + 1])
    BY <1>1, <1>7
  <2>2. (\E j \in Before(i + 1) : Spoken(events[j])) \/ (Followed /\ Quiet)
    BY <1>3, <1>7, <2>1 DEF WordInv
  <2>3. ASSUME NEW j \in Before(i + 1), Spoken(events[j])
        PROVE  \E k \in Waiting' : k < i /\ Spoken(events'[k])
    <3>1. j # 1
      BY <1>3, <1>7, <2>3 DEF Spoken, IsResult, e
    <3>2. j \in Waiting /\ j < i + 1
      BY DEF Before
    <3>3. j - 1 \in Waiting' /\ events'[j - 1] = events[j] /\ j \in Nat /\ i \in Nat
      BY <1>1, <3>1, <3>2
    <3>4. j - 1 < i
      BY <3>2, <3>3
    <3> QED
      BY <2>3, <3>3, <3>4
  <2> QED
    BY <2>2, <2>3
<1>8. CASE IsResult(e) /\ e.arg # "cleaned"
  <2>1. ~Quiet /\ ~CleanedOut
    BY <1>0, <1>8 DEF IsResult, Quiet, WordInv, e
  <2>2. ~CleanedOut'
    BY <1>4, <1>8, <2>1 DEF Copying
  <2>3. conn.state # "READY"
    BY DEF EndInv
  <2>4. ASSUME NEW i \in Waiting', Ready(events'[i]), result = "cleaned", Live'
        PROVE  \E j \in Waiting' : j < i /\ Spoken(events'[j])
    BY <1>7, <1>8, <2>1, <2>4
  <2> QED
    BY <1>2, <1>3, <1>4, <1>8, <2>2, <2>3, <2>4 DEF WordInv, Copying, Before
<1>9. CASE ~IsResult(e)
  <2>1. CleanedOut' => result = "cleaned" /\ Followed' /\ Quiet'
    BY <1>4, <1>5, <1>9 DEF WordInv, Copying
  <2>2. result = "cleaned" /\ n.state = "READY" => Followed'
    <3> SUFFICES ASSUME result = "cleaned", n.state = "READY" PROVE Followed'
      OBVIOUS
    <3>1. conn.state # "READY"
      BY DEF EndInv
    <3>2. Live /\ Ready(events[1])
      BY <1>3, <3>1 DEF e
    <3>3. Before(1) = {}
      BY DEF Before, Waiting
    <3>4. Followed
      BY <1>0, <3>2, <3>3 DEF WordInv
    <3> QED
      BY <1>4, <1>9, <3>4
  <2>3. ASSUME NEW i \in Waiting', Ready(events'[i]), result = "cleaned", Live'
        PROVE  (\E j \in Waiting' : j < i /\ Spoken(events'[j])) \/ (Followed' /\ Quiet')
    BY <1>4, <1>5, <1>7, <1>9, <2>3
  <2> QED
    BY <1>2, <1>4, <2>1, <2>2, <2>3 DEF WordInv, Copying, Before
<1> QED
  BY <1>6, <1>8, <1>9

\* What leaves the dictation and the state of the connection alone, and takes
\* nothing off the pipe but its end, keeps WordInv if it keeps Followed.
LEMMA KeptWord ==
  ASSUME events \in Seq(Events), WordInv, EndInv, UNCHANGED dictVars,
         \/ Live' /\ conn'.state = conn.state
         \/ ~Live' /\ (conn'.state = "READY" => conn.state = "READY"),
         Live' => Live, Len(events') \in 0 .. Len(events),
         \A i \in 1 .. Len(events') : events'[i] = events[i],
         CleanedOut' => CleanedOut \/ CleanedShown, Followed => Followed'
  PROVE  WordInv'
<1>1. Waiting' \subseteq Waiting /\ \A i \in Waiting' : events'[i] = events[i]
  BY DEF Waiting
<1>2. Quiet => Quiet'
  <2> SUFFICES ASSUME Quiet, NEW i \in Waiting' PROVE events'[i].type # "result"
    BY DEF Quiet, Waiting
  <2> QED
    BY <1>1 DEF Quiet
<1>3. CleanedShown => result = "cleaned" /\ Followed /\ Quiet
  <2>1. events = <<>> => Quiet
    BY DEF Quiet, Waiting
  <2> QED
    BY <2>1 DEF CleanedShown, WordInv, EndInv
<1>4. UNCHANGED result
  BY DEF dictVars
<1>5. ASSUME NEW i \in Waiting', Ready(events'[i]), result = "cleaned", Live'
      PROVE  (\E j \in Waiting' : j < i /\ Spoken(events'[j])) \/ (Followed' /\ Quiet')
  <2>1. (\E j \in Before(i) : Spoken(events[j])) \/ (Followed /\ Quiet)
    BY <1>1, <1>5 DEF WordInv
  <2>2. ASSUME NEW j \in Before(i) PROVE j \in Waiting' /\ j < i
    BY DEF Before, Waiting
  <2> QED
    BY <1>1, <1>2, <2>1, <2>2
<1> QED
  BY <1>2, <1>3, <1>4, <1>5 DEF WordInv, Before

\* The backend touches no copy, and writes READY behind the cleaned text.
LEMMA BackendCopies ==
  ASSUME FrontendTypeOK, FrontendTypeOK', DictInv, DictInv', EndInv, LineInv, WordInv,
         BackendActs
  PROVE  LineInv' /\ WordInv' /\ clip' = clip
<1>0. /\ events \in Seq(Events) /\ events' \in Seq(Events)
      /\ process \in {"starting", "up", "down"}
  BY DEF FrontendTypeOK, WireTypeOK
<1>1. /\ conn'.state = conn.state /\ (Live' <=> Live)
      /\ UNCHANGED <<ui, clip, kind, pending, idles, active, tasks>>
  BY BackendMoves DEF cardVars, tuiVars, guiVars, Live
<1>2. LineInv' /\ (CleanedOut' <=> CleanedOut) /\ (Followed' <=> Followed)
  BY <1>1, CopiesAfter DEF LineInv, CleanedOut, Followed
<1>3. ASSUME UNCHANGED dictVars, Len(events') \in 0 .. Len(events),
             \A i \in 1 .. Len(events') : events'[i] = events[i]
      PROVE  WordInv'
  BY <1>0, <1>1, <1>2, <1>3, KeptWord
<1>4. CASE BackendDies
  <2>1. PICK n \in 0 .. Len(events) : events' = SubSeq(events, 1, n)
    BY <1>4 DEF BackendDies
  <2>2. /\ Len(events') \in 0 .. Len(events)
        /\ \A i \in 1 .. Len(events') : events'[i] = events[i]
    BY <1>0, <2>1
  <2> QED
    BY <1>1, <1>2, <1>3, <1>4, <2>2 DEF BackendDies
<1>5. CASE Hello \/ BackendWorks \/ BackendReads
  <2>1. PICK s \in Seq(Events) : Sent(s) /\ Script(s)
    BY <1>5, Scripted
  <2>2. CASE bstate = "READY"
    <3>1. UNCHANGED dictVars /\ s = <<>>
      BY <2>1, <2>2 DEF Script
    <3>2. events \o <<>> = events
      BY <1>0
    <3>3. events' = events
      BY <2>1, <3>1, <3>2 DEF Sent, DictInv
    <3> QED
      BY <1>0, <1>1, <1>2, <1>3, <3>1, <3>3
  <2>3. CASE bstate # "READY"
    <3>1. ~CleanedOut' /\ conn'.state # "READY"
      BY <1>1, <1>2, <2>3 DEF WordInv, DictInv, EndInv
    <3>2. ASSUME NEW i \in Waiting', Ready(events'[i]), result' = "cleaned"
          PROVE  \E j \in Waiting' : j < i /\ Spoken(events'[j])
      <4>1. events' = events \o s
        <5>1. events' # <<>>
          BY <3>2 DEF Waiting
        <5> QED
          BY <2>1, <5>1 DEF Sent
      <4>2. i \notin Waiting
        <5>1. ASSUME i \in Waiting PROVE FALSE
          <6>1. events'[i] = events[i]
            BY <1>0, <1>1, <4>1, <5>1, Grown DEF cardVars, Waiting
          <6> QED
            BY <2>3, <3>2, <5>1, <6>1 DEF EndInv
        <5> QED
          BY <5>1
      <4>3. i > Len(events) /\ i \in 1 .. Len(events) + Len(s)
        BY <1>0, <4>1, <4>2, <3>2 DEF Waiting
      <4>4. PICK l \in 1 .. Len(s) : i = Len(events) + l /\ events'[i] = s[l]
        <5> DEFINE l == i - Len(events)
        <5>1. l \in 1 .. Len(s) /\ i = Len(events) + l /\ events'[i] = s[l]
          BY <1>0, <4>1, <4>3
        <5> QED
          BY <5>1
      <4>5. bstate' = "READY" /\ l = Len(s)
        BY <2>1, <3>2, <4>4 DEF Script
      <4>6. PICK k \in 1 .. Len(s) : Spoken(s[k])
        BY <2>1, <2>3, <3>2, <4>5 DEF Script
      <4>7. k + 1 = Len(s)
        BY <2>1, <4>6 DEF Script, LastWord
      <4>8. Len(events) + k \in Waiting' /\ events'[Len(events) + k] = s[k]
        BY <1>0, <4>1 DEF Waiting
      <4>9. Len(events) + k < i
        BY <1>0, <4>4, <4>5, <4>7
      <4> QED
        BY <4>6, <4>8, <4>9
    <3> QED
      BY <1>1, <1>2, <3>1, <3>2 DEF WordInv, Before
  <2> QED
    BY <1>1, <1>2, <2>2, <2>3
<1> QED
  BY <1>4, <1>5 DEF BackendActs

\* Every step keeps the copies in their order, and no batch copy comes last.
LEMMA CopyStep ==
  /\ FrontendTypeOK /\ FrontendTypeOK' /\ DictInv /\ DictInv' /\ EndInv /\ LineInv /\ WordInv
  /\ [FrontendNext]_frontendVars
  => /\ LineInv' /\ WordInv'
     /\ clip = "cleaned" /\ clip' = "batch" => Holds(idles', "cleaned")
<1> SUFFICES ASSUME FrontendTypeOK, FrontendTypeOK', DictInv, DictInv', EndInv, LineInv,
                    WordInv, [FrontendNext]_frontendVars
             PROVE  /\ LineInv' /\ WordInv'
                    /\ clip = "cleaned" /\ clip' = "batch" => Holds(idles', "cleaned")
  OBVIOUS
<1>0. events \in Seq(Events) /\ events' \in Seq(Events) /\ conn \in Conns
  BY DEF FrontendTypeOK, WireTypeOK, Conns
<1>1. CleanedOut => result = "cleaned" /\ Followed /\ Quiet
  BY DEF WordInv
<1>2. ASSUME events' = events \/ events' = <<>>
      PROVE  /\ Len(events') \in 0 .. Len(events)
             /\ \A i \in 1 .. Len(events') : events'[i] = events[i]
  <2>1. CASE events' = events
    BY <1>0, <2>1
  <2>2. CASE events' = <<>>
    BY <1>0, <2>2
  <2> QED
    BY <1>2, <2>1, <2>2
<1>3. CASE BackendActs
  BY <1>3, BackendCopies
<1>4. CASE ReadStdout \/ HelloDeadline
  <2>1. PICK e \in Events, n \in Conns :
          /\ Takes(n, e) /\ UNCHANGED <<dictVars, process, started>> /\ ui # "gone"
          /\ \/ /\ events # <<>> /\ e = Head(events) /\ n = Handle(conn, e)
                /\ events' = Tail(events)
             \/ e = Nothing /\ n \in {AtEof(conn), CheckHello(conn)} /\ events' = events
    BY <1>4, Reading
  <2>2. CASE /\ events # <<>> /\ e = Head(events) /\ n = Handle(conn, e)
             /\ events' = Tail(events)
    <3>1. e = events[1]
      BY <1>0, <2>2
    <3>2. Copying(TRUE) /\ WordInv'
      BY <2>1, <2>2, <3>1, ReadsCopies
    <3> QED
      BY <3>2 DEF Copying
  <2>3. CASE e = Nothing /\ n \in {AtEof(conn), CheckHello(conn)} /\ events' = events
    <3>1. ~IsResult(e)
      BY <2>3 DEF IsResult, Nothing, Event
    <3>2. Copying(FALSE) /\ (Followed => Followed')
      <4>1. Copying(IsResult(e) /\ e.arg = "cleaned") /\ (Followed => Followed')
        BY <1>1, <2>1, <3>1, TakenCopies
      <4> QED
        BY <3>1, <4>1 DEF Copying
    <3>3. conn' = n
      BY <2>1 DEF Takes, TuiTakes, GuiTakes
    <3>4. /\ Live' => Live /\ conn'.state = conn.state
          /\ conn'.state = "READY" => conn.state = "READY"
      BY <1>0, <2>3, <3>3, Ends DEF Live, Terminal, Backend!Terminal
    <3>5. WordInv'
      BY <1>0, <1>2, <2>1, <2>3, <3>2, <3>4, KeptWord DEF Copying
    <3> QED
      BY <3>2, <3>5 DEF Copying
  <2> QED
    BY <2>1, <2>2, <2>3
<1>5. CASE (TuiActs /\ UNCHANGED guiVars) \/ (GuiActs /\ UNCHANGED tuiVars)
  <2>1. Copying(CleanedShown) /\ (Followed => Followed')
    BY <1>1, <1>5, TuiCopies, GuiCopies
  <2>2. /\ UNCHANGED dictVars /\ conn'.state = conn.state
        /\ events' = events \/ events' = <<>>
    BY <1>5, UserActs
  <2>3. Live' <=> Live
    BY <2>2 DEF Live
  <2>4. WordInv'
    BY <1>0, <1>2, <2>1, <2>2, <2>3, KeptWord DEF Copying
  <2> QED
    BY <2>1, <2>4 DEF Copying
<1>6. CASE UNCHANGED frontendVars
  <2>1. /\ UNCHANGED <<dictVars, events, conn, ui, clip, kind, pending, idles, active, tasks>>
    BY <1>6 DEF frontendVars, wireVars, cardVars, tuiVars, guiVars
  <2>2. LineInv' /\ (CleanedOut' <=> CleanedOut) /\ (Followed' <=> Followed)
    BY <2>1, CopiesAfter DEF LineInv, CleanedOut, Followed
  <2>3. WordInv'
    BY <1>0, <1>2, <2>1, <2>2, KeptWord DEF Live
  <2> QED
    BY <2>1, <2>2, <2>3
<1> QED
  BY <1>3, <1>4, <1>5, <1>6 DEF FrontendNext, AtRest

LEMMA CopiesStart == FrontendInit => LineInv /\ WordInv
<1> SUFFICES ASSUME FrontendInit PROVE LineInv /\ WordInv
  OBVIOUS
<1>1. /\ result = "none" /\ clip = "none" /\ pending = "none" /\ idles = <<>> /\ tasks = <<>>
  BY DEF FrontendInit, WireInit, CardInit, GuiInit, TuiInit, Backend!Init
<1>2. /\ ~Holds(<<>>, "cleaned") /\ ~Asks(<<>>, "cleaned") /\ ~Asks(<<>>, "batch")
      /\ InOrder(<<>>)
  BY DEF Holds, Asks, InOrder
<1>3. ~CleanedOut
  BY <1>1, <1>2 DEF CleanedOut
<1> QED
  BY <1>1, <1>2, <1>3 DEF LineInv, WordInv

\* The cleaned text on the clipboard is not overtaken by the batch copy it
\* replaces: when a batch copy comes behind it, a cleaned one is still to come
\* (tui/deliver.py, clipboard.py).
THEOREM CleanedStays == FrontendSpec => CleanedIsNotOvertaken
<1> DEFINE Inv == FrontendTypeOK /\ DictInv /\ TextInv /\ EndInv /\ LineInv /\ WordInv
           NotOvertaken == clip = "cleaned" /\ clip' = "batch" =>
                     \E i \in DOMAIN idles' : idles'[i] = "cleaned"
<1>1. FrontendInit => Inv
  BY CardStarts, CopiesStart, FrontendTypesStart
<1>2. Inv /\ [FrontendNext]_frontendVars => Inv'
  BY FrontendTypeStep, DictStep, CardStep, CopyStep
<1>3. Inv /\ [FrontendNext]_frontendVars => [NotOvertaken]_frontendVars
  <2> SUFFICES ASSUME Inv, [FrontendNext]_frontendVars, clip = "cleaned", clip' = "batch"
               PROVE  \E i \in DOMAIN idles' : idles'[i] = "cleaned"
    OBVIOUS
  <2>1. FrontendTypeOK' /\ DictInv' /\ Holds(idles', "cleaned")
    BY FrontendTypeStep, DictStep, CopyStep
  <2>2. idles' \in Seq({"batch", "cleaned", "close"})
    BY <2>1 DEF FrontendTypeOK, GuiTypeOK
  <2>3. DOMAIN idles' = 1 .. Len(idles')
    BY <2>2
  <2> QED
    BY <2>1, <2>3 DEF Holds
<1> QED
  BY <1>1, <1>2, <1>3, PTL DEF FrontendSpec, CleanedIsNotOvertaken

=============================================================================
