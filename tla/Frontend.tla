------------------------------ MODULE Frontend ------------------------------
(***************************************************************************)
(* A frontend, terminal or window, at the other end of the backend's pipe. *)
(* Either of the two may die, and the user may press anything.             *)
(***************************************************************************)
EXTENDS Tui, Gui

frontendVars == <<wireVars, cardVars, tuiVars, guiVars>>

FrontendTypeOK == WireTypeOK /\ CardTypeOK /\ TuiTypeOK /\ GuiTypeOK

FrontendInit == WireInit /\ CardInit /\ TuiInit /\ GuiInit

-----------------------------------------------------------------------------

Takes(n, e) ==
  \/ kind = "tui" /\ TuiTakes(n, e) /\ UNCHANGED guiVars
  \/ kind = "gui" /\ GuiTakes(n, e) /\ UNCHANGED tuiVars

\* BackendPipe.read_stdout: a line, or EOF, and then the watch is gone.
ReadStdout ==
  /\ ui # "gone" /\ conn.watched
  /\ \/ /\ events # <<>>
        /\ events' = Tail(events)
        /\ Takes(Handle(conn, Head(events)), Head(events))
     \/ /\ events = <<>> /\ process = "down"
        /\ UNCHANGED events
        /\ Takes(AtEof(conn), Nothing)
  /\ UNCHANGED <<dictVars, process, started>>

\* The hello deadline, which has nothing to say to a frontend that leaves.
HelloDeadline ==
  /\ ui # "gone" /\ ~conn.hello /\ ~conn.closed
  /\ Takes(CheckHello(conn), Nothing)
  /\ UNCHANGED <<dictVars, process, started, events>>

BackendActs ==
  /\ Hello \/ BackendWorks \/ BackendReads \/ BackendDies
  /\ UNCHANGED <<cardVars, tuiVars, guiVars>>

\* Both are gone, or the user leaves a finished dictation on the screen.
AtRest ==
  /\ process = "down" /\ events = <<>>
  /\ UNCHANGED frontendVars

FrontendNext ==
  \/ BackendActs \/ ReadStdout \/ HelloDeadline
  \/ TuiActs /\ UNCHANGED guiVars
  \/ GuiActs /\ UNCHANGED tuiVars
  \/ AtRest

\* Main loops run, pipes are read, timers fire and clipboard tools time out;
\* nothing makes a backend work, or a user act.
FrontendFairness ==
  /\ WF_frontendVars(ReadStdout) /\ WF_frontendVars(HelloDeadline)
  /\ WF_frontendVars(BackendReads /\ UNCHANGED <<cardVars, tuiVars, guiVars>>)
  /\ WF_frontendVars((RunTask \/ TuiExits) /\ UNCHANGED guiVars)
  /\ WF_frontendVars(RunIdle /\ UNCHANGED tuiVars)

FrontendSpec == FrontendInit /\ [][FrontendNext]_frontendVars
FairFrontendSpec == FrontendSpec /\ FrontendFairness

-----------------------------------------------------------------------------

\* A READY card shows what the backend said the dictation came to: the text it
\* holds, or that there is none, with the notice that explains it, and only a
\* transcript can be copied.  The failure is armed by an event of its own and
\* the text streams in by others, across states that each clear a part of it
\* (tui/card.py on_state, gui/ui.py _on_state_change).
ReadyShowsOutcome ==
  conn.state = "READY" =>
    /\ bstate = "READY"
    /\ card.copyable = (card.text = "stream")
    /\ card.notice = IF verdict = "no_speech" THEN "none" ELSE verdict
    /\ card.text = IF verdict = "no_speech" THEN "no_speech"
                   ELSE IF verdict = "batch_failed" /\ ~heard THEN "no_preview"
                   ELSE "stream"

\* "The cleaned result can never be overtaken by the batch copy it replaces":
\* not by a slow clipboard tool, and not by a copy that waited for the focus.
\* Only a user who copies between the window's two idles sees the batch text
\* again, and then the cleaned one is still to come (tui/deliver.py,
\* clipboard.py).
CleanedIsNotOvertaken ==
  [][clip = "cleaned" /\ clip' = "batch" => \E i \in DOMAIN idles' : idles'[i] = "cleaned"]_frontendVars

\* What is printed on exit is what the dictation came to, and a signal prints
\* nothing, also when it comes while the last copy delays the exit
\* (tui/app.py _leave, _on_signal).
PrintsOnlyTheOutcome ==
  printed # "none" =>
    ~signalled /\ conn.state = "READY" /\ printed = Outcome

\* A backend that dies or never speaks is reported, a cancelled dictation
\* closes its frontend, and a frontend that ends lets go of the backend and
\* with it of the microphone (client.py fail, close, hang_up).
NobodyIsLeftWaiting ==
  /\ (process = "down") ~> (conn.state \in Terminal \/ ui = "gone")
  /\ <>(conn.hello \/ conn.state \in Terminal \/ ui = "gone")
  /\ (conn.state = "CANCELLED") ~> (ui = "gone")
  /\ (ui = "gone") ~> (process # "up")

=============================================================================
