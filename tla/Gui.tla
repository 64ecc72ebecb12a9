-------------------------------- MODULE Gui --------------------------------
(***************************************************************************)
(* The window (gui/app.py, gui/ui.py, clipboard.py).  The clipboard can be *)
(* written only while the window has the focus: a copy waits in `pending`  *)
(* until then, and is handed to wl-copy when the window closes first.      *)
(* Enter activates the window's default button.                            *)
(***************************************************************************)
EXTENDS Card

VARIABLES
  active,   \* the window has the focus
  pending,  \* clipboard._pending
  idles,    \* GLib idles: texts to put on the clipboard, and "close"
  default   \* the default button

guiVars == <<active, pending, idles, default>>

GuiTypeOK ==
  /\ active \in BOOLEAN
  /\ pending \in {"none", "batch", "cleaned"}
  /\ idles \in Seq({"batch", "cleaned", "close"})
  /\ default \in {"none", "stop", "copy", "close"}

GuiInit == active \in BOOLEAN /\ pending = "none" /\ idles = <<>> /\ default = "none"

\* _on_state_change: what Enter does in the new state.
DefaultIn(state, c) ==
  CASE state \in Capture -> "stop"
    [] state = "READY" /\ c.copyable -> "copy"
    [] state \in Done /\ ~(state = "READY" /\ c.copyable) -> "close"
    [] state = "CANCELLED" -> default
    [] OTHER -> "none"

\* A backend event or the end of one (e), with the connection it leaves (n).
GuiTakes(n, e) ==
  LET changed == n.state # conn.state
      set == IF IsResult(e) /\ active THEN <<e.arg>> ELSE <<>>
      close == IF changed /\ n.state = "CANCELLED" THEN <<"close">> ELSE <<>>
  IN
  /\ conn' = n
  /\ card' = Rendered(e, n)
  /\ confirm' = (confirm /\ (changed => n.state \in ConfirmCancel \cup {"CANCELLED"}))
  /\ default' = IF changed THEN DefaultIn(n.state, card') ELSE default
  /\ pending' = IF ~IsResult(e) THEN pending ELSE IF active THEN "none" ELSE e.arg
  /\ idles' = idles \o set \o close
  /\ UNCHANGED <<kind, clip, active, ui>>

-----------------------------------------------------------------------------

Window == kind = "gui" /\ ui = "running"
BackendFrame == UNCHANGED <<dictVars, process, started, events>>
SendClick(cmd) == Len(conn.out) < MaxCommands /\ conn' = SendCommand(conn, cmd)
ButtonFrame == UNCHANGED <<card, kind, clip, active, pending, idles, ui>> /\ BackendFrame

\* The window's close, the countdown's end, Close, Escape when done, and
\* Ctrl+M, which asks to trash a folder without a text.
CloseWindow(trash) ==
  /\ clip' \in (IF pending = "none" THEN {clip} ELSE {pending, clip})  \* salvage
  /\ conn' = CloseConn(conn, trash)
  /\ confirm' = FALSE
  /\ Vanishes /\ idles' = <<>>
  /\ UNCHANGED <<dictVars, process, started, card, kind, active, pending, default>>

OnCloseRequest == Window /\ \E trash \in BOOLEAN : CloseWindow(trash)

GuiSignal ==
  /\ Window
  /\ conn' = HangUp(conn)
  /\ Vanishes /\ idles' = <<>>
  /\ UNCHANGED <<dictVars, process, started, card, kind, confirm, clip, active, pending,
                 default>>

\* Cancel, and Escape in flight: ask once there is audio to lose.
RequestCancel ==
  /\ Window /\ ~confirm
  /\ \/ /\ conn.state \in InFlight \ ConfirmCancel /\ SendClick("cancel")
        /\ UNCHANGED <<confirm, default>>
     \/ /\ conn.state \in ConfirmCancel
        /\ confirm' = TRUE /\ default' = "none" /\ UNCHANGED conn
  /\ ButtonFrame

\* The dialog answers, then closes; Stop is the default again.
OnCancelResponse ==
  /\ Window /\ confirm /\ confirm' = FALSE
  /\ \/ UNCHANGED conn
     \/ conn.state \in ConfirmCancel /\ SendClick("cancel")
  /\ default' = IF conn.state = "RECORDING" THEN "stop" ELSE default
  /\ ButtonFrame

OnStop ==
  /\ Window /\ ~confirm /\ conn.state \in Capture
  /\ SendClick("stop")
  /\ UNCHANGED <<confirm, default>> /\ ButtonFrame

\* Copy and Ctrl+C write the clipboard at once.
CopyToClipboard ==
  /\ Window /\ ~confirm /\ active /\ card.copyable
  /\ clip' = OnScreen
  /\ UNCHANGED <<card, kind, confirm, conn, guiVars, ui>> /\ BackendFrame

PressEnter ==
  /\ active
  /\ \/ default = "stop" /\ OnStop
     \/ default = "copy" /\ CopyToClipboard
     \/ default = "close" /\ Window /\ CloseWindow(FALSE)

\* _on_active_changed, with the flush of a copy that waited for the focus.
OnActiveChanged ==
  /\ Window
  /\ active' = ~active
  /\ \/ /\ ~active /\ pending # "none"
        /\ idles' = Append(idles, pending) /\ pending' = "none"
     \/ (active \/ pending = "none") /\ UNCHANGED <<idles, pending>>
  /\ UNCHANGED <<card, kind, confirm, clip, conn, default, ui>> /\ BackendFrame

RunIdle ==
  /\ Window /\ idles # <<>>
  /\ \/ Head(idles) = "close" /\ CloseWindow(FALSE)
     \/ /\ Head(idles) # "close"
        /\ clip' = Head(idles) /\ idles' = Tail(idles)
        /\ UNCHANGED <<card, kind, confirm, conn, active, pending, default, ui>>
        /\ BackendFrame

GuiActs ==
  \/ OnCloseRequest \/ GuiSignal \/ RequestCancel \/ OnCancelResponse \/ OnStop
  \/ CopyToClipboard \/ PressEnter \/ OnActiveChanged \/ RunIdle

=============================================================================
