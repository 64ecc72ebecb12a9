-------------------------------- MODULE Card --------------------------------
(***************************************************************************)
(* What both frontends show (tui/card.py, gui/ui.py), and the clipboard.   *)
(* A text is known by where it comes from: "stream" is what the backend's  *)
(* text events add up to, so it is the text the backend holds; appending   *)
(* to anything else makes it "garbled".                                    *)
(***************************************************************************)
EXTENDS Wire

VARIABLES
  kind,     \* the frontend: "tui" or "gui"
  card,     \* the transcript and the notice on the screen
  confirm,  \* "Discard this dictation?" is being asked
  clip      \* the text on the system's clipboard

cardVars == <<kind, card, confirm, clip>>

ConfirmCancel == {"RECORDING"} \cup Backend!Working
Done == {"READY", "ERROR"}

Texts == {"blank", "placeholder", "stream", "garbled", "no_speech", "no_preview", "error"}
Copies == {"none", "batch", "cleaned", "live", "part"} \cup Texts

CardTypeOK ==
  /\ kind \in {"tui", "gui"}
  /\ card \in [text : Texts, copyable : BOOLEAN, had : BOOLEAN, preview : BOOLEAN,
               failure : {"none"} \cup EventArgs["failure"],
               notice : {"none", "preview_lost", "batch_failed", "cleanup_failed"}]
  /\ confirm \in BOOLEAN
  /\ clip \in Copies

CardInit ==
  /\ kind \in {"tui", "gui"}
  /\ card = [text |-> "blank", copyable |-> FALSE, had |-> FALSE, preview |-> FALSE,
             failure |-> "none", notice |-> "none"]
  /\ confirm = FALSE
  /\ clip = "none"

SetText(c, text) == [c EXCEPT !.text = text, !.copyable = FALSE]
ShowPlaceholder(c) == SetText([c EXCEPT !.had = FALSE], "placeholder")

\* Batch lost with nothing to stand in for it leaves nothing to copy.
ApplyFailure(c) ==
  IF c.failure = "batch" THEN SetText([c EXCEPT !.notice = "batch_failed"], "no_preview")
  ELSE [c EXCEPT !.notice = IF c.failure = "live" THEN "batch_failed" ELSE "cleanup_failed"]

OnStateForgets(c, old, new) ==    \* mutant: READY does not look at the failure
  IF new = "READY" THEN [c EXCEPT !.notice = "none"] ELSE c

OnState(c, old, new) ==
  LET ended == old \in Capture /\ new \notin Capture
      d == [c EXCEPT !.preview = @ /\ ~ended, !.notice = IF ended THEN "none" ELSE @]
      fresh == [d EXCEPT !.preview = FALSE, !.failure = "none", !.notice = "none"]
      live == [d EXCEPT !.failure = IF old = "WARMING" THEN @ ELSE "none",
                        !.notice = IF d.preview THEN "preview_lost" ELSE @]
  IN CASE new = "WARMING" -> ShowPlaceholder(fresh)
       [] new = "RECORDING" -> IF d.had THEN live ELSE ShowPlaceholder(live)
       [] new = "TRANSCRIBING" -> [d EXCEPT !.had = FALSE]
       [] new = "READY" -> IF d.failure = "none" THEN [d EXCEPT !.notice = "none"]
                           ELSE ApplyFailure(d)
       [] new = "ERROR" -> SetText([d EXCEPT !.notice = "none"], "error")
       [] OTHER -> d

OnText(c, op) ==
  [c EXCEPT !.had = TRUE, !.copyable = TRUE,
            !.text = IF op = "replace" \/ @ = "stream" THEN "stream" ELSE "garbled"]

OnNoSpeech(c) == SetText([c EXCEPT !.had = TRUE], "no_speech")

OnPreviewLost(c, state) ==
  [c EXCEPT !.preview = TRUE, !.notice = IF state \in Capture THEN "preview_lost" ELSE @]

OnFailure(c, phase) == [c EXCEPT !.failure = phase]

\* The card after an event, and after the state change it may bring.
Rendered(e, n) ==
  LET c == IF conn.failed THEN card
           ELSE CASE e.type = "text" -> OnText(card, e.arg)
                  [] e.type = "no_speech" -> OnNoSpeech(card)
                  [] e.type = "preview_lost" -> OnPreviewLost(card, conn.state)
                  [] e.type = "failure" -> OnFailure(card, e.arg)
                  [] OTHER -> card
  IN IF n.state = conn.state THEN c ELSE OnState(c, conn.state, n.state)

IsResult(e) == e.type = "result" /\ ~conn.failed

\* What the backend said the dictation came to.
Outcome == IF verdict = "batch_failed" THEN "live" ELSE result

\* The text on the screen, for copying.
OnScreen ==
  IF card.text # "stream" THEN card.text ELSE IF conn.state = "READY" THEN Outcome ELSE "part"

Deliverable == IF conn.state = "READY" /\ card.copyable THEN OnScreen ELSE "none"

=============================================================================
