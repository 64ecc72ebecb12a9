------------------------------ MODULE Dictation ------------------------------
(***************************************************************************)
(* What a dictation promises its user, without threads, resources or       *)
(* queues: how it moves between its states, what is delivered, what it     *)
(* says went wrong, and what text is left on the screen.  Session.tla      *)
(* implements it.                                                          *)
(***************************************************************************)

Terminal == {"READY", "CANCELLED", "ERROR"}
Capture  == {"WARMING", "RECORDING"}
Working  == {"TRANSCRIBING", "CLEANING"}
InFlight == {"INITIALIZING"} \cup Capture \cup Working
States   == InFlight \cup Terminal

VARIABLES
  state,
  heard,    \* the live preview has said something
  text,     \* what the screen holds: nothing, a part, or a whole text
  result,   \* the last text delivered
  verdict   \* what the user is told went wrong, if anything

vars == <<state, heard, text, result, verdict>>

TypeOK ==
  /\ state \in States
  /\ heard \in BOOLEAN
  /\ text \in {"nothing", "partial", "live", "batch", "cleaned"}
  /\ result \in {"none", "batch", "cleaned"}
  /\ verdict \in {"none", "no_speech", "batch_failed", "cleanup_failed"}

Init ==
  /\ state = "INITIALIZING" /\ heard = FALSE /\ text = "nothing"
  /\ result = "none" /\ verdict = "none"

Move(S, new) == state \in S /\ state' = new

WarmUp == Move({"INITIALIZING"}, "WARMING") /\ UNCHANGED <<heard, text, result, verdict>>
Record == Move({"WARMING"}, "RECORDING") /\ UNCHANGED <<heard, text, result, verdict>>
Fail   == Move({"INITIALIZING"}, "ERROR") /\ UNCHANGED <<heard, text, result, verdict>>
StopRecording == Move(Capture, "TRANSCRIBING") /\ UNCHANGED <<heard, text, result, verdict>>

\* Giving up delivers nothing more and says nothing more.
Abandon == Move(InFlight, "CANCELLED") /\ UNCHANGED <<heard, text, result, verdict>>

\* The live preview, the transcript or the cleaned text streams in.
Hear ==
  /\ state = "RECORDING" /\ text' = "partial"
  /\ heard' \in {heard, TRUE}
  /\ UNCHANGED <<state, result, verdict>>

Stream ==
  /\ \/ state = "TRANSCRIBING" /\ text' = "partial"
     \/ state = "CLEANING" /\ text' \in {"partial", "batch"}
  /\ UNCHANGED <<state, heard, result, verdict>>

Transcribe ==
  /\ Move({"TRANSCRIBING"}, "CLEANING")
  /\ result' = "batch" /\ UNCHANGED <<heard, text, verdict>>

HearNothing ==
  /\ Move({"TRANSCRIBING"}, "READY")
  /\ result' \in {"none", "batch"} /\ verdict' = "no_speech"
  /\ UNCHANGED <<heard, text>>

\* The live preview stands in for a transcript that failed.
LoseTranscript ==
  /\ Move({"TRANSCRIBING"}, "READY")
  /\ verdict' = "batch_failed"
  /\ text' = IF heard THEN "live" ELSE text
  /\ UNCHANGED <<heard, result>>

\* The cleaned text is delivered whole, or the transcript stands.
Polish ==
  /\ Move({"CLEANING"}, "READY")
  /\ \/ result' = "cleaned" /\ text' = "cleaned"
     \/ text = "batch" /\ UNCHANGED <<result, text>>
  /\ UNCHANGED <<heard, verdict>>

LosePolish ==
  /\ Move({"CLEANING"}, "READY")
  /\ verdict' = "cleanup_failed" /\ text' = "batch"
  /\ UNCHANGED <<heard, result>>

Next == \/ WarmUp \/ Record \/ Fail \/ StopRecording \/ Abandon
        \/ Hear \/ Stream \/ Transcribe \/ HearNothing \/ LoseTranscript
        \/ Polish \/ LosePolish

Spec == Init /\ [][Next]_vars

-----------------------------------------------------------------------------

\* When the session is READY, the screen holds exactly what was delivered, or
\* what the failure says stands in for it: never a half-streamed text that is
\* passed off as the result (session.py: _fail_batch, _on_cleanup_error).
OutcomeStands ==
  state = "READY" =>
    \/ verdict = "none" /\ result \in {"batch", "cleaned"} /\ text = result
    \/ verdict = "cleanup_failed" /\ result = "batch" /\ text = "batch"
    \/ verdict = "batch_failed" /\ result = "none" /\ (heard => text = "live")
    \/ verdict = "no_speech" /\ result # "cleaned"

=============================================================================
