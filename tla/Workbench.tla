----------------------------- MODULE Workbench ------------------------------
(***************************************************************************)
(* The workbench of a recorded meeting (meeting/process_app.py,            *)
(* process_ui.py, transcribe.py, titling.py, sessions.py): one window on   *)
(* one session directory, a transcription thread with an HTTP request of   *)
(* its own, title threads, and the files they and the window write.  What  *)
(* a transcript says is a version number, 0 no file.  A transcript is      *)
(* taken not to be blank; a title, typed or generated, is there or not.    *)
(* The number of speakers is left out of what the settings hold, as are    *)
(* the error bar and the progress label.                                   *)
(***************************************************************************)
EXTENDS TagEntry

CONSTANTS
  MaxKept,       \* bound: transcripts and key terms, when one is added
  MaxOpens,      \* bound: times the session is opened
  MaxTitlers     \* bound: title threads at once

ASSUME WorkbenchAssumption ==
  MaxKept \in Nat \ {0} /\ MaxOpens \in Nat \ {0} /\ MaxTitlers \in Nat \ {0}

VARIABLES
  opus,         \* recording.opus exists
  txt, json,    \* transcript.txt and transcript.json
  params,       \* the key terms in transcribe_params.json
  backups,      \* transcript.<stamp>.txt, one for each rename
  tmp,          \* the files whose .tmp exists
  unsaved,      \* history: the last change of the key terms was not saved
  titleFile,    \* title.txt
  newest,       \* the last version there was
  opens,        \* times the session was opened
  known,        \* session.has_transcript, read when the window was built
  had,          \* _had_transcript
  copy,         \* the copy button is shown
  editable,     \* the key terms are sensitive
  generable,    \* the generate-title button is sensitive
  preview,      \* the version the preview shows, 0 while hidden
  renaming,     \* the rename section is shown
  rows,         \* the version its rows were read from, 0 while collapsed
  running,      \* _transcribe_running
  abort,        \* _transcribe_abort
  thread,       \* the transcription thread
  saving,       \* the result file it is at
  ask,          \* the key terms of its run
  http,         \* its request
  reply,        \* the result its idle carries
  before,       \* history: the files when the run started
  title,        \* the title entry
  titleLocked,  \* the title entry is insensitive
  titlers       \* title threads whose result is not in

paramVars == <<params, unsaved>>
fileVars == <<opus, txt, json, paramVars, backups, tmp>>
openVars == <<opens, known>>
viewVars == <<had, copy, editable, preview, renaming, rows>>
runVars == <<running, abort, thread, saving, ask, http, reply, before>>
titleVars == <<title, titleLocked, titlers, titleFile, generable>>
workbenchVars == <<tagVars, fileVars, newest, openVars, viewVars, runVars, titleVars>>

Versions == 0 .. MaxKept
MayKeep(terms, versions) == terms + versions <= MaxKept
TermLists == {s \in UNION {[1 .. n -> Terms] : n \in 0 .. 2} :
                \A i, j \in DOMAIN s : s[i] = s[j] => i = j}
NoFile == <<>>       \* a file is the sequence of what it holds
Results == <<"txt", "json", "params">>
Titles == {"", "generating", "title"}
Outcomes == {"none", "success", "failed", "aborted"}

WorkbenchTypeOK ==
  /\ TagEntryTypeOK
  /\ {opus, known, had, copy, editable, generable, renaming} \subseteq BOOLEAN
  /\ {txt, json, newest, preview, rows} \subseteq Versions
  /\ params = NoFile \/ params[1] \in Seq(Terms)
  /\ backups \subseteq Versions
  /\ tmp \subseteq {"txt", "json", "params"}
  /\ unsaved \in BOOLEAN
  /\ opens \in 1 .. MaxOpens
  /\ {running, abort, titleLocked} \subseteq BOOLEAN
  /\ thread \in {"off", "check", "downmix", "upload", "write", "replace", "dead"}
  /\ saving \in 1 .. 3
  /\ ask \in Seq(Terms)
  /\ http \in {"none", "waiting", "answered", "failed"}
  /\ reply \in Outcomes
  /\ {title, titleFile} \subseteq Titles
  /\ titlers \in 0 .. MaxTitlers

\* inspect_session, when the window is built.
HasTranscript == txt # 0

Saved == IF params = NoFile THEN <<>> ELSE params[1]

WorkbenchInit ==
  /\ opus \in BOOLEAN
  /\ \/ txt = 0 /\ params \in {NoFile} \cup {<<s>> : s \in TermLists}
     \/ txt = 1 /\ params \in {<<s>> : s \in TermLists}
  /\ json = txt
  /\ newest = txt
  /\ backups = {} /\ tmp = {} /\ unsaved = FALSE
  /\ titleFile \in {"", "title"}
  /\ opens = 1
  /\ known = HasTranscript /\ had = known /\ copy = known /\ generable = known
  /\ renaming = known /\ preview = txt /\ rows = 0
  /\ editable = TRUE /\ SetTags(Saved)
  /\ running = FALSE /\ abort = FALSE /\ thread = "off" /\ saving = 1
  /\ ask = <<>> /\ http = "none" /\ reply = "none" /\ before = <<>>
  /\ title = titleFile /\ titleLocked = FALSE /\ titlers = 0

\* The process ends, closed while nothing runs or killed at any moment, with a
\* title not yet saved forgotten and the threads where they are; the session is
\* opened again and its window built from its files.
Reopen ==
  /\ opens < MaxOpens
  /\ opens' = opens + 1
  /\ known' = HasTranscript /\ had' = known' /\ copy' = known' /\ generable' = known'
  /\ renaming' = known' /\ preview' = txt /\ rows' = 0
  /\ editable' = TRUE
  /\ tags' = Saved /\ selected' = 0 /\ entry' = NoText
  /\ running' = FALSE /\ abort' = FALSE /\ thread' = "off" /\ saving' = 1
  /\ ask' = <<>> /\ http' = "none" /\ reply' = "none" /\ before' = <<>>
  /\ title' = titleFile /\ titleLocked' = FALSE /\ titlers' = 0
  /\ unsaved' = FALSE
  /\ UNCHANGED <<opus, txt, json, params, backups, tmp, titleFile, newest>>

-----------------------------------------------------------------------------
(* The settings and the title.                                             *)

\* What a save writes is what the window shows, and makes up for one that failed.
ParamsSaved(terms) == params' = <<terms>> /\ unsaved' = FALSE

\* _save_params, through the .tmp the transcription thread also uses.
SaveParams == ParamsSaved(tags') /\ tmp' = tmp \ {"params"}

\* Opening the .tmp, writing it or moving it into place raises.
SaveRaises == UNCHANGED params /\ tmp' \in {tmp, tmp \cup {"params"}}

SettingsStep == UNCHANGED <<opus, txt, json, backups, newest, openVars, viewVars,
                            runVars, titleVars>>

\* The key terms, each change of which is saved.
EditTags ==
  /\ editable
  /\ \/ /\ TagEntryNext
        /\ IF tags' = tags THEN UNCHANGED <<paramVars, tmp>> ELSE SaveParams
     \/ TagEntryRaises /\ SaveRaises /\ unsaved' = TRUE
  /\ Len(tags') > Len(tags) => MayKeep(Len(tags'), newest)
  /\ SettingsStep

\* The speakers spin, disabled as the key terms are, saves them too.
SpinSpeakers ==
  /\ editable
  /\ UNCHANGED tagVars
  /\ \/ SaveParams
     \/ SaveRaises /\ UNCHANGED unsaved
  /\ SettingsStep

TitleStep == UNCHANGED <<tagVars, fileVars, newest, openVars, viewVars, runVars>>

TypeTitle ==
  /\ ~titleLocked
  /\ title' \in {"", "title"}
  /\ TitleStep
  /\ UNCHANGED <<titleLocked, titlers, titleFile, generable>>

\* _flush_title, after the entry has rested for the debounce time; one that
\* raises is not taken.
FlushTitle ==
  /\ titleFile # title
  /\ titleFile' = title
  /\ TitleStep
  /\ UNCHANGED <<title, titleLocked, titlers, generable>>

\* _on_generate_title
StartTitler ==
  /\ titlers' = titlers + 1
  /\ title' = "generating" /\ titleLocked' = TRUE /\ generable' = FALSE
  /\ UNCHANGED titleFile

GenerateTitle == generable /\ titlers < MaxTitlers /\ StartTitler /\ TitleStep

\* _on_title_generated: the title, or nothing when that failed.
TitleGenerated ==
  /\ titlers > 0
  /\ titlers' = titlers - 1
  /\ title' \in {"", "title"}
  /\ titleLocked' = FALSE /\ generable' = TRUE
  /\ UNCHANGED titleFile
  /\ TitleStep

-----------------------------------------------------------------------------
(* Renaming speakers.                                                      *)

RenameStep == UNCHANGED <<tagVars, opus, json, paramVars, openVars, had, copy, editable,
                          renaming, runVars, titleVars>>

ToggleRename ==
  /\ renaming
  /\ rows' = IF rows = 0 THEN txt ELSE 0
  /\ RenameStep /\ UNCHANGED <<txt, backups, tmp, newest, preview>>

\* The backup first, then the transcript through its .tmp; then the preview and
\* the rows are read again.
Renamed ==
  /\ newest' = newest + 1 /\ txt' = newest'
  /\ tmp' = tmp \ {"txt"}
  /\ preview' = txt' /\ rows' = txt'

ApplyRenameUnsaved ==      \* mutant: a backup that failed stops nothing
  /\ renaming /\ rows # 0 /\ MayKeep(Len(tags), newest + 1)
  /\ RenameStep
  /\ Renamed /\ backups' \in {backups, backups \cup {txt}}

ApplyRename ==
  /\ renaming /\ rows # 0 /\ MayKeep(Len(tags), newest + 1)
  /\ RenameStep
  /\ \/ backups' = backups \cup {txt} /\ Renamed
     \/ \* the backup, or the transcript after it, cannot be written
        /\ backups' \in {backups, backups \cup {txt}}
        /\ tmp' \in {tmp, tmp \cup {"txt"}} /\ (tmp' # tmp => txt \in backups')
        /\ UNCHANGED <<txt, newest, preview, rows>>

-----------------------------------------------------------------------------
(* The transcription, from the window's side.                              *)

MarkTranscribingKeepsTags ==      \* mutant: the key terms stay sensitive
  /\ had' = known /\ copy' = FALSE /\ generable' = FALSE
  /\ preview' = 0 /\ renaming' = FALSE /\ rows' = 0
  /\ UNCHANGED editable

MarkTranscribingKeepsRows ==      \* mutant: the rename section stays expanded
  /\ had' = known /\ copy' = FALSE /\ generable' = FALSE
  /\ editable' = FALSE
  /\ preview' = 0 /\ renaming' = FALSE
  /\ UNCHANGED rows

MarkTranscribing ==
  /\ had' = known /\ copy' = FALSE /\ generable' = FALSE
  /\ editable' = FALSE
  /\ preview' = 0 /\ renaming' = FALSE /\ rows' = 0

\* The button and the dialog it asks with, which is modal; _start_transcribe.
Transcribe ==
  /\ ~running
  /\ running' = TRUE /\ abort' = FALSE
  /\ thread' = "check" /\ saving' = 1 /\ ask' = tags /\ http' = "none"
  /\ before' = <<txt, json, params>>
  /\ MarkTranscribing
  /\ UNCHANGED <<tagVars, fileVars, newest, openVars, reply, title, titleLocked,
                 titlers, titleFile>>

\* The window's close, Escape or a signal while a run is on.
AskAbort ==
  /\ running /\ ~abort
  /\ abort' = TRUE
  /\ UNCHANGED <<tagVars, fileVars, newest, openVars, viewVars, running, thread,
                 saving, ask, http, reply, before, titleVars>>

MarkTranscribeDone ==
  /\ copy' = TRUE /\ editable' = TRUE
  /\ preview' = txt /\ renaming' = TRUE
  /\ UNCHANGED <<had, rows>>
  /\ IF title = ""
     THEN StartTitler
     ELSE generable' = TRUE /\ UNCHANGED <<title, titleLocked, titlers, titleFile>>

MarkTranscribeIdle ==
  /\ editable' = TRUE
  /\ copy' = (copy \/ had)
  /\ UNCHANGED <<had, preview, renaming, rows, titleVars>>

OnTranscribeDone ==
  /\ reply # "none"
  /\ reply' = "none" /\ running' = FALSE
  /\ saving' = 1 /\ ask' = <<>> /\ before' = <<>>
  /\ IF reply = "success" THEN MarkTranscribeDone ELSE MarkTranscribeIdle
  /\ UNCHANGED <<tagVars, fileVars, newest, openVars, abort, thread, http>>

-----------------------------------------------------------------------------
(* The transcription thread.                                               *)

RunStep == UNCHANGED <<tagVars, opus, openVars, viewVars, titleVars, running, abort,
                       ask, before>>

\* The thread returns a result; its request, if any, is left alone.
Finish(outcome) ==
  /\ thread' = "off" /\ reply' = outcome /\ http' = "none"
  /\ UNCHANGED <<txt, json, paramVars, backups, tmp, newest, saving>>

Proceed(next) ==
  /\ thread' = next
  /\ UNCHANGED <<txt, json, paramVars, backups, tmp, newest, saving, reply>>

\* The recording, the key, then the first look at the abort.  A keyring that
\* fails raises what nobody catches: the thread dies without a result.
Check ==
  /\ thread = "check"
  /\ RunStep
  /\ \/ Finish("failed")
     \/ opus /\ Proceed("dead") /\ UNCHANGED http
     \/ opus /\ abort /\ Finish("aborted")
     \/ opus /\ ~abort /\ Proceed("downmix") /\ UNCHANGED http

\* ffmpeg runs until it ends or its poll sees the abort.
Downmix ==
  /\ thread = "downmix"
  /\ RunStep
  /\ \/ Finish("failed")
     \/ abort /\ Finish("aborted")
     \/ ~abort /\ Proceed("upload") /\ http' = "waiting"

\* The service: an answer, an error, or neither for as long as it likes.
HttpReturns ==
  /\ http = "waiting"
  /\ \/ MayKeep(Len(tags), newest + 1) /\ newest' = newest + 1 /\ http' = "answered"
     \/ http' = "failed" /\ UNCHANGED newest
  /\ UNCHANGED <<tagVars, fileVars, openVars, viewVars, running, abort, thread, saving,
                 ask, reply, before, titleVars>>

UploadAbortsLate ==      \* mutant: the abort is seen once the service is done
  /\ thread = "upload" /\ abort /\ http # "waiting"
  /\ RunStep /\ Finish("aborted")

\* The wait for the request is given up; what it returns later is dropped.
UploadAborts ==
  /\ thread = "upload" /\ abort /\ http = "waiting"
  /\ RunStep /\ Finish("aborted")

UploadReturns ==
  /\ thread = "upload"
  /\ RunStep
  /\ \/ http = "failed" /\ Finish("failed")
     \/ http = "answered" /\ Proceed("write") /\ UNCHANGED http

\* _atomic_write of each result in turn; a failure ends the run where it is.
WriteTmp ==
  /\ thread = "write"
  /\ RunStep
  /\ \/ Finish("failed")
     \/ /\ thread' = "replace"
        /\ tmp' = tmp \cup {Results[saving]}
        /\ UNCHANGED <<txt, json, paramVars, backups, newest, saving, http, reply>>

Put ==
  /\ tmp' = tmp \ {Results[saving]}
  /\ txt' = IF Results[saving] = "txt" THEN newest ELSE txt
  /\ json' = IF Results[saving] = "json" THEN newest ELSE json
  /\ IF Results[saving] = "params" THEN ParamsSaved(ask) ELSE UNCHANGED paramVars
  /\ UNCHANGED <<backups, newest>>

ReplaceSeesAbort ==      \* mutant: the abort is looked at after each file
  /\ thread = "replace"
  /\ RunStep
  /\ Put
  /\ saving' = IF saving < 3 THEN saving + 1 ELSE saving
  /\ thread' = IF abort \/ saving = 3 THEN "off" ELSE "write"
  /\ reply' = IF abort THEN "aborted" ELSE IF saving = 3 THEN "success" ELSE reply
  /\ http' = IF abort \/ saving = 3 THEN "none" ELSE http

Replace ==
  /\ thread = "replace"
  /\ RunStep
  /\ \/ Finish("failed")
     \/ /\ Put
        /\ IF saving < 3
           THEN saving' = saving + 1 /\ thread' = "write" /\ UNCHANGED <<http, reply>>
           ELSE /\ thread' = "off" /\ reply' = "success" /\ http' = "none"
                /\ UNCHANGED saving

TranscribeThread ==
  Check \/ Downmix \/ UploadAborts \/ UploadReturns \/ WriteTmp \/ Replace

-----------------------------------------------------------------------------

WorkbenchNext ==
  \/ Reopen
  \/ EditTags \/ SpinSpeakers \/ TypeTitle \/ FlushTitle \/ GenerateTitle \/ TitleGenerated
  \/ ToggleRename \/ ApplyRename
  \/ Transcribe \/ AskAbort \/ OnTranscribeDone
  \/ TranscribeThread \/ HttpReturns

\* The thread runs on, ffmpeg ends, the main loop runs its idles.  Nobody makes
\* the service answer.
WorkbenchFairness ==
  /\ WF_workbenchVars(TranscribeThread)
  /\ WF_workbenchVars(OnTranscribeDone)

WorkbenchSpec ==
  WorkbenchInit /\ [][WorkbenchNext]_workbenchVars /\ WorkbenchFairness

-----------------------------------------------------------------------------

\* A run that ends as aborted has moved none of its results into place, however
\* late the abort came (transcribe.py:94-130, 313-317).
AbortedRunChangesNothing == reply = "aborted" => before = <<txt, json, params>>

\* What the window shows of the transcript, the preview and the speakers to
\* rename, is read from the file as it is: a run hides both, and a rename
\* reads both again (process_ui.py:593-595, 633, 816).
ViewIsCurrent ==
  /\ preview # 0 => preview = txt
  /\ renaming /\ rows # 0 => rows = txt

\* The .tmp the thread is about to move into place is the one it wrote: the
\* window, which renames through the same .tmp, does not while a run is on
\* (transcribe.py:361-366, process_ui.py:807, 841).
ThreadOwnsItsTmp == thread = "replace" => Results[saving] \in tmp

\* The settings on disk are those in the window, though two writers save them
\* and a run saves those it started with, unless the last change of the key
\* terms could not be saved; the next save or opening makes them agree again
\* (process_ui.py:831-844, transcribe.py:347).
ParamsFileIsWindow == params # NoFile /\ ~unsaved => params = <<tags>>

\* Only a change of the terms that cannot be saved leaves the selection past the
\* end of the list, since it skips the correction, and only until the next key or
\* click that touches either (process_ui.py:93-147, 189-196, 251-291).
SelectionIsATerm ==
  [][selected' > Len(tags') =>
       \/ tags' # tags /\ unsaved'
       \/ UNCHANGED <<tags, selected>>]_workbenchVars

\* A transcript is lost only to the run that started from it: otherwise it was
\* put into a backup before another took its place (process_ui.py:792-815).
NoTextLost ==
  [][txt' # txt =>
       \/ txt = 0 \/ txt \in backups'
       \/ thread = "replace" /\ UNCHANGED newest /\ txt = before[1]]_workbenchVars

\* A run asked to abort ends, even if the service never answers, unless its
\* thread has died (transcribe.py:313-317).
AbortEndsRun == running /\ abort ~> ~running \/ thread = "dead"

=============================================================================
