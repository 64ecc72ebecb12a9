--------------------------- MODULE WorkbenchProofs --------------------------
(* The workbench, for any key terms and any bounds.                         *)
EXTENDS Workbench, TLAPS

\* A run has the files to itself: nothing that writes them is to be seen while
\* it lasts, and it has changed nothing before it writes.
RunHasTheFiles ==
  /\ running => ~editable /\ ~renaming /\ preview = 0 /\ rows = 0 /\ ask = tags
  /\ thread # "off" => running /\ reply = "none"
  /\ reply # "none" => running
  /\ thread \in {"check", "downmix", "upload"} =>
       before = <<txt, json, params>> /\ saving = 1
  /\ thread \in {"write", "replace"} /\ saving = 1 => before[1] = txt

\* What is shown and what is stored agree, and so they do at every step.
Agreement ==
  AbortedRunChangesNothing /\ ViewIsCurrent /\ ThreadOwnsItsTmp /\ ParamsFileIsWindow

\* The inductive invariant: a run that changed nothing, or is about to move a
\* file into place, is known to do so only because nobody else writes.
RunInv == saving \in 1 .. 3 /\ RunHasTheFiles /\ Agreement

\* The bound on title threads: while there are as many as that, the entry says
\* it is generating and is locked, so that no run that ends starts another.
TitlersAreBounded ==
  titlers = MaxTitlers => titleLocked /\ title = "generating"

\* Terms are distinct.
Distinct(s) == \A i, j \in DOMAIN s : s[i] = s[j] => i = j

\* A window opened after a save that failed is built from the file.
FileIsDistinct == params # NoFile => params = <<params[1]>> /\ Distinct(params[1])

WorkbenchInv == WorkbenchTypeOK /\ FileIsDistinct /\ TitlersAreBounded /\ RunInv

-----------------------------------------------------------------------------
(* Types                                                                   *)

\* Without its i-th element a sequence of terms is one element shorter, and
\* distinct if it was.
LEMMA WithoutTypes ==
  ASSUME NEW i \in DOMAIN tags, tags \in Seq(Terms), Distinct(tags)
  PROVE  /\ Without(i) \in Seq(Terms)
         /\ Len(Without(i)) = Len(tags) - 1
         /\ Distinct(Without(i))
<1> DEFINE a == SubSeq(tags, 1, i - 1)
           b == SubSeq(tags, i + 1, Len(tags))
<1>1. i \in 1 .. Len(tags) /\ Len(tags) \in Nat
  OBVIOUS
<1>2. a \in Seq(Terms) /\ Len(a) = i - 1 /\ \A k \in 1 .. i - 1 : a[k] = tags[k]
  BY <1>1
<1>3. b \in Seq(Terms) /\ Len(b) = Len(tags) - i
      /\ \A k \in 1 .. Len(tags) - i : b[k] = tags[i + k]
  BY <1>1
<1> HIDE DEF a, b
<1>4. a \o b \in Seq(Terms) /\ Len(a \o b) = Len(tags) - 1
  BY <1>1, <1>2, <1>3
<1>5. \A k \in 1 .. Len(tags) - 1 :
        (a \o b)[k] = IF k < i THEN tags[k] ELSE tags[k + 1]
  BY <1>1, <1>2, <1>3
<1>6. Distinct(a \o b)
  <2>1. DOMAIN (a \o b) = 1 .. Len(tags) - 1
    BY <1>1, <1>4
  <2>2. \A k \in DOMAIN tags, l \in DOMAIN tags : tags[k] = tags[l] => k = l
    BY DEF Distinct
  <2>3. ASSUME NEW k \in 1 .. Len(tags) - 1, NEW l \in 1 .. Len(tags) - 1,
               (a \o b)[k] = (a \o b)[l]
        PROVE  k = l
    <3>1. {k, k + 1, l, l + 1} \subseteq DOMAIN tags
      BY <1>1
    <3>2. k < i /\ l < i => tags[k] = tags[l]
      BY <1>5, <2>3
    <3>3. k < i /\ ~(l < i) => tags[k] = tags[l + 1]
      BY <1>5, <2>3
    <3>4. ~(k < i) /\ l < i => tags[k + 1] = tags[l]
      BY <1>5, <2>3
    <3>5. ~(k < i) /\ ~(l < i) => tags[k + 1] = tags[l + 1]
      BY <1>5, <2>3
    <3>6. k \in Int /\ l \in Int /\ i \in Int
      BY <1>1
    <3> QED
      BY <2>2, <3>1, <3>2, <3>3, <3>4, <3>5, <3>6
  <2> QED
    BY <2>1, <2>3 DEF Distinct
<1> QED
  BY <1>4, <1>6 DEF Without, a, b

\* Every key and click keeps the terms distinct, saved or not.
LEMMA TagEntryStep ==
  TagEntryTypeOK /\ (TagEntryNext \/ TagEntryRaises) => TagEntryTypeOK'
<1> SUFFICES ASSUME TagEntryTypeOK, TagEntryNext \/ TagEntryRaises PROVE TagEntryTypeOK'
  OBVIOUS
<1> USE DEF TagEntryTypeOK, Deselect
<1>0. \A i \in Nat : Without(i) \in Seq(Terms) /\ Distinct(Without(i))
  <2> SUFFICES ASSUME NEW i \in Nat PROVE Without(i) \in Seq(Terms) /\ Distinct(Without(i))
    OBVIOUS
  <2>1. CASE i \in DOMAIN tags
    BY <2>1, WithoutTypes DEF Distinct
  <2>2. CASE i \notin DOMAIN tags
    BY <2>2 DEF Without, Distinct
  <2> QED
    BY <2>1, <2>2
<1>1. ASSUME NEW t \in Terms \cup {NoText}, Type(t) PROVE TagEntryTypeOK'
  BY <1>1 DEF Type
<1>2. CASE CommitText
  <2>1. entry \in Terms /\ \A i \in DOMAIN tags : tags[i] # entry
    BY <1>2 DEF CommitText, Members
  <2>2. tags' \in Seq(Terms) /\ DOMAIN tags' = 1 .. Len(tags) + 1
    BY <1>2, <2>1 DEF CommitText
  <2>3. \A i, j \in DOMAIN tags' : tags'[i] = tags'[j] => i = j
    BY <1>2, <2>1, <2>2 DEF CommitText
  <2> QED
    BY <1>2, <2>2, <2>3 DEF CommitText
<1>3. ASSUME NEW i \in DOMAIN tags, EditTag(i) PROVE TagEntryTypeOK'
  <2>1. tags[i] \in Terms
    OBVIOUS
  <2> QED
    BY <1>3, <2>1, WithoutTypes DEF EditTag, Distinct
<1>4. CASE KeyEnter
  BY <1>2, <1>3, <1>4 DEF KeyEnter
<1>5. CASE RemoveSelected
  <2>1. tags' \in Seq(Terms) /\ Distinct(tags')
    BY <1>0, <1>5 DEF RemoveSelected
  <2>2. selected' = selected \/ selected' = Len(tags')
    BY <1>5 DEF RemoveSelected
  <2> QED
    BY <1>5, <2>1, <2>2 DEF RemoveSelected, Distinct
<1>6. CASE SelectLast
  BY <1>6 DEF SelectLast
<1>7. CASE KeyLeft
  BY <1>7 DEF KeyLeft
<1>8. CASE KeyRight
  BY <1>8 DEF KeyRight
<1>9. ASSUME NEW i \in DOMAIN tags, ClosePill(i) \/ RemovalRaises(i) PROVE TagEntryTypeOK'
  <2>1. i \in Nat /\ tags' = Without(i)
    BY <1>9 DEF ClosePill, RemovalRaises
  <2>2. tags' \in Seq(Terms) /\ Distinct(tags')
    BY <1>0, <2>1
  <2>3. (selected' = 0 \/ selected' = selected) /\ entry' = entry
    BY <1>9 DEF ClosePill, RemovalRaises
  <2> QED
    BY <2>2, <2>3 DEF Distinct
<1> QED
  BY <1>1, <1>2, <1>3, <1>4, <1>5, <1>6, <1>7, <1>8, <1>9 DEF TagEntryNext, TagEntryRaises

\* Where nothing raises, each handler ends with the selection among the terms,
\* wherever it was before.
LEMMA SelectionStep == TagEntryTypeOK /\ TagEntryNext => selected' <= Len(tags')
<1> SUFFICES ASSUME TagEntryTypeOK, TagEntryNext PROVE selected' <= Len(tags')
  OBVIOUS
<1> USE DEF TagEntryTypeOK, Deselect
<1>1. Len(tags) \in Nat /\ DOMAIN tags = 1 .. Len(tags) /\ Len(tags') \in Nat
  BY TagEntryStep
<1>2. CASE selected' = 0
  BY <1>1, <1>2
<1>3. CASE RemoveSelected
  BY <1>1, <1>3 DEF RemoveSelected
<1>4. CASE SelectLast
  BY <1>1, <1>4 DEF SelectLast
<1>5. CASE KeyLeft
  BY <1>1, <1>5 DEF KeyLeft
<1>6. CASE KeyRight
  BY <1>1, <1>6 DEF KeyRight
<1> QED
  BY <1>2, <1>3, <1>4, <1>5, <1>6 DEF TagEntryNext, Type, KeyEnter, CommitText, EditTag,
    ClosePill

-----------------------------------------------------------------------------

\* Every variable has its type at the start.
LEMMA TypeInit == WorkbenchInit => WorkbenchTypeOK
<1> SUFFICES ASSUME WorkbenchInit PROVE WorkbenchTypeOK
  OBVIOUS
<1>1. \A s \in TermLists : s \in Seq(Terms) /\ \A i, j \in DOMAIN s : s[i] = s[j] => i = j
  <2> SUFFICES ASSUME NEW s \in TermLists
               PROVE  s \in Seq(Terms) /\ \A i, j \in DOMAIN s : s[i] = s[j] => i = j
    OBVIOUS
  <2>1. PICK n \in 0 .. 2 : s \in [1 .. n -> Terms]
    BY DEF TermLists
  <2>2. s \in Seq(Terms)
    BY <2>1
  <2> QED
    BY <2>2 DEF TermLists
<1>2. params = NoFile \/ \E s \in TermLists : params = <<s>>
  BY DEF WorkbenchInit
<1>3. Saved \in Seq(Terms) /\ \A i, j \in DOMAIN Saved : Saved[i] = Saved[j] => i = j
  <2>1. CASE params = NoFile
    BY <2>1 DEF Saved
  <2>2. CASE params # NoFile
    BY <1>1, <1>2, <2>2 DEF Saved
  <2> QED
    BY <2>1, <2>2
<1>4. TagEntryTypeOK
  BY <1>3 DEF WorkbenchInit, SetTags, TagEntryTypeOK
<1>5. /\ {txt, json, newest, preview, rows} \subseteq Versions
      /\ opens \in 1 .. MaxOpens /\ titlers \in 0 .. MaxTitlers
  <2>1. txt = 0 \/ txt = 1
    BY DEF WorkbenchInit
  <2>2. json = txt /\ newest = txt /\ preview = txt /\ rows = 0 /\ opens = 1 /\ titlers = 0
    BY DEF WorkbenchInit
  <2> QED
    BY <2>1, <2>2, WorkbenchAssumption DEF Versions
<1>6. params = NoFile \/ params[1] \in Seq(Terms)
  BY <1>1, <1>2
<1>7. HasTranscript \in BOOLEAN
  BY DEF HasTranscript
<1>8. {opus, known, had, copy, editable, generable, renaming} \subseteq BOOLEAN
  BY <1>7 DEF WorkbenchInit
<1>9. /\ backups \subseteq Versions /\ tmp \subseteq {"txt", "json", "params"}
      /\ {running, abort, titleLocked} \subseteq BOOLEAN
  BY DEF WorkbenchInit
<1>11. /\ thread = "off" /\ saving = 1 /\ ask = <<>> /\ unsaved = FALSE
       /\ http = "none" /\ reply = "none"
  BY DEF WorkbenchInit
<1>12. 1 \in 1 .. 3 /\ <<>> \in Seq(Terms)
  OBVIOUS
<1>10. {title, titleFile} \subseteq Titles
  BY DEF WorkbenchInit, Titles
<1> QED
  BY <1>4, <1>5, <1>6, <1>8, <1>9, <1>10, <1>11, <1>12 DEF WorkbenchTypeOK, Outcomes

\* The bound on what is kept bounds the versions.
LEMMA KeptVersions ==
  ASSUME WorkbenchTypeOK, MayKeep(Len(tags), newest + 1)
  PROVE  newest + 1 \in Versions
<1>1. Len(tags) \in Nat /\ newest \in Nat
  BY DEF WorkbenchTypeOK, TagEntryTypeOK, Versions
<1> QED
  BY <1>1, WorkbenchAssumption DEF MayKeep, Versions

\* Opening the session again builds the window of its files.
LEMMA TypeReopen ==
  ASSUME WorkbenchTypeOK, FileIsDistinct, Reopen
  PROVE  WorkbenchTypeOK'
<1>1. tags' = <<>> \/ (params # NoFile /\ tags' = params[1])
  BY DEF Saved, Reopen
<1>2. TagEntryTypeOK'
  <2>1. tags' \in Seq(Terms) /\ \A i, j \in DOMAIN tags' : tags'[i] = tags'[j] => i = j
    <3>1. CASE tags' = <<>>
      BY <3>1
    <3>2. CASE params # NoFile /\ tags' = params[1]
      BY <3>2 DEF WorkbenchTypeOK, FileIsDistinct, Distinct
    <3> QED
      BY <1>1, <3>1, <3>2
  <2>2. selected' = 0 /\ entry' = NoText
    BY DEF Reopen
  <2> QED
    BY <2>1, <2>2 DEF TagEntryTypeOK
<1>3. HasTranscript \in BOOLEAN
  BY DEF HasTranscript
<1>4. {known, had, copy, editable, generable, renaming}' \subseteq BOOLEAN
  BY <1>3 DEF Reopen
<1>5. /\ opens' \in 1 .. MaxOpens /\ titlers' \in 0 .. MaxTitlers
      /\ {txt, json, newest, preview, rows}' \subseteq Versions
  BY WorkbenchAssumption DEF Reopen, WorkbenchTypeOK, Versions
<1>6. /\ {running, abort, titleLocked}' \subseteq BOOLEAN
      /\ thread' = "off" /\ saving' = 1 /\ ask' = <<>>
      /\ http' = "none" /\ reply' = "none" /\ unsaved' = FALSE
      /\ title' = titleFile /\ titleFile' = titleFile
      /\ UNCHANGED <<opus, params, backups, tmp>>
  BY DEF Reopen
<1>7. 1 \in 1 .. 3 /\ <<>> \in Seq(Terms) /\ {title, titleFile}' \subseteq Titles
      /\ (params' = NoFile \/ params'[1] \in Seq(Terms))
      /\ backups' \subseteq Versions /\ tmp' \subseteq {"txt", "json", "params"}
      /\ opus' \in BOOLEAN
  BY <1>6 DEF WorkbenchTypeOK
<1> QED
  BY <1>2, <1>4, <1>5, <1>6, <1>7 DEF WorkbenchTypeOK, Outcomes

\* The settings, the title and the renames.
LEMMA TypeWindow ==
  ASSUME WorkbenchTypeOK,
         EditTags \/ SpinSpeakers \/ TypeTitle \/ FlushTitle \/ GenerateTitle
           \/ TitleGenerated \/ ToggleRename \/ ApplyRename
  PROVE  WorkbenchTypeOK'
<1> USE DEF WorkbenchTypeOK, paramVars, fileVars, openVars, viewVars, runVars, titleVars,
            tagVars
<1>1. CASE EditTags \/ SpinSpeakers
  <2>1. TagEntryTypeOK'
    BY <1>1, TagEntryStep DEF EditTags, SpinSpeakers, TagEntryTypeOK
  <2>2. tags' \in Seq(Terms)
    BY <2>1 DEF TagEntryTypeOK
  <2>3. params' = params \/ params' = <<tags'>>
    BY <1>1 DEF EditTags, SpinSpeakers, SaveParams, SaveRaises, ParamsSaved
  <2>4. params' = NoFile \/ params'[1] \in Seq(Terms)
    BY <2>2, <2>3
  <2>5. tmp' \subseteq {"txt", "json", "params"}
    BY <1>1 DEF EditTags, SpinSpeakers, SaveParams, SaveRaises
  <2>6. unsaved' \in BOOLEAN
    BY <1>1 DEF EditTags, SpinSpeakers, SaveParams, ParamsSaved
  <2>7. SettingsStep
    BY <1>1 DEF EditTags, SpinSpeakers
  <2> QED
    BY <2>1, <2>4, <2>5, <2>6, <2>7 DEF SettingsStep
<1>2. CASE TypeTitle
  BY <1>2 DEF TypeTitle, TitleStep, Titles, TagEntryTypeOK
<1>3. CASE FlushTitle
  BY <1>3 DEF FlushTitle, TitleStep, TagEntryTypeOK
<1>4. CASE GenerateTitle
  <2>1. titlers' \in 0 .. MaxTitlers
    BY <1>4, WorkbenchAssumption DEF GenerateTitle, StartTitler
  <2> QED
    BY <1>4, <2>1 DEF GenerateTitle, StartTitler, TitleStep, Titles, TagEntryTypeOK
<1>5. CASE TitleGenerated
  <2>1. titlers \in 0 .. MaxTitlers /\ titlers > 0 /\ titlers' = titlers - 1
    BY <1>5 DEF TitleGenerated
  <2>2. titlers' \in 0 .. MaxTitlers
    BY <2>1, WorkbenchAssumption
  <2> QED
    BY <1>5, <2>2 DEF TitleGenerated, TitleStep, Titles, TagEntryTypeOK
<1>6. CASE ToggleRename
  <2>1. rows' \in Versions
    BY <1>6, WorkbenchAssumption DEF ToggleRename, Versions
  <2> QED
    BY <1>6, <2>1 DEF ToggleRename, RenameStep, TagEntryTypeOK
<1>7. CASE ApplyRename
  <2>1. newest + 1 \in Versions
    BY <1>7, KeptVersions DEF ApplyRename
  <2> QED
    BY <1>7, <2>1 DEF ApplyRename, Renamed, RenameStep, TagEntryTypeOK
<1> QED
  BY <1>1, <1>2, <1>3, <1>4, <1>5, <1>6, <1>7

\* The transcription, from the window's side and from its threads'.
LEMMA TypeRun ==
  ASSUME WorkbenchTypeOK, TitlersAreBounded,
         Transcribe \/ AskAbort \/ OnTranscribeDone \/ TranscribeThread \/ HttpReturns
  PROVE  WorkbenchTypeOK'
<1> USE DEF WorkbenchTypeOK, paramVars, fileVars, openVars, viewVars, titleVars, tagVars
<1>1. 0 \in Versions
  BY WorkbenchAssumption DEF Versions
<1>2. CASE Transcribe
  <2>1. ask' \in Seq(Terms) /\ TagEntryTypeOK'
    BY <1>2 DEF Transcribe, TagEntryTypeOK
  <2>2. {known, had, copy, editable, generable, renaming}' \subseteq BOOLEAN
    BY <1>2 DEF Transcribe, MarkTranscribing
  <2>3. {preview, rows}' \subseteq Versions
    BY <1>1, <1>2 DEF Transcribe, MarkTranscribing
  <2>4. /\ opus' \in BOOLEAN /\ {txt, json, newest}' \subseteq Versions
        /\ params' = NoFile \/ params'[1] \in Seq(Terms)
        /\ backups' \subseteq Versions /\ tmp' \subseteq {"txt", "json", "params"}
        /\ unsaved' \in BOOLEAN
        /\ opens' \in 1 .. MaxOpens /\ {running, abort, titleLocked}' \subseteq BOOLEAN
        /\ {title, titleFile}' \subseteq Titles /\ titlers' \in 0 .. MaxTitlers
    BY <1>2 DEF Transcribe
  <2>5. thread' = "check" /\ saving' = 1 /\ http' = "none" /\ reply' \in Outcomes
    BY <1>2 DEF Transcribe
  <2> QED
    BY <2>1, <2>2, <2>3, <2>4, <2>5
<1>3. CASE AskAbort
  BY <1>3 DEF AskAbort, TagEntryTypeOK
<1>4. CASE OnTranscribeDone
  <2>1. TagEntryTypeOK' /\ ask' \in Seq(Terms)
    BY <1>4 DEF OnTranscribeDone, TagEntryTypeOK
  <2>2. /\ {known, had, copy, editable, generable, renaming}' \subseteq BOOLEAN
        /\ {preview, rows}' \subseteq Versions
    BY <1>4 DEF OnTranscribeDone, MarkTranscribeDone, MarkTranscribeIdle, StartTitler
  <2>3. \/ titlers' = titlers
        \/ titlers' = titlers + 1 /\ titlers # MaxTitlers
    BY <1>4 DEF OnTranscribeDone, MarkTranscribeDone, MarkTranscribeIdle, StartTitler,
      TitlersAreBounded
  <2>4. titlers \in 0 .. MaxTitlers /\ MaxTitlers \in Nat
    BY WorkbenchAssumption
  <2>5. titlers' \in 0 .. MaxTitlers
    BY <2>3, <2>4
  <2>6. {title, titleFile}' \subseteq Titles /\ titleLocked' \in BOOLEAN
    BY <1>4 DEF OnTranscribeDone, MarkTranscribeDone, MarkTranscribeIdle, StartTitler,
      Titles
  <2>7. saving' = 1 /\ reply' = "none" /\ running' = FALSE
        /\ UNCHANGED <<fileVars, newest, openVars, abort, thread, http>>
    BY <1>4 DEF OnTranscribeDone
  <2>8. /\ opus' \in BOOLEAN /\ {txt, json, newest}' \subseteq Versions
        /\ params' = NoFile \/ params'[1] \in Seq(Terms)
        /\ backups' \subseteq Versions /\ tmp' \subseteq {"txt", "json", "params"}
        /\ unsaved' \in BOOLEAN
        /\ opens' \in 1 .. MaxOpens /\ {running, abort}' \subseteq BOOLEAN
    BY <2>7
  <2>9. /\ thread' \in {"off", "check", "downmix", "upload", "write", "replace", "dead"}
        /\ saving' \in 1 .. 3
        /\ http' \in {"none", "waiting", "answered", "failed"} /\ reply' \in Outcomes
    BY <2>7 DEF Outcomes
  <2> QED
    BY <2>1, <2>2, <2>5, <2>6, <2>8, <2>9
<1>5. CASE HttpReturns
  <2>1. newest' \in Versions
    BY <1>5, KeptVersions DEF HttpReturns
  <2> QED
    BY <1>5, <2>1 DEF HttpReturns, TagEntryTypeOK
<1>6. CASE TranscribeThread
  <2> USE DEF RunStep, Finish, Proceed, TagEntryTypeOK, Outcomes
  <2>0. Results[saving] \in {"txt", "json", "params"}
    BY DEF Results
  <2>1. CASE Check
    BY <1>1, <2>1 DEF Check
  <2>2. CASE Downmix
    BY <2>2 DEF Downmix
  <2>3. CASE UploadAborts \/ UploadReturns
    BY <2>3 DEF UploadAborts, UploadReturns
  <2>4. CASE WriteTmp
    <3>1. tmp' \subseteq {"txt", "json", "params"}
      BY <2>4, <2>0 DEF WriteTmp
    <3> QED
      BY <2>4, <3>1 DEF WriteTmp
  <2>5. CASE Replace
    <3>1. tmp' \subseteq {"txt", "json", "params"} /\ {txt, json}' \subseteq Versions
      BY <2>5 DEF Replace, Put
    <3>2. /\ params' = params \/ params' = <<ask>>
          /\ unsaved' \in BOOLEAN
      BY <2>5 DEF Replace, Put, ParamsSaved
    <3>3. params' = NoFile \/ params'[1] \in Seq(Terms)
      BY <3>2
    <3>4. saving' \in 1 .. 3
      BY <2>5 DEF Replace
    <3> QED
      BY <2>5, <3>1, <3>2, <3>3, <3>4 DEF Replace, Put
  <2> QED
    BY <1>6, <2>1, <2>2, <2>3, <2>4, <2>5 DEF TranscribeThread
<1> QED
  BY <1>2, <1>3, <1>4, <1>5, <1>6

-----------------------------------------------------------------------------
(* The invariant                                                           *)

\* The invariant holds at the start.
LEMMA InvInit == WorkbenchInit => WorkbenchInv
<1> SUFFICES ASSUME WorkbenchInit PROVE WorkbenchInv
  OBVIOUS
<1>1. TitlersAreBounded
  BY WorkbenchAssumption DEF WorkbenchInit, TitlersAreBounded
<1>2. params # NoFile => params = <<tags>>
  <2>1. ASSUME params # NoFile PROVE \E s \in TermLists : params = <<s>>
    BY <2>1 DEF WorkbenchInit
  <2>2. tags = Saved
    BY DEF WorkbenchInit, SetTags
  <2>3. ASSUME params # NoFile PROVE params = <<tags>>
    <3>1. PICK s \in TermLists : params = <<s>>
      BY <2>1, <2>3
    <3>2. Saved = s
      BY <2>3, <3>1 DEF Saved
    <3> QED
      BY <2>2, <3>1, <3>2
  <2> QED
    BY <2>3
<1>3. RunInv
  <2>1. /\ running = FALSE /\ thread = "off" /\ reply = "none" /\ saving = 1
        /\ preview = txt /\ rows = 0
    BY DEF WorkbenchInit
  <2>2. 1 \in 1 .. 3
    OBVIOUS
  <2> QED
    BY <1>2, <2>1, <2>2 DEF RunInv, RunHasTheFiles, Agreement,
      AbortedRunChangesNothing, ViewIsCurrent, ThreadOwnsItsTmp, ParamsFileIsWindow
<1>4. FileIsDistinct
  BY <1>2, TypeInit DEF FileIsDistinct, Distinct, WorkbenchTypeOK, TagEntryTypeOK
<1> QED
  BY <1>1, <1>3, <1>4, TypeInit DEF WorkbenchInv

\* The number of title threads stays within its bound.
LEMMA TitlerStep ==
  ASSUME WorkbenchTypeOK, TitlersAreBounded, [WorkbenchNext]_workbenchVars
  PROVE  TitlersAreBounded'
<1>1. titlers \in 0 .. MaxTitlers /\ MaxTitlers \in Nat \ {0}
  BY WorkbenchAssumption DEF WorkbenchTypeOK
<1> USE DEF TitlersAreBounded, titleVars
<1>2. CASE UNCHANGED titleVars
  BY <1>2
<1>3. CASE Reopen
  BY <1>1, <1>3 DEF Reopen
<1>4. CASE TypeTitle \/ FlushTitle
  BY <1>4 DEF TypeTitle, FlushTitle
<1>5. CASE GenerateTitle
  BY <1>5 DEF GenerateTitle, StartTitler
<1>6. CASE TitleGenerated
  <2>1. titlers > 0 /\ titlers' = titlers - 1
    BY <1>6 DEF TitleGenerated
  <2>2. titlers' # MaxTitlers
    BY <1>1, <2>1
  <2> QED
    BY <2>2
<1>7. CASE Transcribe
  BY <1>7 DEF Transcribe
<1>8. CASE OnTranscribeDone
  BY <1>8 DEF OnTranscribeDone, MarkTranscribeDone, MarkTranscribeIdle, StartTitler
<1>9. CASE EditTags \/ SpinSpeakers \/ ToggleRename \/ ApplyRename \/ AskAbort \/ TranscribeThread
             \/ HttpReturns
  BY <1>2, <1>9 DEF EditTags, SpinSpeakers, SettingsStep, ToggleRename, ApplyRename, RenameStep, AskAbort, RunStep,
    HttpReturns, TranscribeThread, Check, Downmix, UploadAborts, UploadReturns, WriteTmp,
    Replace
<1> QED
  BY <1>2, <1>3, <1>4, <1>5, <1>6, <1>7, <1>8, <1>9 DEF WorkbenchNext, workbenchVars

\* What the window does keeps a run's files as the run left them.
LEMMA RunWindowStep ==
  ASSUME WorkbenchTypeOK, FileIsDistinct, RunInv,
         \/ EditTags \/ SpinSpeakers
         \/ TypeTitle \/ FlushTitle \/ GenerateTitle \/ TitleGenerated
         \/ ToggleRename \/ ApplyRename
         \/ Reopen \/ Transcribe \/ AskAbort \/ OnTranscribeDone
  PROVE  RunInv'
<1> USE DEF RunInv, RunHasTheFiles, Agreement, AbortedRunChangesNothing, ViewIsCurrent,
            ThreadOwnsItsTmp, ParamsFileIsWindow, paramVars, fileVars, openVars,
            viewVars, runVars, titleVars, tagVars
<1>1. CASE EditTags \/ SpinSpeakers
  <2>1. editable /\ SettingsStep
    BY <1>1 DEF EditTags, SpinSpeakers
  <2>2. ~running /\ thread = "off" /\ reply = "none"
    BY <2>1
  <2>3. params' # NoFile /\ ~unsaved' => params' = <<tags'>>
    BY <1>1 DEF EditTags, SpinSpeakers, SaveParams, SaveRaises, ParamsSaved
  <2> QED
    BY <2>1, <2>2, <2>3 DEF SettingsStep
<1>2. CASE TypeTitle \/ FlushTitle \/ GenerateTitle \/ TitleGenerated
  <2>1. TitleStep
    BY <1>2 DEF TypeTitle, FlushTitle, GenerateTitle, TitleGenerated
  <2> QED
    BY <2>1 DEF TitleStep
<1>3. CASE ToggleRename \/ ApplyRename
  <2>1. ~running /\ thread = "off" /\ reply = "none"
    BY <1>3 DEF ToggleRename, ApplyRename
  <2> QED
    BY <1>3, <2>1 DEF ToggleRename, ApplyRename, RenameStep, Renamed
<1>4. CASE Reopen
  <2>1. params # NoFile => params = <<Saved>>
    <3>2. CASE params = <<params[1]>>
      BY <3>2 DEF Saved
    <3> QED
      BY <3>2 DEF FileIsDistinct
  <2> QED
    BY <1>4, <2>1 DEF Reopen
<1>5. CASE Transcribe
  BY <1>5 DEF Transcribe, MarkTranscribing
<1>6. CASE AskAbort
  BY <1>6 DEF AskAbort
<1>7. CASE OnTranscribeDone
  <2>1. thread = "off" /\ running
    BY <1>7 DEF OnTranscribeDone
  <2>2. /\ running' = FALSE /\ reply' = "none" /\ saving' = 1
        /\ UNCHANGED <<thread, params, unsaved, tags, txt>>
    BY <1>7 DEF OnTranscribeDone
  <2>3. (preview' = txt \/ preview' = preview) /\ rows' = rows
    BY <1>7 DEF OnTranscribeDone, MarkTranscribeDone, MarkTranscribeIdle
  <2>4. 1 \in 1 .. 3
    OBVIOUS
  <2> QED
    BY <2>1, <2>2, <2>3, <2>4
<1> QED
  BY <1>1, <1>2, <1>3, <1>4, <1>5, <1>6, <1>7

\* A run writes last, and each file through a .tmp that is still there.
LEMMA RunThreadStep ==
  ASSUME WorkbenchTypeOK, RunInv, TranscribeThread \/ HttpReturns
  PROVE  RunInv'
<1> USE DEF RunInv, RunHasTheFiles, Agreement, AbortedRunChangesNothing, ViewIsCurrent,
            ThreadOwnsItsTmp, ParamsFileIsWindow, paramVars, fileVars, openVars,
            viewVars, titleVars, tagVars, RunStep, Finish, Proceed
<1>1. CASE HttpReturns
  BY <1>1 DEF HttpReturns
<1>2. CASE Check
  BY <1>2 DEF Check
<1>3. CASE Downmix
  BY <1>3 DEF Downmix
<1>4. CASE UploadAborts \/ UploadReturns
  BY <1>4 DEF UploadAborts, UploadReturns
<1>5. CASE WriteTmp
  BY <1>5 DEF WriteTmp
<1>6. CASE Replace
  <2>1. running /\ preview = 0 /\ rows = 0 /\ ask = tags
    BY <1>6 DEF Replace
  <2>2. saving' \in 1 .. 3
    BY <1>6 DEF Replace
  <2>3. UNCHANGED <<running, editable, renaming, preview, rows, ask, tags, before>>
    BY <1>6 DEF Replace
  <2>4. params' # NoFile /\ ~unsaved' => params' = <<tags'>>
    BY <1>6, <2>1 DEF Replace, Put, ParamsSaved
  <2>6. thread' = "write" => saving' # 1
    BY <1>6 DEF Replace
  <2>5. /\ thread' \in {"off", "write"} /\ reply' \in {"failed", "success", "none"}
        /\ thread' # "off" => reply' = "none"
    BY <1>6 DEF Replace
  <2> QED
    BY <2>1, <2>2, <2>3, <2>4, <2>5, <2>6
<1> QED
  BY <1>1, <1>2, <1>3, <1>4, <1>5, <1>6 DEF TranscribeThread

\* Whoever writes the settings writes terms that are distinct.
LEMMA FileStep ==
  ASSUME WorkbenchTypeOK, FileIsDistinct, RunInv, [WorkbenchNext]_workbenchVars
  PROVE  FileIsDistinct'
<1> USE DEF paramVars, fileVars
<1>1. Distinct(tags)
  BY DEF WorkbenchTypeOK, TagEntryTypeOK, Distinct
<1>2. CASE UNCHANGED params
  BY <1>2 DEF FileIsDistinct, Distinct
<1>3. CASE EditTags \/ SpinSpeakers
  <2>1. params' = params \/ params' = <<tags'>>
    BY <1>3 DEF EditTags, SpinSpeakers, SaveParams, SaveRaises, ParamsSaved
  <2>2. TagEntryTypeOK'
    BY <1>3, TagEntryStep DEF EditTags, SpinSpeakers, WorkbenchTypeOK, TagEntryTypeOK, tagVars
  <2> QED
    BY <1>2, <2>1, <2>2 DEF FileIsDistinct, Distinct, TagEntryTypeOK
<1>4. CASE TranscribeThread
  <2>1. thread = "replace" => ask = tags
    BY DEF RunInv, RunHasTheFiles
  <2>2. params' = params \/ params' = <<tags>>
    BY <1>4, <2>1 DEF TranscribeThread, Check, Downmix, UploadAborts, UploadReturns,
      WriteTmp, Replace, Put, ParamsSaved, Finish, Proceed
  <2> QED
    BY <1>1, <1>2, <2>2 DEF FileIsDistinct, Distinct
<1>5. CASE \/ TypeTitle \/ FlushTitle \/ GenerateTitle \/ TitleGenerated
           \/ ToggleRename \/ ApplyRename
           \/ Reopen \/ Transcribe \/ AskAbort \/ OnTranscribeDone \/ HttpReturns
  BY <1>2, <1>5 DEF TypeTitle, FlushTitle, GenerateTitle, TitleGenerated, TitleStep,
    ToggleRename, ApplyRename, RenameStep, Reopen, Transcribe, AskAbort, OnTranscribeDone,
    HttpReturns
<1> QED
  BY <1>2, <1>3, <1>4, <1>5 DEF WorkbenchNext, workbenchVars

\* Every step keeps the invariant.
LEMMA InvStep == WorkbenchInv /\ [WorkbenchNext]_workbenchVars => WorkbenchInv'
<1> SUFFICES ASSUME WorkbenchInv, [WorkbenchNext]_workbenchVars PROVE WorkbenchInv'
  OBVIOUS
<1> USE DEF WorkbenchInv
<1>1. FileIsDistinct'
  BY FileStep
<1>2. CASE UNCHANGED workbenchVars
  <2>1. WorkbenchTypeOK'
    BY <1>2 DEF workbenchVars, paramVars, fileVars, openVars, viewVars, runVars, titleVars,
      tagVars, WorkbenchTypeOK, TagEntryTypeOK
  <2>2. RunInv'
    BY <1>2 DEF workbenchVars, paramVars, fileVars, openVars, viewVars, runVars, titleVars,
      tagVars, RunInv, RunHasTheFiles, Agreement, AbortedRunChangesNothing, ViewIsCurrent,
      ThreadOwnsItsTmp, ParamsFileIsWindow
  <2> QED
    BY <1>1, <2>1, <2>2, TitlerStep
<1>3. CASE WorkbenchNext
  <2>1. WorkbenchTypeOK'
    BY <1>3, TypeReopen, TypeWindow, TypeRun DEF WorkbenchNext
  <2>2. RunInv'
    BY <1>3, RunWindowStep, RunThreadStep DEF WorkbenchNext
  <2> QED
    BY <1>1, <2>1, <2>2, TitlerStep
<1> QED
  BY <1>2, <1>3

-----------------------------------------------------------------------------
(* The theorems                                                            *)

\* The invariant holds in every reachable state.
THEOREM InvHolds == WorkbenchSpec => []WorkbenchInv
  BY InvInit, InvStep, PTL DEF WorkbenchSpec

\* Whatever is typed, clicked and written, and whatever fails, every variable
\* keeps its type: the key terms stay distinct.
THEOREM WorkbenchTypes == WorkbenchSpec => []WorkbenchTypeOK
<1>1. WorkbenchInv => WorkbenchTypeOK
  BY DEF WorkbenchInv
<1> QED
  BY <1>1, InvHolds, PTL

\* A run that ends as aborted has changed no file (transcribe.py:94-130).
THEOREM AbortIsClean == WorkbenchSpec => []AbortedRunChangesNothing
<1>1. WorkbenchInv => AbortedRunChangesNothing
  BY DEF WorkbenchInv, RunInv, Agreement
<1> QED
  BY <1>1, InvHolds, PTL

\* The preview and the rows to rename are the transcript's (process_ui.py:633).
THEOREM WindowShowsTheFile == WorkbenchSpec => []ViewIsCurrent
<1>1. WorkbenchInv => ViewIsCurrent
  BY DEF WorkbenchInv, RunInv, Agreement
<1> QED
  BY <1>1, InvHolds, PTL

\* The .tmp a thread moves into place is its own (transcribe.py:361-366).
THEOREM TmpIsTheThreads == WorkbenchSpec => []ThreadOwnsItsTmp
<1>1. WorkbenchInv => ThreadOwnsItsTmp
  BY DEF WorkbenchInv, RunInv, Agreement
<1> QED
  BY <1>1, InvHolds, PTL

\* The settings on disk are the window's, except from a save that raised to the
\* next that does not (process_ui.py:831-844, transcribe.py:347).
THEOREM SettingsAreTheWindows == WorkbenchSpec => []ParamsFileIsWindow
<1>1. WorkbenchInv => ParamsFileIsWindow
  BY DEF WorkbenchInv, RunInv, Agreement
<1> QED
  BY <1>1, InvHolds, PTL

\* Only a removal that could not be saved puts the selection past the end of the
\* list, and what touches either next brings it back (process_ui.py:93-147).
THEOREM SelectionStaysATerm == WorkbenchSpec => SelectionIsATerm
<1> DEFINE Corrected ==
      selected' > Len(tags') =>
        \/ tags' # tags /\ unsaved'
        \/ UNCHANGED <<tags, selected>>
<1>1. WorkbenchInv /\ [WorkbenchNext]_workbenchVars => [Corrected]_workbenchVars
  <2> SUFFICES ASSUME WorkbenchInv, WorkbenchNext PROVE Corrected
    OBVIOUS
  <2> USE DEF tagVars
  <2>1. CASE EditTags
    <3>1. CASE TagEntryNext
      <4>1. selected' <= Len(tags') /\ TagEntryTypeOK'
        BY <3>1, SelectionStep, TagEntryStep DEF WorkbenchInv, WorkbenchTypeOK
      <4>2. selected' \in Nat /\ Len(tags') \in Nat
        BY <4>1 DEF TagEntryTypeOK
      <4> QED
        BY <4>1, <4>2
    <3>2. CASE CommitText /\ unsaved'
      <4>1. selected' = 0 /\ TagEntryTypeOK'
        BY <3>2, TagEntryStep DEF CommitText, Deselect, TagEntryRaises, WorkbenchInv,
          WorkbenchTypeOK
      <4>2. Len(tags') \in Nat
        BY <4>1 DEF TagEntryTypeOK
      <4> QED
        BY <4>1, <4>2
    <3>3. ASSUME NEW i \in DOMAIN tags, RemovalRaises(i), unsaved' PROVE Corrected
      <4>1. Len(tags') = Len(tags) - 1 /\ Len(tags) \in Nat
        BY <3>3, WithoutTypes DEF RemovalRaises, WorkbenchInv, WorkbenchTypeOK,
          TagEntryTypeOK, Distinct
      <4>2. tags' # tags
        BY <4>1
      <4> QED
        BY <3>3, <4>2
    <3> QED
      BY <2>1, <3>1, <3>2, <3>3 DEF EditTags, TagEntryRaises
  <2>2. CASE Reopen
    <3>1. selected' = 0 /\ tags' \in Seq(Terms)
      BY <2>2, TypeReopen DEF Reopen, WorkbenchInv, WorkbenchTypeOK, TagEntryTypeOK
    <3> QED
      BY <3>1
  <2>3. CASE \/ SpinSpeakers \/ TypeTitle \/ FlushTitle \/ GenerateTitle \/ TitleGenerated
             \/ ToggleRename \/ ApplyRename
    BY <2>3 DEF SpinSpeakers, TypeTitle, FlushTitle, GenerateTitle, TitleGenerated,
      TitleStep, ToggleRename, ApplyRename, RenameStep
  <2>4. CASE Transcribe \/ AskAbort \/ OnTranscribeDone \/ TranscribeThread \/ HttpReturns
    BY <2>4 DEF Transcribe, AskAbort, OnTranscribeDone, HttpReturns, TranscribeThread,
      Check, Downmix, UploadAborts, UploadReturns, WriteTmp, Replace, RunStep
  <2> QED
    BY <2>1, <2>2, <2>3, <2>4 DEF WorkbenchNext
<1> QED
  BY <1>1, InvHolds, PTL DEF WorkbenchSpec, SelectionIsATerm

\* A transcript gives way only to the run that started from it, or is kept in a
\* backup: nothing renames or starts a run between a run's start and its first
\* file (process_ui.py:792-815, transcribe.py:338-346).
THEOREM TextsAreKept == WorkbenchSpec => NoTextLost
<1> DEFINE Kept ==
      txt' # txt => \/ txt = 0 \/ txt \in backups'
                    \/ thread = "replace" /\ UNCHANGED newest /\ txt = before[1]
<1>1. WorkbenchInv /\ [WorkbenchNext]_workbenchVars => [Kept]_workbenchVars
  <2> SUFFICES ASSUME WorkbenchInv, WorkbenchNext, txt' # txt PROVE Kept
    OBVIOUS
  <2> USE DEF fileVars
  <2>1. CASE ApplyRename
    BY <2>1 DEF ApplyRename
  <2>2. CASE TranscribeThread
    <3>1. thread = "replace" /\ UNCHANGED newest /\ Results[saving] = "txt"
      BY <2>2 DEF TranscribeThread, Check, Downmix, UploadAborts, UploadReturns, WriteTmp,
        Replace, Put, Finish, Proceed
    <3>2. saving = 1
      BY <3>1 DEF WorkbenchInv, RunInv, Results
    <3>3. txt = before[1]
      BY <3>1, <3>2 DEF WorkbenchInv, RunInv, RunHasTheFiles
    <3> QED
      BY <3>1, <3>3
  <2>3. ~(\/ Reopen \/ EditTags \/ SpinSpeakers \/ TypeTitle \/ FlushTitle \/ GenerateTitle
          \/ TitleGenerated)
    BY DEF Reopen, EditTags, SpinSpeakers, SettingsStep, TypeTitle, FlushTitle,
      GenerateTitle, TitleGenerated, TitleStep
  <2>4. ~(ToggleRename \/ Transcribe \/ AskAbort \/ OnTranscribeDone \/ HttpReturns)
    BY DEF ToggleRename, Transcribe, AskAbort, OnTranscribeDone, HttpReturns
  <2> QED
    BY <2>1, <2>2, <2>3, <2>4 DEF WorkbenchNext
<1> QED
  BY <1>1, InvHolds, PTL DEF WorkbenchSpec, NoTextLost

=============================================================================
