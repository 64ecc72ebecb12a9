------------------------------ MODULE TagEntry ------------------------------
(***************************************************************************)
(* The key-terms entry of the meeting workbench (meeting/process_ui.py,    *)
(* class TagEntry): committed terms shown as pills, one of which may be    *)
(* selected from the keyboard, and the text being typed.  The list is      *)
(* indexed from 1 here; selected = 0 is None.  A click on a pill acts in an *)
(* idle of its own, which runs before the user's next event.  Every change *)
(* ends in on_change, the owner's save: where that raises, nobody catches, *)
(* the handler is left there and the window goes on.                       *)
(***************************************************************************)
EXTENDS Integers, Sequences

CONSTANT Terms     \* what the user may type

VARIABLES
  tags,       \* _tags
  selected,   \* _selected_idx
  entry       \* the text in the entry, stripped

tagVars == <<tags, selected, entry>>

NoText == ""

ASSUME TagEntryAssumption == NoText \notin Terms

Members(s) == {s[i] : i \in DOMAIN s}

\* The terms are distinct.  A selection need not be one of them (RemovalRaises).
TagEntryTypeOK ==
  /\ tags \in Seq(Terms)
  /\ \A i, j \in DOMAIN tags : tags[i] = tags[j] => i = j
  /\ selected \in Nat
  /\ entry \in Terms \cup {NoText}

\* set_tags on a new entry, which drops repeated terms.
SetTags(terms) == tags = terms /\ selected = 0 /\ entry = NoText

\* _remove_tag_at, which leaves the list alone when there is no such term.
Without(i) ==
  IF i \in DOMAIN tags THEN SubSeq(tags, 1, i - 1) \o SubSeq(tags, i + 1, Len(tags))
                      ELSE tags

Deselect == selected' = 0

\* Any other key deselects and goes into the entry.
Type(text) == entry' = text /\ Deselect /\ UNCHANGED tags

CommitAnyText ==      \* mutant: a term already listed is added again
  /\ entry # NoText
  /\ tags' = Append(tags, entry) /\ entry' = NoText /\ Deselect

CommitText ==
  /\ entry \notin Members(tags) \cup {NoText}
  /\ tags' = Append(tags, entry) /\ entry' = NoText /\ Deselect

\* Enter with nothing typed, a double click: the term goes back to the entry.
EditTag(i) == tags' = Without(i) /\ entry' = tags[i] /\ Deselect

KeyEnter ==
  \/ CommitText
  \/ entry = NoText /\ selected \in DOMAIN tags /\ EditTag(selected)

RemoveSelectedStays ==      \* mutant: the selection is not moved to the last term
  /\ selected # 0
  /\ tags' = Without(selected)
  /\ UNCHANGED <<selected, entry>>

\* Delete; BackSpace in an empty entry.  The selection stays at its place, or
\* goes to the last term, or to none.
RemoveSelected ==
  /\ selected # 0
  /\ tags' = Without(selected)
  /\ selected' = IF selected <= Len(tags') THEN selected ELSE Len(tags')
  /\ UNCHANGED entry

SelectLast ==
  /\ entry = NoText /\ selected = 0 /\ tags # <<>>
  /\ selected' = Len(tags)
  /\ UNCHANGED <<tags, entry>>

KeyLeft ==
  /\ entry = NoText /\ selected > 1
  /\ selected' = IF selected - 1 \in DOMAIN tags THEN selected - 1 ELSE 0
  /\ UNCHANGED <<tags, entry>>

KeyRight ==
  /\ selected # 0
  /\ selected' = IF selected < Len(tags) THEN selected + 1 ELSE 0
  /\ UNCHANGED <<tags, entry>>

ClosePill(i) == tags' = Without(i) /\ Deselect /\ UNCHANGED entry

TagEntryNext ==
  \/ \E text \in Terms \cup {NoText} : Type(text)
  \/ KeyEnter \/ RemoveSelected \/ SelectLast \/ KeyLeft \/ KeyRight
  \/ \E i \in DOMAIN tags : ClosePill(i) \/ EditTag(i)

\* on_change raises inside _remove_tag_at, under any of the keys and clicks that
\* remove a term: the list is shorter, and the selection, which the handler
\* would have corrected after it, is not, nor is the entry filled.
RemovalRaises(i) == tags' = Without(i) /\ UNCHANGED <<selected, entry>>

\* A change whose on_change raises: adding a term calls it last of all.
TagEntryRaises == CommitText \/ \E i \in DOMAIN tags : RemovalRaises(i)

=============================================================================
