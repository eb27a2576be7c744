--------------------------- MODULE PlayerNoteWindow ---------------------------
(***************************************************************************)
(* Notes about other players: the window they are written in, which keeps  *)
(* a draft while the user types, asks the database thread to store it, and *)
(* learns the outcome from the snapshot the thread publishes; the tags and *)
(* the record of games with the player, which come the same way.  A window *)
(* may be closed and opened for another player before its answer is there. *)
(***************************************************************************)
EXTENDS Naturals, Sequences, FiniteSets

CONSTANTS
  KnownPlayers,         \* the players that have an account
  Bot,           \* one that has none
  NoteTexts,     \* what a note may say
  NoText,        \* the empty note
  Tags,          \* the tags
  TagLimit,      \* kMaxTagsPerPlayer
  FirstNotes,    \* the notes there may be at first
  MaxAsked,      \* bound: how many notes are saved or deleted and tags changed
  MaxShown,      \* bound: how often the window is opened
  MaxRefused     \* bound: how often SQLite refuses, or the queue is full

ASSUME NoteAssumption ==
  /\ NoText \notin NoteTexts /\ Bot \notin KnownPlayers
  /\ FirstNotes \subseteq [KnownPlayers -> NoteTexts \cup {NoText}]
  /\ {TagLimit, MaxAsked, MaxShown, MaxRefused} \subseteq Nat

VARIABLES
  noteRows, tagRows,  \* the tables
  notes,       \* the published snapshot: loaded, loadFailed, byKey, tagsByKey, and of the note
               \* and the tag request done last its id and whether it went well
  scouted,     \* the published record: requestId (0: none)
  urgent,      \* the thread's critical jobs
  normal,      \* its others
  view,      \* PlayerNoteView
  seen,        \* m_lastViewNotesVersion, m_lastScoutViewVersion, the players marked as noted
  asked,       \* the note requests of the user, by id
  tagIds,      \* m_nextPlayerTagRequestId
  scoutOf,     \* by m_nextScoutRequestId, whose record was asked for
  typed,       \* the user typed while a request was under way
  refusals

noteVars == <<noteRows, tagRows, notes, scouted, urgent, normal, view, seen, asked,
              tagIds, scoutOf, typed, refusals>>
bothTables == <<noteRows, tagRows>>
told == <<notes, scouted>>

Anyone == KnownPlayers \cup {Bot}
Drafts == NoteTexts \cup {NoText}
NoOpen == "nobody"
Closed == [open |-> FALSE, player |-> NoOpen, draft |-> NoText, saved |-> NoText, pending |-> 0,
           tagPending |-> 0, tags |-> {}, confirm |-> "no", scout |-> "no"]

-----------------------------------------------------------------------------
NotesInit ==
  /\ noteRows \in FirstNotes /\ tagRows = [p \in KnownPlayers |-> {}]
  /\ notes = [loaded |-> FALSE, failed |-> FALSE, byKey |-> [p \in KnownPlayers |-> NoText],
              tagsByKey |-> [p \in KnownPlayers |-> {}], done |-> 0, ok |-> TRUE,
              tagDone |-> 0, tagOk |-> TRUE, version |-> 0]
  /\ scouted = 0 /\ urgent = <<>>
  /\ normal = <<[kind |-> "load"]>>
  /\ view = Closed /\ seen = [notes |-> 0, scout |-> 0, noted |-> {}]
  /\ asked = <<>> /\ tagIds = 0 /\ scoutOf = <<>> /\ typed = FALSE /\ refusals = 0

Available == view.open /\ view.player \in KnownPlayers
IsDirty == Available /\ view.draft # view.saved
Saving == view.pending # 0

-----------------------------------------------------------------------------
\* The database thread: critical jobs first.

JobTaken ==
  IF urgent # <<>> THEN urgent' = Tail(urgent) /\ UNCHANGED normal
  ELSE normal' = Tail(normal) /\ UNCHANGED urgent

NextJob == IF urgent # <<>> THEN Head(urgent) ELSE Head(normal)

\* The repository.  A tag that is there is no error, one too many is.
ReadNotes(ok) == IF ok THEN noteRows ELSE [p \in KnownPlayers |-> NoText]
ReadTags(ok) == IF ok THEN tagRows ELSE [p \in KnownPlayers |-> {}]
WithNote(p, text) == [noteRows EXCEPT ![p] = text]
WithoutNote(p) == [noteRows EXCEPT ![p] = NoText]
Tagged(p, tag, add) == IF add THEN tagRows[p] \cup {tag} ELSE tagRows[p] \ {tag}
TagFits(p, tag, add) ==
  ~add \/ tag \in tagRows[p] \/ Cardinality(tagRows[p]) < TagLimit

\* PlayerNotesStore.
NextVersion(n) == [n EXCEPT !.version = @ + 1]

\* A table that cannot be read leaves an empty list.
PublishLoaded(ok) ==
  NextVersion([notes EXCEPT !.loaded = TRUE, !.failed = ~ok, !.byKey = ReadNotes(ok),
               !.tagsByKey = ReadTags(ok)])

PublishNoteSaved(job, ok) ==
  NextVersion([notes EXCEPT !.byKey[job.player] = IF ok THEN job.text ELSE @,
               !.done = job.id, !.ok = ok])

\* The tags read back after they were stored, where that worked.
PublishTagUpdated(job, ok, tags) ==
  NextVersion([notes EXCEPT !.tagsByKey[job.player] = IF ok THEN tags ELSE @,
               !.tagDone = job.id, !.tagOk = ok])

PublishScout(job) == IF job.id < scouted THEN scouted ELSE job.id

\* AsyncLoadPlayerNotes.
LoadNotes(ok) ==
  /\ NextJob.kind = "load" /\ notes' = PublishLoaded(ok) /\ UNCHANGED <<bothTables, scouted>>

\* AsyncSavePlayerNote; of an empty text, and for AsyncDeletePlayerNote, the row goes.
StoreNote(ok) ==
  /\ NextJob.kind = "note" /\ notes' = PublishNoteSaved(NextJob, ok)
  /\ noteRows' = IF ~ok THEN noteRows
                 ELSE IF NextJob.text = NoText THEN WithoutNote(NextJob.player)
                 ELSE WithNote(NextJob.player, NextJob.text)
  /\ UNCHANGED <<tagRows, scouted>>

\* AsyncSetPlayerTag.
StoreTag(ok, readBack) ==
  /\ NextJob.kind = "tag" /\ UNCHANGED <<noteRows, scouted>>
  /\ LET p == NextJob.player
         stored == ok /\ TagFits(p, NextJob.tag, NextJob.add)
     IN /\ tagRows' = IF stored THEN [tagRows EXCEPT ![p] = Tagged(p, NextJob.tag, NextJob.add)]
                      ELSE tagRows
        /\ notes' = PublishTagUpdated(NextJob, stored,
                      IF readBack THEN tagRows'[p] ELSE notes.tagsByKey[p])

\* AsyncGetPlayerScout.
GetScout == NextJob.kind = "scout" /\ scouted' = PublishScout(NextJob) /\ UNCHANGED <<bothTables, notes>>

RunJob ==
  /\ urgent # <<>> \/ normal # <<>>
  /\ JobTaken
  /\ \E ok, readBack \in BOOLEAN :
       /\ (ok /\ readBack) \/ refusals < MaxRefused
       /\ refusals' = IF ok /\ readBack THEN refusals ELSE refusals + 1
       /\ LoadNotes(ok) \/ StoreNote(ok) \/ StoreTag(ok, readBack) \/ GetScout
  /\ UNCHANGED <<view, seen, asked, tagIds, scoutOf, typed>>

-----------------------------------------------------------------------------
\* What the user does.

Opened(p) ==
  LET known == p \in KnownPlayers
      text == IF known THEN notes.byKey[p] ELSE NoText
  IN [Closed EXCEPT !.open = TRUE, !.player = p, !.draft = text, !.saved = text,
        !.tags = IF known THEN notes.tagsByKey[p] ELSE {},
        !.scout = IF known THEN "loading" ELSE "failed"]

\* ShowPlayerNote: an open note with changes stays; else the saved note is shown, and the
\* record of games with the player asked for, which a full queue drops.
ShowPlayerNote(p, dropped) ==
  /\ ~IsDirty /\ notes.loaded /\ (dropped => refusals < MaxRefused)
  /\ view' = Opened(p)
  /\ Len(scoutOf) < MaxShown /\ scoutOf' = Append(scoutOf, p)
  /\ normal' = IF p \in KnownPlayers /\ ~dropped
               THEN Append(normal, [kind |-> "scout", id |-> Len(scoutOf')]) ELSE normal
  /\ refusals' = IF dropped THEN refusals + 1 ELSE refusals
  /\ UNCHANGED <<bothTables, told, urgent, seen, asked, tagIds, typed>>

OnlyWindow == UNCHANGED <<bothTables, told, urgent, normal, seen, asked, tagIds, scoutOf, refusals>>

SetDraft(t) ==
  /\ Available /\ t # view.draft /\ view' = [view EXCEPT !.draft = t]
  /\ typed' = (Saving \/ typed) /\ OnlyWindow

\* RequestClose: changes are dropped only once the user has said so.
RequestClosePlayerNote ==
  /\ view.open /\ OnlyWindow /\ UNCHANGED typed
  /\ view' = IF IsDirty /\ view.confirm # "discard"
               THEN [view EXCEPT !.confirm = "discard"] ELSE Closed

KeepEditing ==
  /\ view.confirm = "discard" /\ view' = [view EXCEPT !.confirm = "no"]
  /\ OnlyWindow /\ UNCHANGED typed

\* HidePlayerNote, by the button to discard, and by opening a match of a note without changes.
HidePlayerNote ==
  /\ view.open /\ (view.confirm = "discard" \/ ~IsDirty)
  /\ view' = Closed /\ OnlyWindow /\ UNCHANGED typed

RequestDelete ==
  /\ view.open /\ view.saved # NoText /\ ~Saving
  /\ view' = [view EXCEPT !.confirm = "delete"] /\ OnlyWindow /\ UNCHANGED typed

CancelDelete ==
  /\ view.confirm = "delete" /\ view' = [view EXCEPT !.confirm = "no"]
  /\ OnlyWindow /\ UNCHANGED typed

Ask(text) ==
  LET id == Len(asked) + 1
  IN /\ id + tagIds <= MaxAsked /\ typed' = FALSE
     /\ asked' = Append(asked, [player |-> view.player, text |-> text, over |-> view.saved])
     /\ urgent' = Append(urgent, [kind |-> "note", player |-> view.player, text |-> text,
                                  id |-> id])
     /\ view' = [view EXCEPT !.pending = id, !.confirm = "no"]
     /\ UNCHANGED <<bothTables, told, normal, seen, tagIds, scoutOf, refusals>>

\* BeginSave.
Save == IsDirty /\ ~Saving /\ Ask(view.draft)

\* BeginDelete.
ConfirmDelete == view.confirm = "delete" /\ Available /\ ~Saving /\ Ask(NoText)

\* BeginTagChange.
ChangeTag(tag, add) ==
  /\ Available /\ view.tagPending = 0 /\ tagIds' = tagIds + 1
  /\ Len(asked) + tagIds' <= MaxAsked
  /\ add \/ tag \in view.tags
  /\ view' = [view EXCEPT !.tagPending = tagIds']
  /\ urgent' = Append(urgent, [kind |-> "tag", player |-> view.player, tag |-> tag,
                               add |-> add, id |-> tagIds'])
  /\ UNCHANGED <<bothTables, told, normal, seen, asked, scoutOf, typed, refusals>>

-----------------------------------------------------------------------------
\* The next frame: RefreshPlayerNote.

\* SetSaved.
WithSaved(w, text, replaceDraft) ==
  [w EXCEPT !.saved = text, !.draft = IF replaceDraft THEN text ELSE @]

\* Mutant: a new reading replaces what is being typed.
NoteReplaced(w) ==
  IF w.player \notin KnownPlayers THEN w ELSE WithSaved(w, notes.byKey[w.player], TRUE)

\* ApplyResult of the request that is waited for, else SyncSaved.
NoteAnswered(w) ==
  IF w.player \notin KnownPlayers THEN w
  ELSE LET text == notes.byKey[w.player]
       IN IF w.pending # 0
          THEN IF notes.done # w.pending THEN w
               ELSE IF notes.ok THEN WithSaved([w EXCEPT !.pending = 0], text, TRUE)
               ELSE [w EXCEPT !.pending = 0]
          ELSE WithSaved(w, text, ~IsDirty)

\* ApplyTagResult, else SetTags.
TagsAnswered(w) ==
  IF w.player \notin KnownPlayers THEN w
  ELSE IF w.tagPending = 0 \/ (notes.tagDone = w.tagPending /\ notes.tagOk)
       THEN [w EXCEPT !.tagPending = 0, !.tags = notes.tagsByKey[w.player]]
       ELSE IF notes.tagDone = w.tagPending THEN [w EXCEPT !.tagPending = 0] ELSE w

\* The record is shown when it is the last one asked for.
ScoutAnswered(w) ==
  IF scouted = Len(scoutOf) /\ scouted # 0 /\ scoutOf[scouted] = w.player
  THEN [w EXCEPT !.scout = "ready"] ELSE w

WithNotes == {p \in KnownPlayers : notes.byKey[p] # NoText \/ notes.tagsByKey[p] # {}}

RefreshPlayerNote ==
  LET newNotes == notes.version # seen.notes
      newScout == scouted # seen.scout /\ view.open
      answered == IF newNotes /\ view.open THEN TagsAnswered(NoteAnswered(view)) ELSE view
  IN /\ newNotes \/ newScout
     /\ seen' = [notes |-> notes.version, scout |-> IF newScout THEN scouted ELSE seen.scout,
                 noted |-> IF newNotes THEN WithNotes ELSE seen.noted]
     /\ view' = IF newScout THEN ScoutAnswered(answered) ELSE answered
     /\ UNCHANGED <<bothTables, told, urgent, normal, asked, tagIds, scoutOf, typed, refusals>>

-----------------------------------------------------------------------------
NotesNext ==
  \/ RunJob \/ RefreshPlayerNote
  \/ \E p \in Anyone, dropped \in BOOLEAN : ShowPlayerNote(p, dropped)
  \/ \E t \in Drafts : SetDraft(t)
  \/ RequestClosePlayerNote \/ KeepEditing \/ HidePlayerNote
  \/ RequestDelete \/ CancelDelete \/ Save \/ ConfirmDelete
  \/ \E tag \in Tags, add \in BOOLEAN : ChangeTag(tag, add)

NotesSpec == NotesInit /\ [][NotesNext]_noteVars

-----------------------------------------------------------------------------
NotesTypeOK ==
  /\ noteRows \in [KnownPlayers -> Drafts] /\ tagRows \in [KnownPlayers -> SUBSET Tags]
  /\ view.player \in Anyone \cup {NoOpen} /\ view.draft \in Drafts /\ view.saved \in Drafts
  /\ view.pending \in 0..Len(asked) /\ view.tagPending \in 0..tagIds
  /\ view.confirm \in {"no", "discard", "delete"}
  /\ view.scout \in {"no", "loading", "ready", "failed"}
  /\ seen.notes \in 0..notes.version /\ seen.scout \in 0..Len(scoutOf) /\ scouted \in 0..Len(scoutOf)

NoJobOf(p) == ~\E i \in DOMAIN urgent : urgent[i].player = p

\* A window that waits for nothing shows what the tables say of its player, the tags too, once
\* the last snapshot was looked at: an answer to a window that was closed, or to the one opened
\* before it, does not leave another player's text in it (RefreshPlayerNote).  A request that
\* failed leaves the text the window had.
WindowShowsRow ==
  /\ view.open /\ view.player \in KnownPlayers /\ seen.notes = notes.version
  /\ NoJobOf(view.player) /\ ~notes.failed
  => /\ ~Saving /\ view.tagPending = 0
     /\ notes.ok => view.saved = noteRows[view.player]
     /\ refusals = 0 => view.tags = tagRows[view.player]

\* The record of games in the window is the one asked for when it was opened (m_nextScoutRequestId).
ScoutIsOfThisPlayer ==
  view.scout = "ready" => /\ scoutOf[Len(scoutOf)] = view.player
                          /\ scouted = Len(scoutOf)

\* What the user typed leaves the editor only into the table, or because the user discarded the
\* changes or deleted the note; text typed while a save was under way is the exception
\* (ApplyResult puts the stored text over it).
TypedIsKept ==
  [][/\ IsDirty /\ view'.draft # view.draft /\ ~typed /\ asked' = asked
     /\ seen' # seen
     => \/ noteRows[view.player] = view.draft
        \/ Saving /\ asked[view.pending].text = NoText]_noteVars

\* A note is overwritten only by one who had it on the screen, or had asked for it before: the
\* window never offers an empty editor for a player who has a note, unless the notes could not
\* be read at the start.
OnlySeenIsOverwritten ==
  [][\A p \in KnownPlayers :
       /\ noteRows'[p] # noteRows[p] /\ ~notes.failed
       => \E id \in DOMAIN asked :
            /\ asked[id].player = p /\ asked[id].text = noteRows'[p]
            /\ \/ asked[id].over = noteRows[p]
               \/ \E earlier \in 1..(id - 1) : asked[earlier].player = p
                                               /\ asked[earlier].text = noteRows[p]]_noteVars

=============================================================================
