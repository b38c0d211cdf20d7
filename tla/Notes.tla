------------------------------- MODULE Notes -------------------------------
(***************************************************************************)
(* The note tabs of the characters, and the single text the character      *)
(* sheet shows, which is the first tab's: src/app/routers/characters.py    *)
(* over the tables characters and character_notes.                         *)
(*                                                                         *)
(* get_character_or_404 loads the character with its tabs; what a request  *)
(* reads after that it reads in SELECTs of their own, and writes by id in  *)
(* one transaction, with other requests committing at the awaits between   *)
(* them.  Ids are used again after a deletion.                             *)
(***************************************************************************)
EXTENDS Integers, Functions, FiniteSetsExt

CONSTANTS
  Sessions,    \* requests in flight at the same time
  Characters,  \* slugs
  Targets,     \* the characters each session's user may write
  Titles,
  Default,     \* the title a first tab gets
  Texts,       \* contents of notes
  MaxNotes,    \* bound: highest note id
  MaxOrder     \* bound: highest sort order

ASSUME TargetsAssumption == Targets \in [Sessions -> SUBSET Characters]
ASSUME NamesAssumption == Default \in Titles
ASSUME BoundAssumption == {MaxNotes, MaxOrder} \subseteq Nat

VARIABLES
  characters,  \* the slugs that exist
  notes,       \* the character_notes rows by id
  pc,          \* how far each session's request has come
  view         \* what each session has read

db == <<characters, notes>>
vars == <<characters, notes, pc, view>>

Ids == 1 .. MaxNotes
Orders == 0 .. MaxOrder
Note == [char : Characters, title : Titles, text : Texts, order : Orders]
NoteTable == UNION {[S -> Note] : S \in SUBSET Ids}

NoNotes == [i \in {} |-> 0]
(* char is the character loaded, tabs the notes in the identity map,       *)
(* chosen the notes the request names, next its new row's sort order.      *)
EmptyView == [char |-> {}, tabs |-> NoNotes, chosen |-> {}, next |-> 0]

TypeOK ==
  /\ characters \subseteq Characters
  /\ notes \in NoteTable
  /\ pc \in [Sessions -> {"idle", "character", "note", "counted", "new note",
                          "notes"}]
  /\ view \in [Sessions -> [char : SUBSET Characters, tabs : NoteTable,
                            chosen : SUBSET Ids, next : Nat]]

Init == /\ characters = {}
        /\ notes = NoNotes
        /\ pc = [s \in Sessions |-> "idle"]
        /\ view = [s \in Sessions |-> EmptyView]

-----------------------------------------------------------------------------
OfCharacter(c) == {i \in DOMAIN notes : notes[i].char = c}

UniqueTitles(tbl) ==
  \A i, j \in DOMAIN tbl :
    tbl[i].char = tbl[j].char /\ tbl[i].title = tbl[j].title => i = j

FreshId == Max(DOMAIN notes \cup {0}) + 1

Inserted(note) == [i \in DOMAIN notes \cup {FreshId} |->
                     IF i = FreshId THEN note ELSE notes[i]]

(* sort_note_tabs: by sort order, then by id.                              *)
FirstTab(tabs) ==
  CHOOSE i \in DOMAIN tabs :
    \A j \in DOMAIN tabs \ {i} :
      \/ tabs[i].order < tabs[j].order
      \/ tabs[i].order = tabs[j].order /\ i < j

(* first_note_content, the notes of the sheet.                             *)
Shown(c) ==
  IF OfCharacter(c) = {} THEN {}
  ELSE {notes[FirstTab(Restrict(notes, OfCharacter(c)))].text}

(* The ORM's UPDATE writes the attributes that differ from the loaded      *)
(* ones, and fails when a row to write is gone.                            *)
Save(old, new) ==
  /\ {i \in DOMAIN new : new[i] # old[i]} \subseteq DOMAIN notes
  /\ notes' = [i \in DOMAIN notes |->
                 IF i \notin DOMAIN new THEN notes[i]
                 ELSE [f \in DOMAIN notes[i] |->
                         IF new[i][f] = old[i][f]
                         THEN notes[i][f] ELSE new[i][f]]]

-----------------------------------------------------------------------------
(* The SELECTs.                                                            *)

Step(s, from, to, read) ==
  /\ pc[s] = from
  /\ pc' = [pc EXCEPT ![s] = to]
  /\ view' = [view EXCEPT ![s] = read]
  /\ UNCHANGED db

(* get_character_or_404, with require_character_write.                     *)
ReadCharacter(s) ==
  \E c \in Targets[s] \cap characters :
    Step(s, "idle", "character",
         [EmptyView EXCEPT !.char = {c},
                           !.tabs = Restrict(notes, OfCharacter(c))])

Own(s) == {i \in DOMAIN notes : notes[i].char \in view[s].char}

(* A note the identity map holds keeps what was loaded.                    *)
Choose(s, S, to) ==
  Step(s, "character", to,
       [view[s] EXCEPT
          !.chosen = S,
          !.tabs = [i \in DOMAIN @ \cup S |->
                      IF i \in DOMAIN view[s].tabs THEN view[s].tabs[i]
                      ELSE notes[i]]])

(* get_character_note_or_404.                                              *)
ReadNote(s) == \E i \in Own(s) : Choose(s, {i}, "note")

(* reorder_character_notes: every id must be found.                        *)
ReadNotes(s) == \E S \in SUBSET Own(s) \ {{}} : Choose(s, S, "notes")

(* next_note_sort_order.                                                   *)
ReadNextNote(s) ==
  Step(s, "character", "new note",
       [view[s] EXCEPT !.next = IF Own(s) = {} THEN 0
                                ELSE Max({notes[i].order : i \in Own(s)}) + 1])

(* delete_character_note counts the tabs, and does not delete the last.    *)
CountNotes(s) ==
  /\ Cardinality(Own(s)) > 1
  /\ Step(s, "note", "counted", view[s])

-----------------------------------------------------------------------------
(* The write transactions.                                                 *)

Close(s) == /\ pc' = [pc EXCEPT ![s] = "idle"]
            /\ view' = [view EXCEPT ![s] = EmptyView]
            /\ UNCHANGED characters

Fail(s) == pc[s] # "idle" /\ Close(s) /\ UNCHANGED notes

(***************************************************************************)
(* create_character: the row and its first tab in one transaction, which   *)
(* the UNIQUE slug rejects as a whole.                                     *)
(***************************************************************************)
CreateCharacter(c) ==
  /\ c \notin characters
  /\ FreshId <= MaxNotes
  /\ characters' = characters \cup {c}
  /\ \E x \in Texts :
       notes' = Inserted([char |-> c, title |-> Default, text |-> x,
                          order |-> 0])
  /\ UNCHANGED <<pc, view>>

CreateNote(s) ==
  /\ pc[s] = "new note"
  /\ view[s].next \in Orders
  /\ FreshId <= MaxNotes
  /\ \E c \in view[s].char, t \in Titles, x \in Texts :
       notes' = Inserted([char |-> c, title |-> t, text |-> x,
                          order |-> view[s].next])
  /\ UniqueTitles(notes')
  /\ Close(s)

(* Mutant: no UNIQUE constraint on the title.                              *)
PatchNoteAnyTitle(s) ==
  /\ pc[s] = "note"
  /\ \E i \in view[s].chosen, t \in Titles :
       Save(view[s].tabs, [view[s].tabs EXCEPT ![i].title = t])
  /\ Close(s)

PatchNote(s) ==
  /\ pc[s] = "note"
  /\ \E i \in view[s].chosen, t \in Titles, x \in Texts, o \in Orders :
       Save(view[s].tabs, [view[s].tabs EXCEPT ![i].title = t, ![i].text = x,
                                               ![i].order = o])
  /\ UniqueTitles(notes')
  /\ Close(s)

DeleteNote(s) ==
  /\ pc[s] = "counted"
  /\ notes' = Restrict(notes, DOMAIN notes \ view[s].chosen)
  /\ Close(s)

ReorderNotes(s) ==
  /\ pc[s] = "notes"
  /\ \E orders \in [view[s].chosen -> Orders] :
       Save(view[s].tabs,
            [i \in view[s].chosen |->
               [view[s].tabs[i] EXCEPT !.order = orders[i]]])
  /\ Close(s)

(* Mutant: the tabs are taken as they are loaded, by id.                   *)
PatchLoadedFirst(s) ==
  /\ pc[s] = "character"
  /\ DOMAIN view[s].tabs # {}
  /\ \E x \in Texts :
       Save(view[s].tabs,
            [view[s].tabs EXCEPT ![Min(DOMAIN view[s].tabs)].text = x])
  /\ Close(s)

(***************************************************************************)
(* patch_character with "notes": the text goes to the first of the loaded  *)
(* tabs, or to the default tab ensure_default_note_tab inserts when none   *)
(* was loaded.                                                             *)
(***************************************************************************)
PatchFirstTab(s) ==
  /\ pc[s] = "character"
  /\ DOMAIN view[s].tabs # {}
  /\ \E x \in Texts :
       Save(view[s].tabs,
            [view[s].tabs EXCEPT ![FirstTab(view[s].tabs)].text = x])
  /\ Close(s)

PatchDefaultTab(s) ==
  /\ pc[s] = "character"
  /\ DOMAIN view[s].tabs = {}
  /\ FreshId <= MaxNotes
  /\ \E c \in view[s].char, x \in Texts :
       notes' = Inserted([char |-> c, title |-> Default, text |-> x,
                          order |-> 0])
  /\ UniqueTitles(notes')
  /\ Close(s)

Next == \/ \E c \in Characters : CreateCharacter(c)
        \/ \E s \in Sessions :
             \/ ReadCharacter(s) \/ ReadNote(s) \/ ReadNotes(s)
             \/ ReadNextNote(s) \/ CountNotes(s)
             \/ CreateNote(s) \/ PatchNote(s) \/ DeleteNote(s)
             \/ ReorderNotes(s) \/ PatchFirstTab(s) \/ PatchDefaultTab(s)
             \/ Fail(s)

Spec == Init /\ [][Next]_vars

-----------------------------------------------------------------------------
(* Properties.                                                             *)

(* A character always has a note: delete_character_note refuses the last.  *)
(* Two deletions that count together leave none, so this holds only while  *)
(* a character has one writer.                                             *)
HasNote == \A c \in characters : OfCharacter(c) # {}

(* The tabs of c are those the request has loaded, in the same order;      *)
(* their texts and titles may have changed since.                          *)
AsLoaded(s, c) ==
  /\ DOMAIN view[s].tabs = OfCharacter(c)
  /\ \A i \in OfCharacter(c) : view[s].tabs[i].order = notes[i].order

(***************************************************************************)
(* A PATCH of the sheet's notes that writes anything changes the text the  *)
(* sheet shows: the tab written is the one displayed first, or the first   *)
(* there is, whatever was reordered, deleted and created before, and       *)
(* whatever other requests have written to the tabs since they were        *)
(* loaded, unless they have put another tab first.                         *)
(***************************************************************************)
NotesPatchVisible ==
  [][\A s \in Sessions :
       pc[s] = "character" /\ pc'[s] = "idle" /\ notes' # notes =>
         \A c \in view[s].char : AsLoaded(s, c) => Shown(c)' # Shown(c)]_vars

-----------------------------------------------------------------------------
(* What the tabs promise: the notes of each character by their titles.     *)

PageOf(tbl, c) ==
  LET own == {i \in DOMAIN tbl : tbl[i].char = c}
  IN [t \in {tbl[i].title : i \in own} |->
        tbl[CHOOSE i \in own : tbl[i].title = t].text]

Book == INSTANCE NoteBook WITH book <- [c \in characters |-> PageOf(notes, c)]

(***************************************************************************)
(* Notes implements NoteBook: however stale what a request has read, what  *)
(* it commits is one note added, dropped or edited, or nothing.            *)
(***************************************************************************)
ImplementsBook == Book!BookSpec
=============================================================================
