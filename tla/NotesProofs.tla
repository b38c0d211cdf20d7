---------------------------- MODULE NotesProofs ----------------------------
(***************************************************************************)
(* Proofs about Notes for any number of sessions, characters and notes:    *)
(* first if no two sessions write the same character, then for characters  *)
(* that any number of sessions write.                                      *)
(***************************************************************************)
EXTENDS Notes, WellFoundedInduction, FiniteSetTheorems, TLAPS

-----------------------------------------------------------------------------
(* Extremes of sets of natural numbers.                                    *)

(* A set of natural numbers that is not empty has a least one.             *)
LEMMA Least ==
  ASSUME NEW T, T \subseteq Nat, T # {}
  PROVE  \E x \in T : \A y \in T : x <= y
<1> DEFINE R == OpToRel(<, Nat)
<1>1. IsWellFoundedOn(R, Nat)
  BY NatLessThanWellFounded
<1>2. \A x, y \in Nat : y < x => <<y, x>> \in R
  BY DEF OpToRel
<1> HIDE DEF R
<1>3. PICK x \in T : \A y \in T : ~(<<y, x>> \in R)
  BY <1>1, WFMin
<1>4. ASSUME NEW y \in T PROVE x <= y
  <2>1. x \in Nat /\ y \in Nat
    OBVIOUS
  <2>2. ~(y < x)
    BY <1>2, <1>3, <2>1
  <2>3. QED
    BY <2>1, <2>2
<1>5. QED
  BY <1>4

(* Bounded, it has a greatest.                                             *)
LEMMA Greatest ==
  ASSUME NEW b \in Nat, NEW T, T \subseteq 0 .. b, T # {}
  PROVE  /\ Max(T) \in T
         /\ \A y \in T : Max(T) >= y
<1> DEFINE U == {b - x : x \in T}
<1>1. \A x \in T : x \in Nat /\ x <= b
  OBVIOUS
<1>2. U \subseteq Nat
  BY <1>1
<1>3. PICK x \in T : TRUE
  OBVIOUS
<1>4. b - x \in U
  OBVIOUS
<1>5. PICK u \in U : \A v \in U : u <= v
  <2> HIDE DEF U
  <2>1. QED
    BY <1>2, <1>4, Least
<1>6. PICK m \in T : u = b - m
  BY <1>5
<1>7. \A y \in T : b - m <= b - y
  BY <1>5, <1>6
<1>8. \A y \in T : m >= y
  BY <1>1, <1>7
<1>9. QED
  BY <1>8 DEF Max

-----------------------------------------------------------------------------
(* Tables.                                                                 *)

(* A new row's id has not been in use.                                     *)
LEMMA FreshIsNew ==
  ASSUME TypeOK
  PROVE  FreshId \in Nat \ {0} /\ FreshId \notin DOMAIN notes
<1> DEFINE T == DOMAIN notes \cup {0}
<1>1. MaxNotes \in Nat
  BY BoundAssumption
<1>2. DOMAIN notes \subseteq 1 .. MaxNotes
  BY DEF TypeOK, NoteTable, Ids
<1>3. T \subseteq 0 .. MaxNotes /\ 0 \in T
  BY <1>1, <1>2
<1>4. Max(T) \in T /\ \A y \in T : Max(T) >= y
  BY <1>1, <1>3, Greatest
<1>5. Max(T) \in Nat
  BY <1>3, <1>4
<1>6. \A y \in DOMAIN notes : y \in Nat /\ Max(T) >= y
  BY <1>1, <1>2, <1>4
<1>7. FreshId = Max(T) + 1
  BY DEF FreshId
<1> DEFINE m == Max(T)
<1> HIDE DEF m
<1>8. m \in Nat /\ (\A y \in DOMAIN notes : y \in Nat /\ m >= y) /\ FreshId = m + 1
  BY <1>5, <1>6, <1>7 DEF m
<1>9. QED
  BY <1>8

LEMMA TableDomain ==
  ASSUME NEW t
  PROVE  t \in NoteTable <=> DOMAIN t \subseteq Ids /\ t \in [DOMAIN t -> Note]
  BY DEF NoteTable

LEMMA RestrictTable ==
  ASSUME NEW t \in NoteTable, NEW S, S \subseteq DOMAIN t
  PROVE  /\ Restrict(t, S) \in NoteTable
         /\ DOMAIN Restrict(t, S) = S
         /\ \A i \in S : Restrict(t, S)[i] = t[i]
<1>1. DOMAIN t \subseteq Ids /\ t \in [DOMAIN t -> Note]
  BY TableDomain
<1>2. Restrict(t, S) \in [S -> Note]
  BY <1>1 DEF Restrict
<1>3. S \in SUBSET Ids
  BY <1>1
<1>4. QED
  BY <1>2, <1>3 DEF Restrict, NoteTable

(* sort_note_tabs: of several tabs exactly one comes first.                *)
Precedes(t, i, j) == \/ t[i].order < t[j].order
                     \/ t[i].order = t[j].order /\ i < j

LEMMA FirstTabExists ==
  ASSUME NEW t \in NoteTable, DOMAIN t # {}
  PROVE  /\ FirstTab(t) \in DOMAIN t
         /\ \A j \in DOMAIN t \ {FirstTab(t)} : Precedes(t, FirstTab(t), j)
<1>1. \A i \in DOMAIN t : i \in Nat /\ t[i].order \in Nat
  <2>1. MaxOrder \in Nat /\ MaxNotes \in Nat
    BY BoundAssumption
  <2>2. QED
    BY <2>1, TableDomain DEF Note, Orders, Ids
<1> DEFINE O == {t[i].order : i \in DOMAIN t}
<1>2. O \subseteq Nat
  BY <1>1
<1>3. PICK d \in DOMAIN t : TRUE
  OBVIOUS
<1>4. t[d].order \in O
  OBVIOUS
<1>5. PICK m \in O : \A o \in O : m <= o
  <2> HIDE DEF O
  <2>1. QED
    BY <1>2, <1>4, Least
<1>6. PICK e \in DOMAIN t : t[e].order = m
  BY <1>5
<1> DEFINE I == {i \in DOMAIN t : t[i].order = m}
<1>7. I \subseteq Nat /\ e \in I
  BY <1>1, <1>6
<1>8. PICK k \in I : \A i \in I : k <= i
  <2> HIDE DEF I
  <2>1. QED
    BY <1>7, Least
<1>9. k \in DOMAIN t /\ t[k].order = m
  BY <1>8
<1>10. ASSUME NEW j \in DOMAIN t \ {k} PROVE Precedes(t, k, j)
  <2>1. t[k].order <= t[j].order
    BY <1>5, <1>9
  <2>2. CASE t[j].order = m
    <3>1. k <= j
      BY <1>8, <2>2
    <3>2. k < j
      BY <1>1, <1>9, <3>1
    <3>3. QED
      BY <1>9, <2>2, <3>2 DEF Precedes
  <2>3. CASE t[j].order # m
    <3>1. t[k].order < t[j].order
      BY <1>1, <1>9, <2>1, <2>3
    <3>2. QED
      BY <3>1 DEF Precedes
  <2>4. QED
    BY <2>2, <2>3
<1>11. QED
  BY <1>9, <1>10 DEF FirstTab, Precedes

LEMMA FirstTabUnique ==
  ASSUME NEW t \in NoteTable, NEW k \in DOMAIN t,
         \A j \in DOMAIN t \ {k} : Precedes(t, k, j)
  PROVE  FirstTab(t) = k
<1> DEFINE f == FirstTab(t)
<1>1. \A i \in DOMAIN t : i \in Nat /\ t[i].order \in Nat
  <2>1. MaxOrder \in Nat /\ MaxNotes \in Nat
    BY BoundAssumption
  <2>2. QED
    BY <2>1, TableDomain DEF Note, Orders, Ids
<1>2. f \in DOMAIN t /\ \A j \in DOMAIN t \ {f} : Precedes(t, f, j)
  BY FirstTabExists
<1> HIDE DEF f
<1>3. SUFFICES ASSUME f # k PROVE FALSE
  BY DEF f
<1>4. Precedes(t, f, k) /\ Precedes(t, k, f)
  BY <1>2, <1>3
<1>5. f \in Nat /\ k \in Nat /\ t[f].order \in Nat /\ t[k].order \in Nat
  BY <1>1, <1>2
<1>6. QED
  BY <1>4, <1>5 DEF Precedes

-----------------------------------------------------------------------------
(* The invariant.                                                          *)

(* No character is written by two sessions: each has its own player.       *)
OneWriter ==
  \A r, s \in Sessions : r # s => Targets[r] \cap Targets[s] = {}

(* What a request has read is still there when it writes.                  *)
Holds(s) ==
  /\ pc[s] = "idle" => view[s].char = {}
  /\ pc[s] # "idle" => \E c \in Targets[s] \cap characters : view[s].char = {c}
  /\ view[s].chosen \subseteq DOMAIN view[s].tabs
  /\ DOMAIN view[s].tabs \subseteq Own(s)
  /\ pc[s] = "character" => view[s].tabs = Restrict(notes, Own(s))
  /\ pc[s] = "note" => \E i : view[s].chosen = {i}
  /\ pc[s] = "counted" => \E i, j \in Own(s) : i # j /\ view[s].chosen = {i}

IInv == TypeOK /\ HasNote /\ \A s \in Sessions : Holds(s)

(* A write leaves the notes of all characters but those of C alone.        *)
Confined(C) ==
  /\ notes' \in NoteTable
  /\ \A i \in DOMAIN notes : notes[i].char \notin C =>
       i \in DOMAIN notes' /\ notes'[i] = notes[i]
  /\ \A i \in DOMAIN notes' : notes'[i].char \notin C =>
       i \in DOMAIN notes /\ notes'[i] = notes[i]

LEMMA Elsewhere ==
  ASSUME NEW C, Confined(C), NEW c, c \notin C
  PROVE  OfCharacter(c)' = OfCharacter(c)
  BY DEF Confined, OfCharacter

-----------------------------------------------------------------------------
(* What the writes do to the table.                                        *)

LEMMA InsertedRow ==
  ASSUME TypeOK, NEW c \in Characters, NEW t \in Titles, NEW x \in Texts,
         NEW o \in Orders, FreshId <= MaxNotes,
         notes' = Inserted([char |-> c, title |-> t, text |-> x, order |-> o])
  PROVE  Confined({c}) /\ OfCharacter(c)' # {}
<1> DEFINE n == [char |-> c, title |-> t, text |-> x, order |-> o]
           k == FreshId
<1>1. n \in Note /\ n.char = c
  BY DEF Note
<1>2. k \in Ids /\ k \notin DOMAIN notes
  BY FreshIsNew, BoundAssumption DEF Ids
<1>3. DOMAIN notes \subseteq Ids /\ \A i \in DOMAIN notes : notes[i] \in Note
  BY TableDomain DEF TypeOK
<1> HIDE DEF n, k
<1>4. notes' = [i \in DOMAIN notes \cup {k} |-> IF i = k THEN n ELSE notes[i]]
  BY DEF Inserted, n, k
<1>5. notes' \in [DOMAIN notes \cup {k} -> Note]
  BY <1>1, <1>3, <1>4
<1>6. DOMAIN notes' = DOMAIN notes \cup {k}
  BY <1>4
<1>7. notes' \in NoteTable
  BY <1>2, <1>3, <1>5, <1>6, TableDomain
<1>8. notes'[k] = n /\ \A i \in DOMAIN notes : notes'[i] = notes[i]
  BY <1>2, <1>4
<1>9. Confined({c})
  BY <1>1, <1>6, <1>7, <1>8 DEF Confined
<1>10. k \in OfCharacter(c)'
  BY <1>1, <1>6, <1>8 DEF OfCharacter
<1>11. QED
  BY <1>9, <1>10

LEMMA SavedRows ==
  ASSUME TypeOK, NEW old, NEW new, Save(old, new), NEW C,
         DOMAIN new \subseteq DOMAIN notes,
         \A i \in DOMAIN new : /\ new[i] \in Note
                               /\ new[i].char = old[i].char
                               /\ notes[i].char \in C
  PROVE  /\ Confined(C)
         /\ DOMAIN notes' = DOMAIN notes
         /\ \A i \in DOMAIN notes : notes'[i].char = notes[i].char
<1>1. DOMAIN notes \subseteq Ids /\ \A i \in DOMAIN notes : notes[i] \in Note
  BY TableDomain DEF TypeOK
<1> DEFINE row(i) == [f \in DOMAIN notes[i] |->
                        IF new[i][f] = old[i][f] THEN notes[i][f] ELSE new[i][f]]
<1>2. notes' = [i \in DOMAIN notes |-> IF i \notin DOMAIN new THEN notes[i] ELSE row(i)]
  BY DEF Save
<1>3. ASSUME NEW i \in DOMAIN new
      PROVE  row(i) \in Note /\ row(i).char = notes[i].char
  <2>1. notes[i] \in Note /\ new[i] \in Note
    BY <1>1
  <2>2. DOMAIN notes[i] = {"char", "title", "text", "order"}
    BY <2>1 DEF Note
  <2>3. row(i) = [char |-> row(i).char, title |-> row(i).title,
                  text |-> row(i).text, order |-> row(i).order]
    BY <2>2
  <2>4. row(i).char = notes[i].char
    BY <2>2
  <2>5. /\ row(i).title = notes[i].title \/ row(i).title = new[i].title
        /\ row(i).text = notes[i].text \/ row(i).text = new[i].text
        /\ row(i).order = notes[i].order \/ row(i).order = new[i].order
    BY <2>2
  <2> HIDE DEF row
  <2>6. /\ row(i).char \in Characters /\ row(i).title \in Titles
        /\ row(i).text \in Texts /\ row(i).order \in Orders
    BY <2>1, <2>4, <2>5 DEF Note
  <2>7. QED
    BY <2>3, <2>4, <2>6 DEF Note
<1> HIDE DEF row
<1>4. DOMAIN notes' = DOMAIN notes
  BY <1>2
<1>5. \A i \in DOMAIN notes : /\ notes'[i] \in Note
                              /\ notes'[i].char = notes[i].char
                              /\ i \notin DOMAIN new => notes'[i] = notes[i]
  BY <1>1, <1>2, <1>3
<1>6. notes' \in [DOMAIN notes' -> Note]
  BY <1>2, <1>4, <1>5
<1>7. notes' \in NoteTable
  BY <1>1, <1>4, <1>6, TableDomain
<1>8. QED
  BY <1>4, <1>5, <1>7 DEF Confined

(* Each write of a request is confined to its character, which keeps a     *)
(* note, and ends the request.                                             *)
Written(s) ==
  /\ pc[s] # "idle"
  /\ Confined(view[s].char)
  /\ \A c \in view[s].char : OfCharacter(c)' # {}
  /\ Close(s)

LEMMA SaveWritten ==
  ASSUME IInv, NEW s \in Sessions, pc[s] # "idle", Close(s), NEW new,
         DOMAIN new \subseteq DOMAIN view[s].tabs,
         \A i \in DOMAIN new : new[i] \in Note /\ new[i].char = view[s].tabs[i].char,
         Save(view[s].tabs, new)
  PROVE  Written(s)
<1>1. DOMAIN new \subseteq Own(s)
  BY DEF IInv, Holds
<1>2. DOMAIN new \subseteq DOMAIN notes /\ \A i \in DOMAIN new : notes[i].char \in view[s].char
  BY <1>1 DEF Own
<1>3. /\ Confined(view[s].char)
      /\ DOMAIN notes' = DOMAIN notes
      /\ \A i \in DOMAIN notes : notes'[i].char = notes[i].char
  BY <1>2, SavedRows DEF IInv
<1>4. \A c \in view[s].char : OfCharacter(c) # {}
  BY DEF IInv, Holds, HasNote
<1>5. \A c : OfCharacter(c)' = OfCharacter(c)
  BY <1>3 DEF OfCharacter
<1>6. QED
  BY <1>3, <1>4, <1>5 DEF Written

LEMMA CreateNoteWritten ==
  ASSUME IInv, NEW s \in Sessions, CreateNote(s)
  PROVE  Written(s)
<1>1. PICK c \in view[s].char, t \in Titles, x \in Texts :
        notes' = Inserted([char |-> c, title |-> t, text |-> x,
                           order |-> view[s].next])
  BY DEF CreateNote
<1>2. view[s].char = {c} /\ c \in Characters
  BY DEF IInv, TypeOK, Holds, CreateNote
<1>3. Confined({c}) /\ OfCharacter(c)' # {}
  BY <1>1, <1>2, InsertedRow DEF IInv, CreateNote
<1>4. QED
  BY <1>2, <1>3 DEF Written, CreateNote

LEMMA PatchDefaultWritten ==
  ASSUME IInv, NEW s \in Sessions, PatchDefaultTab(s)
  PROVE  Written(s)
<1>1. PICK c \in view[s].char, x \in Texts :
        notes' = Inserted([char |-> c, title |-> Default, text |-> x, order |-> 0])
  BY DEF PatchDefaultTab
<1>2. view[s].char = {c} /\ c \in Characters
  BY DEF IInv, TypeOK, Holds, PatchDefaultTab
<1>3. 0 \in Orders /\ Default \in Titles
  BY BoundAssumption, NamesAssumption DEF Orders
<1>4. Confined({c}) /\ OfCharacter(c)' # {}
  BY <1>1, <1>2, <1>3, InsertedRow DEF IInv, PatchDefaultTab
<1>5. QED
  BY <1>2, <1>4 DEF Written, PatchDefaultTab

LEMMA TabRows ==
  ASSUME IInv, NEW s \in Sessions
  PROVE  \A i \in DOMAIN view[s].tabs : view[s].tabs[i] \in Note
  BY TableDomain DEF IInv, TypeOK

LEMMA PatchNoteWritten ==
  ASSUME IInv, NEW s \in Sessions, PatchNote(s)
  PROVE  Written(s)
<1> DEFINE tabs == view[s].tabs
<1>1. PICK k \in view[s].chosen, t \in Titles, x \in Texts, o \in Orders :
        Save(tabs, [tabs EXCEPT ![k].title = t, ![k].text = x, ![k].order = o])
  BY DEF PatchNote
<1> DEFINE new == [tabs EXCEPT ![k].title = t, ![k].text = x, ![k].order = o]
<1>2. \A i \in DOMAIN tabs : tabs[i] \in Note
  BY TabRows
<1>3. k \in DOMAIN tabs
  BY DEF IInv, Holds
<1>4. DOMAIN new = DOMAIN tabs
  OBVIOUS
<1>5. \A i \in DOMAIN tabs \ {k} : new[i] = tabs[i]
  OBVIOUS
<1>6. new[k] = [char |-> tabs[k].char, title |-> t, text |-> x, order |-> o]
  BY <1>2, <1>3 DEF Note
<1>7. tabs[k].char \in Characters
  BY <1>2, <1>3 DEF Note
<1>8. Save(tabs, new) /\ Close(s) /\ pc[s] # "idle"
  BY <1>1 DEF PatchNote
<1> HIDE DEF new
<1>9. \A i \in DOMAIN new : new[i] \in Note /\ new[i].char = tabs[i].char
  BY <1>2, <1>4, <1>5, <1>6, <1>7 DEF Note
<1>10. QED
  BY <1>4, <1>8, <1>9, SaveWritten

LEMMA ReorderWritten ==
  ASSUME IInv, NEW s \in Sessions, ReorderNotes(s)
  PROVE  Written(s)
<1> DEFINE tabs == view[s].tabs
<1>1. PICK orders \in [view[s].chosen -> Orders] :
        Save(tabs, [i \in view[s].chosen |-> [tabs[i] EXCEPT !.order = orders[i]]])
  BY DEF ReorderNotes
<1> DEFINE new == [i \in view[s].chosen |-> [tabs[i] EXCEPT !.order = orders[i]]]
<1>2. \A i \in DOMAIN tabs : tabs[i] \in Note
  BY TabRows
<1>3. view[s].chosen \subseteq DOMAIN tabs
  BY DEF IInv, Holds
<1>4. \A i \in view[s].chosen : new[i] \in Note /\ new[i].char = tabs[i].char
  BY <1>2, <1>3 DEF Note
<1>5. Save(tabs, new) /\ Close(s) /\ pc[s] # "idle" /\ DOMAIN new = view[s].chosen
  BY <1>1 DEF ReorderNotes
<1> HIDE DEF new
<1>6. QED
  BY <1>3, <1>4, <1>5, SaveWritten

LEMMA PatchFirstWritten ==
  ASSUME IInv, NEW s \in Sessions, PatchFirstTab(s)
  PROVE  Written(s)
<1> DEFINE tabs == view[s].tabs
           k == FirstTab(tabs)
<1>1. PICK x \in Texts : Save(tabs, [tabs EXCEPT ![k].text = x])
  BY DEF PatchFirstTab
<1> DEFINE new == [tabs EXCEPT ![k].text = x]
<1> HIDE DEF k
<1>2. \A i \in DOMAIN tabs : tabs[i] \in Note
  BY TabRows
<1>3. DOMAIN new = DOMAIN tabs
  OBVIOUS
<1>4. \A i \in DOMAIN tabs : new[i] = tabs[i] \/ new[i] = [tabs[i] EXCEPT !.text = x]
  OBVIOUS
<1>5. Save(tabs, new) /\ Close(s) /\ pc[s] # "idle"
  BY <1>1 DEF PatchFirstTab, k
<1> HIDE DEF new
<1>6. ASSUME NEW i \in DOMAIN new
      PROVE  new[i] \in Note /\ new[i].char = tabs[i].char
  <2>1. tabs[i] \in Note /\ (new[i] = tabs[i] \/ new[i] = [tabs[i] EXCEPT !.text = x])
    BY ONLY <1>2, <1>3, <1>4, i \in DOMAIN new
  <2>2. QED
    BY ONLY <2>1, x \in Texts DEF Note
<1>7. QED
  BY <1>3, <1>5, <1>6, SaveWritten

LEMMA DeleteWritten ==
  ASSUME IInv, NEW s \in Sessions, DeleteNote(s)
  PROVE  Written(s)
<1>1. PICK i, j \in Own(s) : i # j /\ view[s].chosen = {i}
  BY DEF IInv, Holds, DeleteNote
<1>2. PICK c \in characters : view[s].char = {c}
  BY DEF IInv, Holds, DeleteNote
<1> DEFINE S == DOMAIN notes \ {i}
<1>3. notes' = Restrict(notes, S)
  BY <1>1 DEF DeleteNote
<1>4. notes' \in NoteTable /\ DOMAIN notes' = S /\ \A k \in S : notes'[k] = notes[k]
  BY <1>3, RestrictTable DEF IInv, TypeOK
<1>5. notes[i].char = c /\ notes[j].char = c /\ j \in S
  BY <1>1, <1>2 DEF Own
<1>6. Confined({c})
  BY <1>4, <1>5 DEF Confined
<1>7. j \in OfCharacter(c)'
  BY <1>4, <1>5 DEF OfCharacter
<1>8. QED
  BY <1>2, <1>6, <1>7 DEF Written, DeleteNote

-----------------------------------------------------------------------------
(* The steps.                                                              *)

Stages == {"idle", "character", "note", "counted", "new note", "notes"}
Views == [char : SUBSET Characters, tabs : NoteTable, chosen : SUBSET Ids,
          next : Nat]

LEMMA EmptyViewTyped ==
  /\ EmptyView \in Views
  /\ EmptyView.char = {} /\ EmptyView.chosen = {}
  /\ EmptyView.tabs = NoNotes /\ DOMAIN NoNotes = {}
<1>1. NoNotes \in NoteTable
  BY DEF NoNotes, NoteTable
<1>2. DOMAIN NoNotes = {}
  BY DEF NoNotes
<1> HIDE DEF NoNotes
<1>3. QED
  BY <1>1, <1>2 DEF EmptyView, Views

LEMMA InitHolds == Init => IInv
<1> SUFFICES ASSUME Init PROVE IInv
  OBVIOUS
<1>1. \A s \in Sessions : view[s] = EmptyView /\ pc[s] = "idle"
  BY DEF Init
<1>2. NoNotes \in NoteTable
  BY DEF NoNotes, NoteTable
<1>3. TypeOK
  BY <1>2, EmptyViewTyped DEF Init, TypeOK, Views
<1>4. \A s \in Sessions : Holds(s)
  BY <1>1, EmptyViewTyped DEF Holds
<1>5. QED
  BY <1>3, <1>4 DEF IInv, HasNote, Init

(* What a request of another session has read is not touched.              *)
LEMMA OthersHold ==
  ASSUME IInv, NEW r \in Sessions, view'[r] = view[r], pc'[r] = pc[r],
         NEW C, Confined(C), view[r].char \cap C = {},
         characters \subseteq characters'
  PROVE  Holds(r)'
<1>1. Own(r)' = Own(r)
  BY DEF Own, Confined
<1>2. \A i \in Own(r) : notes'[i] = notes[i]
  BY DEF Own, Confined
<1>3. Restrict(notes, Own(r))' = Restrict(notes, Own(r))
  BY <1>1, <1>2 DEF Restrict
<1>4. Holds(r)
  BY DEF IInv
<1>5. pc'[r] = "character" => view'[r].tabs = Restrict(notes, Own(r))'
  BY <1>3, <1>4 DEF Holds
<1>6. DOMAIN view'[r].tabs \subseteq Own(r)'
  BY <1>1, <1>4 DEF Holds
<1>7. pc'[r] = "counted" => \E i, j \in Own(r)' : i # j /\ view'[r].chosen = {i}
  BY <1>1, <1>4 DEF Holds
<1>8. /\ pc'[r] = "idle" => view'[r].char = {}
      /\ pc'[r] # "idle" => \E c \in Targets[r] \cap characters' : view'[r].char = {c}
      /\ view'[r].chosen \subseteq DOMAIN view'[r].tabs
      /\ pc'[r] = "note" => \E i : view'[r].chosen = {i}
  BY <1>4 DEF Holds
<1>9. QED
  BY <1>5, <1>6, <1>7, <1>8 DEF Holds

LEMMA AfterWrite ==
  ASSUME IInv, OneWriter, NEW s \in Sessions, Written(s)
  PROVE  IInv'
<1>1. pc' = [pc EXCEPT ![s] = "idle"] /\ view' = [view EXCEPT ![s] = EmptyView]
      /\ characters' = characters
  BY DEF Written, Close
<1>2. TypeOK'
  <2>1. EmptyView \in Views
    BY EmptyViewTyped
  <2>2. view \in [Sessions -> Views] /\ pc \in [Sessions -> Stages]
    BY DEF IInv, TypeOK, Views, Stages
  <2>3. view' \in [Sessions -> Views]
    BY <1>1, <2>1, <2>2
  <2>4. pc' \in [Sessions -> Stages]
    BY <1>1, <2>2 DEF Stages
  <2>5. notes' \in NoteTable /\ characters' \subseteq Characters
    BY <1>1 DEF Written, Confined, IInv, TypeOK
  <2>6. QED
    BY <2>3, <2>4, <2>5 DEF TypeOK, Views, Stages
<1>3. HasNote'
  <2>1. SUFFICES ASSUME NEW c \in characters PROVE OfCharacter(c)' # {}
    BY <1>1 DEF HasNote
  <2>2. CASE c \in view[s].char
    BY <2>2 DEF Written
  <2>3. CASE c \notin view[s].char
    <3>1. OfCharacter(c)' = OfCharacter(c)
      BY <2>3, Elsewhere DEF Written
    <3>2. QED
      BY <3>1 DEF IInv, HasNote
  <2>4. QED
    BY <2>2, <2>3
<1>4. ASSUME NEW r \in Sessions PROVE Holds(r)'
  <2>1. CASE r = s
    <3>1. view'[s] = EmptyView /\ pc'[s] = "idle"
      BY <1>1 DEF IInv, TypeOK
    <3>2. QED
      BY <2>1, <3>1, EmptyViewTyped DEF Holds
  <2>2. CASE r # s
    <3>1. view'[r] = view[r] /\ pc'[r] = pc[r]
      BY <1>1, <2>2 DEF IInv, TypeOK
    <3>2. PICK c \in Targets[s] : view[s].char = {c}
      BY DEF IInv, Holds, Written
    <3>3. CASE pc[r] = "idle"
      <4>1. view[r].char = {}
        BY <3>3 DEF IInv, Holds
      <4>2. QED
        BY <1>1, <3>1, <4>1, OthersHold DEF Written
    <3>4. CASE pc[r] # "idle"
      <4>1. PICK d \in Targets[r] : view[r].char = {d}
        BY <3>4 DEF IInv, Holds
      <4>2. c # d
        BY <2>2, <3>2, <4>1 DEF OneWriter
      <4>3. view[r].char \cap view[s].char = {}
        BY <3>2, <4>1, <4>2
      <4>4. QED
        BY <1>1, <3>1, <4>3, OthersHold DEF Written
    <3>5. QED
      BY <3>3, <3>4
  <2>3. QED
    BY <2>1, <2>2
<1>5. QED
  BY <1>2, <1>3, <1>4 DEF IInv

LEMMA AfterRead ==
  ASSUME IInv, NEW s \in Sessions, NEW from, NEW to \in Stages \ {"idle"},
         NEW v \in Views, Step(s, from, to, v),
         NEW c \in Targets[s] \cap characters, v.char = {c},
         v.chosen \subseteq DOMAIN v.tabs,
         DOMAIN v.tabs \subseteq OfCharacter(c),
         to = "character" => v.tabs = Restrict(notes, OfCharacter(c)),
         to = "note" => \E i : v.chosen = {i},
         to = "counted" => \E i, j \in OfCharacter(c) : i # j /\ v.chosen = {i}
  PROVE  IInv'
<1>1. /\ pc' = [pc EXCEPT ![s] = to] /\ view' = [view EXCEPT ![s] = v]
      /\ notes' = notes /\ characters' = characters
  BY DEF Step, db
<1>2. view \in [Sessions -> Views] /\ pc \in [Sessions -> Stages]
  BY DEF IInv, TypeOK, Views, Stages
<1>3. view' \in [Sessions -> Views] /\ pc' \in [Sessions -> Stages]
  BY <1>1, <1>2
<1>4. TypeOK'
  BY <1>1, <1>3 DEF IInv, TypeOK, Views, Stages
<1>5. HasNote'
  BY <1>1 DEF IInv, HasNote, OfCharacter
<1>6. ASSUME NEW r \in Sessions PROVE Holds(r)'
  <2>1. CASE r = s
    <3>1. view'[s] = v /\ pc'[s] = to
      BY <1>1, <1>2
    <3>2. Own(s)' = OfCharacter(c)
      BY <1>1, <3>1 DEF Own, OfCharacter
    <3>3. QED
      BY <1>1, <2>1, <3>1, <3>2 DEF Holds
  <2>2. CASE r # s
    <3>1. view'[r] = view[r] /\ pc'[r] = pc[r]
      BY <1>1, <1>2, <2>2
    <3>2. Confined({})
      BY <1>1 DEF Confined, IInv, TypeOK
    <3>3. QED
      BY <1>1, <3>1, <3>2, OthersHold
  <2>3. QED
    BY <2>1, <2>2
<1>7. QED
  BY <1>4, <1>5, <1>6 DEF IInv

(* How CreateCharacter differs: no session takes part.                     *)
LEMMA CreateCharacterHolds ==
  ASSUME IInv, NEW c \in Characters, CreateCharacter(c)
  PROVE  IInv'
<1>1. PICK x \in Texts :
        notes' = Inserted([char |-> c, title |-> Default, text |-> x, order |-> 0])
  BY DEF CreateCharacter
<1>2. 0 \in Orders /\ Default \in Titles
  BY BoundAssumption, NamesAssumption DEF Orders
<1>3. Confined({c}) /\ OfCharacter(c)' # {}
  BY <1>1, <1>2, InsertedRow DEF IInv, CreateCharacter
<1>4. characters' = characters \cup {c} /\ c \notin characters
      /\ pc' = pc /\ view' = view
  BY DEF CreateCharacter
<1>5. TypeOK'
  BY <1>3, <1>4 DEF IInv, TypeOK, Confined
<1>6. HasNote'
  <2>1. \A d \in characters : OfCharacter(d)' = OfCharacter(d)
    BY <1>3, <1>4, Elsewhere
  <2>2. QED
    BY <1>3, <1>4, <2>1 DEF IInv, HasNote
<1>7. ASSUME NEW r \in Sessions PROVE Holds(r)'
  <2>1. view[r].char \subseteq characters
    BY DEF IInv, Holds
  <2>2. QED
    BY <1>3, <1>4, <2>1, OthersHold
<1>8. QED
  BY <1>5, <1>6, <1>7 DEF IInv

(* Before a request writes: what it has chosen of what it has read.        *)
LEMMA ChooseHolds ==
  ASSUME IInv, NEW s \in Sessions, NEW S, S \subseteq Own(s),
         NEW to \in {"note", "notes"}, Choose(s, S, to),
         to = "note" => \E i : S = {i}
  PROVE  IInv'
<1> DEFINE old == view[s].tabs
           tabs == [i \in DOMAIN old \cup S |-> IF i \in DOMAIN old THEN old[i]
                                                ELSE notes[i]]
           v == [view[s] EXCEPT !.chosen = S, !.tabs = tabs]
<1>1. Step(s, "character", to, v) /\ pc[s] = "character"
  BY DEF Choose, Step
<1>2. PICK c \in Targets[s] \cap characters : view[s].char = {c}
  BY <1>1 DEF IInv, Holds
<1>3. Own(s) = OfCharacter(c)
  BY <1>2 DEF Own, OfCharacter
<1>4. Own(s) \subseteq DOMAIN notes /\ DOMAIN notes \subseteq Ids
      /\ \A i \in DOMAIN notes : notes[i] \in Note
  BY TableDomain DEF Own, IInv, TypeOK
<1>5. /\ view[s] \in Views /\ DOMAIN old \subseteq Own(s)
      /\ \A i \in DOMAIN old : old[i] \in Note
  BY TabRows DEF IInv, TypeOK, Views, Holds
<1>6. tabs \in NoteTable /\ DOMAIN tabs = DOMAIN old \cup S
  <2>1. DOMAIN tabs = DOMAIN old \cup S
    OBVIOUS
  <2>2. tabs \in [DOMAIN old \cup S -> Note]
    BY <1>4, <1>5
  <2>3. DOMAIN old \cup S \subseteq Ids
    BY <1>4, <1>5
  <2> HIDE DEF tabs
  <2>4. QED
    BY <2>1, <2>2, <2>3, TableDomain
<1> HIDE DEF tabs
<1>7. v \in Views /\ v.char = {c} /\ v.chosen = S /\ v.tabs = tabs
  BY <1>2, <1>4, <1>5, <1>6 DEF Views
<1>8. to \in Stages \ {"idle"} /\ to # "character" /\ to # "counted"
  BY DEF Stages
<1> HIDE DEF v
<1>9. DOMAIN v.tabs \subseteq OfCharacter(c) /\ v.chosen \subseteq DOMAIN v.tabs
  BY <1>3, <1>5, <1>6, <1>7
<1>10. to = "note" => \E i : v.chosen = {i}
  BY <1>7
<1>11. QED
  BY <1>1, <1>7, <1>8, <1>9, <1>10, AfterRead

LEMMA ReadCharacterHolds ==
  ASSUME IInv, NEW s \in Sessions, ReadCharacter(s)
  PROVE  IInv'
<1>1. PICK c \in Targets[s] \cap characters :
        Step(s, "idle", "character",
             [EmptyView EXCEPT !.char = {c},
                               !.tabs = Restrict(notes, OfCharacter(c))])
  BY DEF ReadCharacter
<1> DEFINE R == Restrict(notes, OfCharacter(c))
           v == [EmptyView EXCEPT !.char = {c}, !.tabs = R]
<1>2. OfCharacter(c) \subseteq DOMAIN notes /\ c \in Characters
  BY DEF OfCharacter, IInv, TypeOK
<1>3. R \in NoteTable /\ DOMAIN R = OfCharacter(c)
  BY <1>2, RestrictTable DEF IInv, TypeOK
<1> HIDE DEF R
<1>4. v \in Views /\ v.char = {c} /\ v.chosen = {} /\ v.tabs = R
  BY <1>2, <1>3, EmptyViewTyped DEF Views
<1>5. Step(s, "idle", "character", v)
  BY <1>1 DEF R
<1> HIDE DEF v
<1>6. v.tabs = Restrict(notes, OfCharacter(c))
  BY <1>4 DEF R
<1>7. "character" \in Stages \ {"idle"}
  BY DEF Stages
<1>8. v.chosen \subseteq DOMAIN v.tabs /\ DOMAIN v.tabs \subseteq OfCharacter(c)
  BY <1>3, <1>4
<1>9. QED
  BY <1>4, <1>5, <1>6, <1>7, <1>8, AfterRead

LEMMA ReadNextNoteHolds ==
  ASSUME IInv, NEW s \in Sessions, ReadNextNote(s)
  PROVE  IInv'
<1> DEFINE O == {notes[i].order : i \in Own(s)}
           n == IF Own(s) = {} THEN 0 ELSE Max(O) + 1
           v == [view[s] EXCEPT !.next = n]
<1>1. Step(s, "character", "new note", v) /\ pc[s] = "character"
  BY DEF ReadNextNote, Step
<1>2. n \in Nat
  <2>1. \A i \in Own(s) : notes[i].order \in 0 .. MaxOrder
    BY TableDomain DEF IInv, TypeOK, Own, Note, Orders
  <2>2. O \subseteq 0 .. MaxOrder
    BY <2>1
  <2>3. CASE Own(s) # {}
    <3>1. PICK i \in Own(s) : TRUE
      BY <2>3
    <3>2. notes[i].order \in O
      OBVIOUS
    <3> HIDE DEF O
    <3>3. Max(O) \in 0 .. MaxOrder
      BY <2>2, <3>2, Greatest, BoundAssumption
    <3>4. QED
      BY <2>3, <3>3, BoundAssumption
  <2>4. QED
    BY <2>3
<1> HIDE DEF n
<1>3. PICK c \in Targets[s] \cap characters : view[s].char = {c}
  BY <1>1 DEF IInv, Holds
<1>4. DOMAIN view[s].tabs \subseteq OfCharacter(c)
  BY <1>3 DEF IInv, Holds, Own, OfCharacter
<1>5. view[s].chosen \subseteq DOMAIN view[s].tabs /\ view[s] \in Views
  BY DEF IInv, Holds, TypeOK, Views
<1>6. /\ v \in Views /\ v.char = view[s].char
      /\ v.chosen = view[s].chosen /\ v.tabs = view[s].tabs
  BY <1>2, <1>5 DEF Views
<1> HIDE DEF v
<1>7. "new note" \in Stages \ {"idle"}
  BY DEF Stages
<1>8. v \in Views /\ v.char = {c} /\ v.chosen \subseteq DOMAIN v.tabs
      /\ DOMAIN v.tabs \subseteq OfCharacter(c)
  BY <1>3, <1>4, <1>5, <1>6
<1>9. "new note" \notin {"character", "note", "counted"}
  OBVIOUS
<1>10. QED
  BY <1>1, <1>7, <1>8, <1>9, AfterRead

(* Of more than one note one is left when one is deleted.                  *)
LEMMA CountNotesHolds ==
  ASSUME IInv, NEW s \in Sessions, CountNotes(s)
  PROVE  IInv'
<1>1. Step(s, "note", "counted", view[s]) /\ pc[s] = "note"
  BY DEF CountNotes, Step
<1>2. PICK c \in Targets[s] \cap characters : view[s].char = {c}
  BY <1>1 DEF IInv, Holds
<1>3. Own(s) = OfCharacter(c)
  BY <1>2 DEF Own, OfCharacter
<1>4. PICK i : view[s].chosen = {i}
  BY <1>1 DEF IInv, Holds
<1>5. /\ view[s].chosen \subseteq DOMAIN view[s].tabs
      /\ DOMAIN view[s].tabs \subseteq Own(s) /\ view[s] \in Views
  BY DEF IInv, Holds, TypeOK, Views
<1>6. PICK other \in Own(s) : other # i
  <2>1. SUFFICES ASSUME \A j \in Own(s) : j = i PROVE FALSE
    OBVIOUS
  <2>2. Own(s) = {i}
    BY <1>4, <1>5, <2>1
  <2>3. Cardinality(Own(s)) = 1
    BY <2>2, FS_Singleton
  <2>4. QED
    BY <2>3 DEF CountNotes
<1>7. \E k, j \in OfCharacter(c) : k # j /\ view[s].chosen = {k}
  BY <1>3, <1>4, <1>5, <1>6
<1>8. "counted" \in Stages \ {"idle"}
  BY DEF Stages
<1> DEFINE v == view[s]
<1>9. /\ Step(s, "note", "counted", v) /\ v \in Views /\ v.char = {c}
      /\ v.chosen \subseteq DOMAIN v.tabs
      /\ DOMAIN v.tabs \subseteq OfCharacter(c)
      /\ \E k, j \in OfCharacter(c) : k # j /\ v.chosen = {k}
  BY <1>1, <1>2, <1>3, <1>5, <1>7
<1> HIDE DEF v
<1>10. QED
  BY <1>8, <1>9, AfterRead

(* A request that fails has written nothing.                               *)
LEMMA FailWritten ==
  ASSUME IInv, NEW s \in Sessions, Fail(s)
  PROVE  Written(s)
<1>1. pc[s] # "idle" /\ Close(s) /\ notes' = notes
  BY DEF Fail
<1>2. Confined(view[s].char)
  BY <1>1 DEF Confined, IInv, TypeOK
<1>3. \A c \in view[s].char : c \in characters
  BY <1>1 DEF IInv, Holds
<1>4. \A c \in view[s].char : OfCharacter(c)' # {}
  BY <1>1, <1>3 DEF IInv, HasNote, OfCharacter
<1>5. QED
  BY <1>1, <1>2, <1>4 DEF Written

(* The steps that write on behalf of a session.                            *)
Write(s) == \/ CreateNote(s) \/ PatchNote(s) \/ DeleteNote(s)
            \/ ReorderNotes(s) \/ PatchFirstTab(s) \/ PatchDefaultTab(s)
            \/ Fail(s)

LEMMA WriteWritten ==
  ASSUME IInv, NEW s \in Sessions, Write(s)
  PROVE  Written(s)
  BY CreateNoteWritten, PatchNoteWritten, DeleteWritten, ReorderWritten,
     PatchFirstWritten, PatchDefaultWritten, FailWritten DEF Write

LEMMA StepHolds ==
  ASSUME IInv, OneWriter, [Next]_vars
  PROVE  IInv'
<1>1. CASE UNCHANGED vars
  <2>1. UNCHANGED <<characters, notes, pc, view>>
    BY <1>1 DEF vars
  <2>2. TypeOK'
    BY <2>1 DEF IInv, TypeOK
  <2>3. HasNote'
    BY <2>1 DEF IInv, HasNote, OfCharacter
  <2>4. ASSUME NEW r \in Sessions PROVE Holds(r)'
    <3>1. Confined({})
      BY <2>1 DEF Confined, IInv, TypeOK
    <3>2. QED
      BY <2>1, <3>1, OthersHold
  <2>5. QED
    BY <2>2, <2>3, <2>4 DEF IInv
<1>2. ASSUME NEW c \in Characters, CreateCharacter(c) PROVE IInv'
  BY <1>2, CreateCharacterHolds
<1>3. ASSUME NEW s \in Sessions, ReadCharacter(s) PROVE IInv'
  BY <1>3, ReadCharacterHolds
<1>4. ASSUME NEW s \in Sessions, ReadNote(s) PROVE IInv'
  <2>1. PICK i \in Own(s) : Choose(s, {i}, "note")
    BY <1>4 DEF ReadNote
  <2>2. QED
    BY <2>1, ChooseHolds
<1>5. ASSUME NEW s \in Sessions, ReadNotes(s) PROVE IInv'
  <2>1. PICK S \in SUBSET Own(s) : Choose(s, S, "notes")
    BY <1>5 DEF ReadNotes
  <2>2. QED
    BY <2>1, ChooseHolds
<1>6. ASSUME NEW s \in Sessions, ReadNextNote(s) PROVE IInv'
  BY <1>6, ReadNextNoteHolds
<1>7. ASSUME NEW s \in Sessions, CountNotes(s) PROVE IInv'
  BY <1>7, CountNotesHolds
<1>8. ASSUME NEW s \in Sessions, Write(s) PROVE IInv'
  BY <1>8, WriteWritten, AfterWrite
<1>9. QED
  BY <1>1, <1>2, <1>3, <1>4, <1>5, <1>6, <1>7, <1>8 DEF Next, Write

-----------------------------------------------------------------------------
(* The theorems.                                                           *)

(***************************************************************************)
(* The inductive invariant: if no two sessions write the same character,   *)
(* what a request has read of it is still there when it writes.            *)
(***************************************************************************)
THEOREM ReadsHold == ASSUME OneWriter PROVE Spec => []IInv
<1>1. Init => IInv
  BY InitHolds
<1>2. IInv /\ [Next]_vars => IInv'
  BY StepHolds
<1>3. QED
  BY <1>1, <1>2, PTL DEF Spec

(***************************************************************************)
(* A character always has a note: create_character inserts one with it and *)
(* delete_character_note counts before it deletes.                         *)
(***************************************************************************)
THEOREM KeepsNote == ASSUME OneWriter PROVE Spec => []HasNote
<1>1. IInv => HasNote
  BY DEF IInv
<1>2. QED
  BY <1>1, ReadsHold, PTL

(* A step that does not write leaves the notes as they are.                *)
LEMMA StepKinds ==
  ASSUME [Next]_vars
  PROVE  \/ notes' = notes
         \/ pc' = pc /\ view' = view
         \/ \E s \in Sessions : Write(s)
<1>1. CASE UNCHANGED vars
  BY <1>1 DEF vars
<1>2. ASSUME NEW c \in Characters, CreateCharacter(c) PROVE pc' = pc /\ view' = view
  BY <1>2 DEF CreateCharacter
<1>3. ASSUME NEW s \in Sessions,
             \/ ReadCharacter(s) \/ ReadNote(s) \/ ReadNotes(s)
             \/ ReadNextNote(s) \/ CountNotes(s)
      PROVE  notes' = notes
  BY <1>3 DEF ReadCharacter, ReadNote, ReadNotes, ReadNextNote, CountNotes,
              Choose, Step, db
<1>4. QED
  BY <1>1, <1>2, <1>3 DEF Next, Write

-----------------------------------------------------------------------------
(* Characters that several sessions write: what the constraints protect.   *)

(***************************************************************************)
(* Titles are unique for each character, every note belongs to a character *)
(* that exists, and a request is about one character and names notes it    *)
(* has loaded.  Nothing is said of what is still there when the request    *)
(* writes.                                                                 *)
(***************************************************************************)
SharedInv ==
  /\ TypeOK
  /\ UniqueTitles(notes)
  /\ \A i \in DOMAIN notes : notes[i].char \in characters
  /\ \A s \in Sessions :
       /\ view[s].char \subseteq characters
       /\ \A c, d \in view[s].char : c = d
       /\ view[s].chosen \subseteq DOMAIN view[s].tabs
       /\ pc[s] \in {"note", "counted"} => \E i : view[s].chosen = {i}

(* The four effects a commit has on the table.                             *)
SameTexts ==
  /\ notes' \in NoteTable
  /\ DOMAIN notes' = DOMAIN notes
  /\ \A i \in DOMAIN notes : /\ notes'[i].char = notes[i].char
                             /\ notes'[i].title = notes[i].title
                             /\ notes'[i].text = notes[i].text

Edited(i) ==
  /\ notes' \in NoteTable
  /\ DOMAIN notes' = DOMAIN notes
  /\ notes'[i].char = notes[i].char
  /\ \A j \in DOMAIN notes \ {i} : notes'[j] = notes[j]
  /\ UniqueTitles(notes')

Removed(i) ==
  /\ notes' \in NoteTable
  /\ DOMAIN notes' = DOMAIN notes \ {i}
  /\ \A j \in DOMAIN notes \ {i} : notes'[j] = notes[j]

Grown(i) ==
  /\ i \notin DOMAIN notes
  /\ notes' \in NoteTable
  /\ DOMAIN notes' = DOMAIN notes \cup {i}
  /\ \A j \in DOMAIN notes : notes'[j] = notes[j]
  /\ UniqueTitles(notes')

(* Inserted adds one row.                                                  *)
LEMMA InsertedGrown ==
  ASSUME TypeOK, NEW c \in Characters, NEW t \in Titles, NEW x \in Texts,
         NEW o \in Orders, FreshId <= MaxNotes,
         notes' = Inserted([char |-> c, title |-> t, text |-> x, order |-> o]),
         UniqueTitles(notes')
  PROVE  \E i \in Ids : /\ Grown(i)
                        /\ notes'[i].char = c
                        /\ notes'[i].title = t
                        /\ notes'[i].text = x
<1> DEFINE n == [char |-> c, title |-> t, text |-> x, order |-> o]
           k == FreshId
<1>1. n \in Note /\ n.char = c /\ n.title = t /\ n.text = x
  BY DEF Note
<1>2. k \in Ids /\ k \notin DOMAIN notes
  BY FreshIsNew, BoundAssumption DEF Ids
<1>3. notes' = [i \in DOMAIN notes \cup {k} |-> IF i = k THEN n ELSE notes[i]]
  BY DEF Inserted
<1> HIDE DEF n, k
<1>4. /\ DOMAIN notes' = DOMAIN notes \cup {k}
      /\ notes'[k] = n
      /\ \A j \in DOMAIN notes : notes'[j] = notes[j]
  BY <1>2, <1>3
<1>5. notes' \in NoteTable
  BY <1>3, InsertedRow DEF Confined, Inserted, n, k
<1>6. QED
  BY <1>1, <1>2, <1>4, <1>5 DEF Grown

(* Save leaves the rows and fields that were not changed.                  *)
LEMMA SavedFields ==
  ASSUME TypeOK, NEW old, NEW new, Save(old, new),
         \A i \in DOMAIN new : new[i] \in Note /\ new[i].char = old[i].char
  PROVE  /\ notes' \in NoteTable
         /\ DOMAIN notes' = DOMAIN notes
         /\ \A i \in DOMAIN notes :
              /\ notes'[i].char = notes[i].char
              /\ i \notin DOMAIN new \/ new[i] = old[i] => notes'[i] = notes[i]
              /\ i \in DOMAIN new /\ new[i].title = old[i].title =>
                   notes'[i].title = notes[i].title
              /\ i \in DOMAIN new /\ new[i].text = old[i].text =>
                   notes'[i].text = notes[i].text
              /\ i \in DOMAIN new /\ new[i].order = old[i].order =>
                   notes'[i].order = notes[i].order
<1>1. DOMAIN notes \subseteq Ids /\ \A i \in DOMAIN notes : notes[i] \in Note
  BY TableDomain DEF TypeOK
<1> DEFINE row(i) == [f \in DOMAIN notes[i] |->
                        IF new[i][f] = old[i][f] THEN notes[i][f] ELSE new[i][f]]
<1>2. notes' = [i \in DOMAIN notes |-> IF i \notin DOMAIN new THEN notes[i] ELSE row(i)]
  BY DEF Save
<1>3. ASSUME NEW i \in DOMAIN notes, i \in DOMAIN new
      PROVE  /\ row(i) \in Note
             /\ row(i).char = notes[i].char
             /\ new[i] = old[i] => row(i) = notes[i]
             /\ new[i].title = old[i].title => row(i).title = notes[i].title
             /\ new[i].text = old[i].text => row(i).text = notes[i].text
             /\ new[i].order = old[i].order => row(i).order = notes[i].order
  <2>1. notes[i] \in Note /\ new[i] \in Note /\ new[i].char = old[i].char
    BY <1>1, <1>3
  <2>2. DOMAIN notes[i] = {"char", "title", "text", "order"}
    BY <2>1 DEF Note
  <2>3. row(i) = [char |-> row(i).char, title |-> row(i).title,
                  text |-> row(i).text, order |-> row(i).order]
    BY <2>2
  <2>4. /\ row(i).char = notes[i].char
        /\ row(i).title = IF new[i].title = old[i].title
                          THEN notes[i].title ELSE new[i].title
        /\ row(i).text = IF new[i].text = old[i].text
                         THEN notes[i].text ELSE new[i].text
        /\ row(i).order = IF new[i].order = old[i].order
                          THEN notes[i].order ELSE new[i].order
    BY <2>1, <2>2
  <2> HIDE DEF row
  <2>5. row(i) \in Note
    BY <2>1, <2>3, <2>4 DEF Note
  <2>6. ASSUME new[i] = old[i] PROVE row(i) = notes[i]
    <3>1. row(i) = [char |-> notes[i].char, title |-> notes[i].title,
                    text |-> notes[i].text, order |-> notes[i].order]
      BY <2>3, <2>4, <2>6
    <3>2. QED
      BY <2>1, <3>1 DEF Note
  <2>7. QED
    BY <2>4, <2>5, <2>6
<1> HIDE DEF row
<1>4. DOMAIN notes' = DOMAIN notes
  BY <1>2
<1>5. \A i \in DOMAIN notes :
        notes'[i] = IF i \notin DOMAIN new THEN notes[i] ELSE row(i)
  BY <1>2
<1>6. notes' \in [DOMAIN notes' -> Note]
  BY <1>1, <1>2, <1>3, <1>4, <1>5
<1>7. notes' \in NoteTable
  BY <1>1, <1>4, <1>6, TableDomain
<1>8. QED
  BY <1>3, <1>4, <1>5, <1>7

(* Each write has one of these effects, and ends its request.              *)
Effect ==
  \/ SameTexts
  \/ \E i \in DOMAIN notes : Edited(i) \/ Removed(i)
  \/ \E i \in Ids : Grown(i) /\ notes'[i].char \in characters

LEMMA EditEffect ==
  ASSUME SharedInv, NEW old, NEW new, NEW k, Save(old, new),
         \A i \in DOMAIN new : /\ new[i] \in Note
                               /\ new[i].char = old[i].char
                               /\ i # k => new[i] = old[i],
         k \in DOMAIN notes => UniqueTitles(notes')
  PROVE  Effect
<1>1. /\ notes' \in NoteTable
      /\ DOMAIN notes' = DOMAIN notes
      /\ \A i \in DOMAIN notes :
           /\ notes'[i].char = notes[i].char
           /\ i \notin DOMAIN new \/ new[i] = old[i] => notes'[i] = notes[i]
  BY SavedFields DEF SharedInv
<1>2. \A i \in DOMAIN notes \ {k} : notes'[i] = notes[i]
  BY <1>1
<1>3. CASE k \in DOMAIN notes
  BY <1>1, <1>2, <1>3 DEF Edited, Effect
<1>4. CASE k \notin DOMAIN notes
  BY <1>1, <1>2, <1>4 DEF SameTexts, Effect
<1>5. QED
  BY <1>3, <1>4

LEMMA SharedTabs ==
  ASSUME SharedInv, NEW s \in Sessions
  PROVE  \A i \in DOMAIN view[s].tabs : view[s].tabs[i] \in Note
  BY TableDomain DEF SharedInv, TypeOK

LEMMA CreateNoteEffect ==
  ASSUME SharedInv, NEW s \in Sessions, CreateNote(s)
  PROVE  Effect
<1>1. PICK c \in view[s].char, t \in Titles, x \in Texts :
        notes' = Inserted([char |-> c, title |-> t, text |-> x,
                           order |-> view[s].next])
  BY DEF CreateNote
<1>2. c \in characters /\ c \in Characters
  BY DEF SharedInv, TypeOK
<1>3. TypeOK /\ view[s].next \in Orders /\ FreshId <= MaxNotes /\ UniqueTitles(notes')
  BY DEF SharedInv, CreateNote
<1> DEFINE o == view[s].next
<1> HIDE DEF o
<1>4. /\ notes' = Inserted([char |-> c, title |-> t, text |-> x, order |-> o])
      /\ o \in Orders
  BY <1>1, <1>3 DEF o
<1>5. PICK i \in Ids : Grown(i) /\ notes'[i].char = c
  BY <1>2, <1>3, <1>4, InsertedGrown
<1>6. QED
  BY <1>2, <1>5 DEF Effect

LEMMA PatchDefaultEffect ==
  ASSUME SharedInv, NEW s \in Sessions, PatchDefaultTab(s)
  PROVE  Effect
<1>1. PICK c \in view[s].char, x \in Texts :
        notes' = Inserted([char |-> c, title |-> Default, text |-> x, order |-> 0])
  BY DEF PatchDefaultTab
<1>2. c \in characters /\ c \in Characters
  BY DEF SharedInv, TypeOK
<1>3. 0 \in Orders /\ Default \in Titles
  BY BoundAssumption, NamesAssumption DEF Orders
<1>4. TypeOK /\ FreshId <= MaxNotes /\ UniqueTitles(notes')
  BY DEF SharedInv, PatchDefaultTab
<1>5. PICK i \in Ids : Grown(i) /\ notes'[i].char = c
  BY <1>1, <1>2, <1>3, <1>4, InsertedGrown
<1>6. QED
  BY <1>2, <1>5 DEF Effect

LEMMA PatchNoteEffect ==
  ASSUME SharedInv, NEW s \in Sessions, PatchNote(s)
  PROVE  Effect
<1> DEFINE tabs == view[s].tabs
<1>1. PICK k \in view[s].chosen, t \in Titles, x \in Texts, o \in Orders :
        Save(tabs, [tabs EXCEPT ![k].title = t, ![k].text = x, ![k].order = o])
  BY DEF PatchNote
<1> DEFINE new == [tabs EXCEPT ![k].title = t, ![k].text = x, ![k].order = o]
<1>2. \A i \in DOMAIN tabs : tabs[i] \in Note
  BY SharedTabs
<1>3. k \in DOMAIN tabs
  BY DEF SharedInv
<1>4. DOMAIN new = DOMAIN tabs /\ \A i \in DOMAIN tabs \ {k} : new[i] = tabs[i]
  OBVIOUS
<1>5. new[k] = [char |-> tabs[k].char, title |-> t, text |-> x, order |-> o]
  BY <1>2, <1>3 DEF Note
<1>6. tabs[k].char \in Characters
  BY <1>2, <1>3 DEF Note
<1>7. Save(tabs, new) /\ UniqueTitles(notes')
  BY <1>1 DEF PatchNote
<1> HIDE DEF new
<1>8. new[k] \in Note /\ new[k].char = tabs[k].char
  BY <1>5, <1>6 DEF Note
<1>9. \A i \in DOMAIN new : /\ new[i] \in Note
                            /\ new[i].char = tabs[i].char
                            /\ i # k => new[i] = tabs[i]
  BY <1>2, <1>4, <1>8
<1> HIDE DEF tabs
<1>10. QED
  BY <1>7, <1>9, EditEffect, Zenon

LEMMA PatchFirstEffect ==
  ASSUME SharedInv, NEW s \in Sessions, PatchFirstTab(s)
  PROVE  Effect
<1> DEFINE tabs == view[s].tabs
           k == FirstTab(tabs)
<1>1. PICK x \in Texts : Save(tabs, [tabs EXCEPT ![k].text = x])
  BY DEF PatchFirstTab
<1> DEFINE new == [tabs EXCEPT ![k].text = x]
<1>2. \A i \in DOMAIN tabs : tabs[i] \in Note
  BY SharedTabs
<1> HIDE DEF k
<1>3. /\ DOMAIN new = DOMAIN tabs
      /\ \A i \in DOMAIN tabs \ {k} : new[i] = tabs[i]
      /\ k \in DOMAIN tabs => new[k] = [tabs[k] EXCEPT !.text = x]
  OBVIOUS
<1>4. Save(tabs, new)
  BY <1>1 DEF k
<1> HIDE DEF new
<1>5. \A i \in DOMAIN new : /\ new[i] \in Note
                            /\ new[i].char = tabs[i].char
                            /\ new[i].title = tabs[i].title
                            /\ i # k => new[i] = tabs[i]
  BY <1>2, <1>3 DEF Note
<1>6. /\ DOMAIN notes' = DOMAIN notes
      /\ \A i \in DOMAIN notes : /\ notes'[i].char = notes[i].char
                                 /\ notes'[i].title = notes[i].title
  BY <1>4, <1>5, SavedFields DEF SharedInv
<1>7. UniqueTitles(notes')
  BY <1>6 DEF SharedInv, UniqueTitles
<1> HIDE DEF tabs
<1>8. QED
  BY <1>4, <1>5, <1>7, EditEffect, Zenon

LEMMA ReorderEffect ==
  ASSUME SharedInv, NEW s \in Sessions, ReorderNotes(s)
  PROVE  Effect
<1> DEFINE tabs == view[s].tabs
<1>1. PICK orders \in [view[s].chosen -> Orders] :
        Save(tabs, [i \in view[s].chosen |-> [tabs[i] EXCEPT !.order = orders[i]]])
  BY DEF ReorderNotes
<1> DEFINE new == [i \in view[s].chosen |-> [tabs[i] EXCEPT !.order = orders[i]]]
<1>2. \A i \in DOMAIN tabs : tabs[i] \in Note
  BY SharedTabs
<1>3. view[s].chosen \subseteq DOMAIN tabs
  BY DEF SharedInv
<1>4. \A i \in view[s].chosen : /\ new[i] \in Note
                                /\ new[i].char = tabs[i].char
                                /\ new[i].title = tabs[i].title
                                /\ new[i].text = tabs[i].text
  BY <1>2, <1>3 DEF Note
<1>5. Save(tabs, new) /\ DOMAIN new = view[s].chosen
  BY <1>1
<1> HIDE DEF new
<1>6. SameTexts
  BY <1>4, <1>5, SavedFields DEF SharedInv, SameTexts
<1>7. QED
  BY <1>6 DEF Effect

LEMMA DeleteEffect ==
  ASSUME SharedInv, NEW s \in Sessions, DeleteNote(s)
  PROVE  Effect
<1>1. PICK i : view[s].chosen = {i}
  BY DEF SharedInv, DeleteNote
<1> DEFINE S == DOMAIN notes \ {i}
<1>2. notes' = Restrict(notes, S) /\ notes \in NoteTable /\ S \subseteq DOMAIN notes
  BY <1>1 DEF DeleteNote, SharedInv, TypeOK
<1> HIDE DEF S
<1>a. notes' \in NoteTable /\ DOMAIN notes' = S /\ \A k \in S : notes'[k] = notes[k]
  BY <1>2, RestrictTable
<1>3. /\ notes' \in NoteTable
      /\ DOMAIN notes' = DOMAIN notes \ {i}
      /\ \A k \in DOMAIN notes \ {i} : notes'[k] = notes[k]
  BY <1>a DEF S
<1>4. CASE i \in DOMAIN notes
  BY <1>3, <1>4 DEF Effect, Removed
<1>5. CASE i \notin DOMAIN notes
  BY <1>3, <1>5 DEF Effect, SameTexts
<1>6. QED
  BY <1>4, <1>5

LEMMA WriteEffect ==
  ASSUME SharedInv, NEW s \in Sessions, Write(s)
  PROVE  Effect /\ Close(s)
<1>1. CASE Fail(s)
  BY <1>1 DEF Fail, Effect, SameTexts, SharedInv, TypeOK
<1>2. Close(s)
  BY DEF Write, CreateNote, PatchNote, DeleteNote, ReorderNotes, PatchFirstTab,
         PatchDefaultTab, Fail
<1>3. QED
  BY <1>1, <1>2, CreateNoteEffect, PatchNoteEffect, DeleteEffect, ReorderEffect,
     PatchFirstEffect, PatchDefaultEffect DEF Write

(* A read leaves the rows alone, and names notes it has loaded.            *)
LEMMA SharedRead ==
  ASSUME SharedInv, NEW s \in Sessions, NEW from, NEW to \in Stages, NEW v \in Views,
         Step(s, from, to, v), v.char \subseteq characters,
         \A c, d \in v.char : c = d, v.chosen \subseteq DOMAIN v.tabs,
         to \in {"note", "counted"} => \E i : v.chosen = {i}
  PROVE  SharedInv'
<1>1. /\ pc' = [pc EXCEPT ![s] = to] /\ view' = [view EXCEPT ![s] = v]
      /\ notes' = notes /\ characters' = characters
  BY DEF Step, db
<1>2. view \in [Sessions -> Views] /\ pc \in [Sessions -> Stages]
  BY DEF SharedInv, TypeOK, Views, Stages
<1>3. view' \in [Sessions -> Views] /\ pc' \in [Sessions -> Stages]
  BY <1>1, <1>2
<1>4. TypeOK'
  BY <1>1, <1>3 DEF SharedInv, TypeOK, Views, Stages
<1>5. UniqueTitles(notes') /\ \A i \in DOMAIN notes' : notes'[i].char \in characters'
  BY <1>1 DEF SharedInv, UniqueTitles
<1>6. ASSUME NEW r \in Sessions
      PROVE  /\ view'[r].char \subseteq characters'
             /\ \A c, d \in view'[r].char : c = d
             /\ view'[r].chosen \subseteq DOMAIN view'[r].tabs
             /\ pc'[r] \in {"note", "counted"} => \E i : view'[r].chosen = {i}
  <2>1. CASE r = s
    <3>1. view'[r] = v /\ pc'[r] = to
      BY <1>1, <1>2, <2>1
    <3>2. QED
      BY <1>1, <3>1
  <2>2. CASE r # s
    <3>1. view'[r] = view[r] /\ pc'[r] = pc[r]
      BY <1>1, <1>2, <2>2
    <3>2. QED
      BY <1>1, <3>1 DEF SharedInv
  <2>3. QED
    BY <2>1, <2>2
<1>7. QED
  BY <1>4, <1>5, <1>6 DEF SharedInv

(* The rows a request may touch are the rows of a table.                   *)
LEMMA SharedRows ==
  ASSUME SharedInv
  PROVE  /\ notes \in NoteTable
         /\ DOMAIN notes \subseteq Ids
         /\ \A i \in DOMAIN notes : notes[i] \in Note
         /\ \A s \in Sessions : /\ view[s] \in Views
                                /\ DOMAIN view[s].tabs \subseteq Ids
                                /\ view[s].tabs \in NoteTable
<1>1. notes \in NoteTable /\ \A s \in Sessions : view[s] \in Views
  BY DEF SharedInv, TypeOK, Views
<1>2. \A s \in Sessions : view[s].tabs \in NoteTable
  BY <1>1 DEF Views
<1>3. QED
  BY <1>1, <1>2, TableDomain

LEMMA SharedReadCharacter ==
  ASSUME SharedInv, NEW s \in Sessions, ReadCharacter(s)
  PROVE  SharedInv'
<1>1. PICK c \in Targets[s] \cap characters :
        Step(s, "idle", "character",
             [EmptyView EXCEPT !.char = {c},
                               !.tabs = Restrict(notes, OfCharacter(c))])
  BY DEF ReadCharacter
<1> DEFINE R == Restrict(notes, OfCharacter(c))
           v == [EmptyView EXCEPT !.char = {c}, !.tabs = R]
<1>2. OfCharacter(c) \subseteq DOMAIN notes /\ c \in Characters
  BY DEF OfCharacter, SharedInv, TypeOK
<1>3. R \in NoteTable
  BY <1>2, RestrictTable, SharedRows
<1> HIDE DEF R
<1>4. v \in Views /\ v.char = {c} /\ v.chosen = {}
  BY <1>2, <1>3, EmptyViewTyped DEF Views
<1>5. Step(s, "idle", "character", v)
  BY <1>1 DEF R
<1> HIDE DEF v
<1>6. "character" \in Stages
  BY DEF Stages
<1>7. QED
  BY <1>4, <1>5, <1>6, SharedRead

LEMMA SharedChoose ==
  ASSUME SharedInv, NEW s \in Sessions, NEW S, S \subseteq Own(s),
         NEW to \in {"note", "notes"}, Choose(s, S, to),
         to = "note" => \E i : S = {i}
  PROVE  SharedInv'
<1> DEFINE old == view[s].tabs
           tabs == [i \in DOMAIN old \cup S |-> IF i \in DOMAIN old THEN old[i]
                                                ELSE notes[i]]
           v == [view[s] EXCEPT !.chosen = S, !.tabs = tabs]
<1>1. Step(s, "character", to, v)
  BY DEF Choose
<1>2. S \subseteq DOMAIN notes /\ S \subseteq Ids
      /\ \A i \in DOMAIN notes : notes[i] \in Note
  BY SharedRows DEF Own
<1>3. /\ view[s] \in Views /\ DOMAIN old \subseteq Ids
      /\ \A i \in DOMAIN old : old[i] \in Note
      /\ view[s].char \subseteq characters
      /\ \A c, d \in view[s].char : c = d
  BY SharedRows, SharedTabs DEF SharedInv
<1>4. tabs \in NoteTable /\ DOMAIN tabs = DOMAIN old \cup S
  <2>1. DOMAIN tabs = DOMAIN old \cup S
    OBVIOUS
  <2>2. tabs \in [DOMAIN old \cup S -> Note]
    BY <1>2, <1>3
  <2>3. DOMAIN old \cup S \subseteq Ids
    BY <1>2, <1>3
  <2> HIDE DEF tabs
  <2>4. QED
    BY <2>1, <2>2, <2>3, TableDomain
<1> HIDE DEF tabs
<1>5. v \in Views /\ v.char = view[s].char /\ v.chosen = S /\ v.tabs = tabs
  BY <1>2, <1>3, <1>4 DEF Views
<1>6. to \in Stages /\ to # "counted"
  BY DEF Stages
<1> HIDE DEF v
<1>7. /\ v.char \subseteq characters /\ \A c, d \in v.char : c = d
      /\ v.chosen \subseteq DOMAIN v.tabs
      /\ to \in {"note", "counted"} => \E i : v.chosen = {i}
  BY <1>3, <1>4, <1>5, <1>6
<1>8. QED
  BY ONLY SharedInv, s \in Sessions, <1>1, <1>5, <1>6, <1>7, SharedRead

LEMMA SharedNext ==
  ASSUME SharedInv, NEW s \in Sessions, ReadNextNote(s)
  PROVE  SharedInv'
<1> DEFINE O == {notes[i].order : i \in Own(s)}
           n == IF Own(s) = {} THEN 0 ELSE Max(O) + 1
           v == [view[s] EXCEPT !.next = n]
<1>1. Step(s, "character", "new note", v)
  BY DEF ReadNextNote
<1>2. n \in Nat
  <2>1. \A i \in Own(s) : notes[i].order \in 0 .. MaxOrder
    BY SharedRows DEF Own, Note, Orders
  <2>2. O \subseteq 0 .. MaxOrder
    BY <2>1
  <2>3. CASE Own(s) # {}
    <3>1. PICK i \in Own(s) : TRUE
      BY <2>3
    <3>2. notes[i].order \in O
      OBVIOUS
    <3> HIDE DEF O
    <3>3. Max(O) \in 0 .. MaxOrder
      BY <2>2, <3>2, Greatest, BoundAssumption
    <3>4. QED
      BY <2>3, <3>3, BoundAssumption
  <2>4. QED
    BY <2>3
<1> HIDE DEF n
<1>3. /\ view[s] \in Views /\ view[s].char \subseteq characters
      /\ \A c, d \in view[s].char : c = d
      /\ view[s].chosen \subseteq DOMAIN view[s].tabs
  BY SharedRows DEF SharedInv
<1>4. /\ v \in Views /\ v.char = view[s].char
      /\ v.chosen = view[s].chosen /\ v.tabs = view[s].tabs
  BY <1>2, <1>3 DEF Views
<1> HIDE DEF v
<1>5. "new note" \in Stages /\ "new note" \notin {"note", "counted"}
  BY DEF Stages
<1>6. /\ v.char \subseteq characters /\ v.chosen \subseteq DOMAIN v.tabs
      /\ \A c, d \in v.char : c = d
  BY ONLY <1>3, <1>4
<1>7. "new note" \in {"note", "counted"} => \E i : v.chosen = {i}
  BY ONLY <1>5
<1>8. QED
  BY ONLY SharedInv, s \in Sessions, <1>1, <1>4, <1>5, <1>6, <1>7, SharedRead

LEMMA SharedCount ==
  ASSUME SharedInv, NEW s \in Sessions, CountNotes(s)
  PROVE  SharedInv'
<1> DEFINE v == view[s]
<1>1. Step(s, "note", "counted", v)
  BY DEF CountNotes
<1>2. /\ v \in Views /\ v.char \subseteq characters
      /\ \A c, d \in v.char : c = d
      /\ v.chosen \subseteq DOMAIN v.tabs
      /\ \E i : v.chosen = {i}
  BY SharedRows DEF SharedInv, CountNotes, Step
<1>3. "counted" \in Stages
  BY DEF Stages
<1> HIDE DEF v
<1>4. QED
  BY <1>1, <1>2, <1>3, SharedRead

(* Any of the four effects keeps the titles unique and the owners there.   *)
LEMMA EffectShared ==
  ASSUME SharedInv, Effect, characters' = characters
  PROVE  /\ notes' \in NoteTable
         /\ UniqueTitles(notes')
         /\ \A i \in DOMAIN notes' : notes'[i].char \in characters'
<1>1. UniqueTitles(notes) /\ \A i \in DOMAIN notes : notes[i].char \in characters
  BY DEF SharedInv
<1>2. CASE SameTexts
  BY <1>1, <1>2 DEF SameTexts, UniqueTitles
<1>3. ASSUME NEW i \in DOMAIN notes, Edited(i)
      PROVE  /\ notes' \in NoteTable
             /\ UniqueTitles(notes')
             /\ \A j \in DOMAIN notes' : notes'[j].char \in characters'
  BY <1>1, <1>3 DEF Edited
<1>4. ASSUME NEW i \in DOMAIN notes, Removed(i)
      PROVE  /\ notes' \in NoteTable
             /\ UniqueTitles(notes')
             /\ \A j \in DOMAIN notes' : notes'[j].char \in characters'
  BY <1>1, <1>4 DEF Removed, UniqueTitles
<1>5. ASSUME NEW i \in Ids, Grown(i), notes'[i].char \in characters
      PROVE  /\ notes' \in NoteTable
             /\ UniqueTitles(notes')
             /\ \A j \in DOMAIN notes' : notes'[j].char \in characters'
  BY <1>1, <1>5 DEF Grown
<1>6. QED
  BY <1>2, <1>3, <1>4, <1>5 DEF Effect

LEMMA SharedWrite ==
  ASSUME SharedInv, NEW s \in Sessions, Effect, Close(s)
  PROVE  SharedInv'
<1>1. /\ pc' = [pc EXCEPT ![s] = "idle"] /\ view' = [view EXCEPT ![s] = EmptyView]
      /\ characters' = characters
  BY DEF Close
<1>2. /\ notes' \in NoteTable
      /\ UniqueTitles(notes')
      /\ \A i \in DOMAIN notes' : notes'[i].char \in characters'
  BY <1>1, EffectShared
<1>3. view \in [Sessions -> Views] /\ pc \in [Sessions -> Stages]
  BY DEF SharedInv, TypeOK, Views, Stages
<1>4. view' \in [Sessions -> Views] /\ pc' \in [Sessions -> Stages]
  BY <1>1, <1>3, EmptyViewTyped DEF Stages
<1>5. TypeOK'
  BY <1>1, <1>2, <1>4 DEF SharedInv, TypeOK, Views, Stages
<1>6. ASSUME NEW r \in Sessions
      PROVE  /\ view'[r].char \subseteq characters'
             /\ \A c, d \in view'[r].char : c = d
             /\ view'[r].chosen \subseteq DOMAIN view'[r].tabs
             /\ pc'[r] \in {"note", "counted"} => \E i : view'[r].chosen = {i}
  <2>1. CASE r = s
    <3>1. view'[r] = EmptyView /\ pc'[r] = "idle"
      BY <1>1, <1>3, <2>1
    <3>2. QED
      BY <3>1, EmptyViewTyped
  <2>2. CASE r # s
    <3>1. view'[r] = view[r] /\ pc'[r] = pc[r]
      BY <1>1, <1>3, <2>2
    <3>2. QED
      BY <1>1, <3>1 DEF SharedInv
  <2>3. QED
    BY <2>1, <2>2
<1>7. QED
  BY <1>2, <1>5, <1>6 DEF SharedInv

(* A new character comes with one note, its only one.                      *)
LEMMA CreateCharacterGrown ==
  ASSUME SharedInv, NEW c \in Characters, CreateCharacter(c)
  PROVE  /\ c \notin characters /\ characters' = characters \cup {c}
         /\ pc' = pc /\ view' = view
         /\ \E i \in Ids : /\ Grown(i)
                           /\ notes'[i].char = c
                           /\ notes'[i].title = Default
                           /\ notes'[i].text \in Texts
<1>1. PICK x \in Texts :
        notes' = Inserted([char |-> c, title |-> Default, text |-> x, order |-> 0])
  BY DEF CreateCharacter
<1>2. 0 \in Orders /\ Default \in Titles
  BY BoundAssumption, NamesAssumption DEF Orders
<1>3. /\ c \notin characters /\ characters' = characters \cup {c}
      /\ pc' = pc /\ view' = view /\ FreshId <= MaxNotes /\ TypeOK
  BY DEF CreateCharacter, SharedInv
<1>4. UniqueTitles(notes')
  <2> DEFINE n == [char |-> c, title |-> Default, text |-> x, order |-> 0]
             k == FreshId
  <2>1. notes' = [i \in DOMAIN notes \cup {k} |-> IF i = k THEN n ELSE notes[i]]
    BY <1>1 DEF Inserted
  <2>2. n.char = c /\ k \notin DOMAIN notes
    BY <1>3, FreshIsNew
  <2> HIDE DEF n, k
  <2>3. /\ DOMAIN notes' = DOMAIN notes \cup {k}
        /\ notes'[k].char = c
        /\ \A i \in DOMAIN notes : notes'[i] = notes[i] /\ notes'[i].char # c
    BY <1>3, <2>1, <2>2 DEF SharedInv
  <2>4. QED
    BY <2>3 DEF SharedInv, UniqueTitles
<1>5. PICK i \in Ids : /\ Grown(i)
                       /\ notes'[i].char = c
                       /\ notes'[i].title = Default
                       /\ notes'[i].text = x
  BY <1>1, <1>2, <1>3, <1>4, InsertedGrown
<1>6. QED
  BY <1>3, <1>5

LEMMA SharedCreate ==
  ASSUME SharedInv, NEW c \in Characters, CreateCharacter(c)
  PROVE  SharedInv'
<1>1. /\ characters' = characters \cup {c} /\ pc' = pc /\ view' = view
      /\ \E i \in Ids : Grown(i) /\ notes'[i].char = c
  BY CreateCharacterGrown
<1>2. /\ notes' \in NoteTable
      /\ UniqueTitles(notes')
      /\ \A i \in DOMAIN notes' : notes'[i].char \in characters'
  BY <1>1 DEF Grown, SharedInv
<1>3. TypeOK'
  BY <1>1, <1>2 DEF SharedInv, TypeOK
<1>4. QED
  BY <1>1, <1>2, <1>3 DEF SharedInv

LEMMA SharedInit == Init => SharedInv
<1> SUFFICES ASSUME Init PROVE SharedInv
  OBVIOUS
<1>1. TypeOK
  BY InitHolds DEF IInv
<1>2. notes = NoNotes /\ DOMAIN NoNotes = {}
  BY EmptyViewTyped DEF Init
<1>3. UniqueTitles(notes) /\ \A i \in DOMAIN notes : notes[i].char \in characters
  BY <1>2 DEF UniqueTitles
<1>4. \A s \in Sessions : view[s] = EmptyView /\ pc[s] = "idle"
  BY DEF Init
<1>5. QED
  BY <1>1, <1>3, <1>4, EmptyViewTyped DEF SharedInv

LEMMA SharedStep == SharedInv /\ [Next]_vars => SharedInv'
<1> SUFFICES ASSUME SharedInv, [Next]_vars PROVE SharedInv'
  OBVIOUS
<1>1. CASE UNCHANGED vars
  BY <1>1 DEF vars, SharedInv, TypeOK, UniqueTitles
<1>2. ASSUME NEW c \in Characters, CreateCharacter(c) PROVE SharedInv'
  BY <1>2, SharedCreate
<1>3. ASSUME NEW s \in Sessions, ReadCharacter(s) PROVE SharedInv'
  BY <1>3, SharedReadCharacter
<1>4. ASSUME NEW s \in Sessions, ReadNote(s) PROVE SharedInv'
  <2>1. PICK i \in Own(s) : Choose(s, {i}, "note")
    BY <1>4 DEF ReadNote
  <2>2. QED
    BY <2>1, SharedChoose
<1>5. ASSUME NEW s \in Sessions, ReadNotes(s) PROVE SharedInv'
  <2>1. PICK S \in SUBSET Own(s) : Choose(s, S, "notes")
    BY <1>5 DEF ReadNotes
  <2>2. QED
    BY <2>1, SharedChoose
<1>6. ASSUME NEW s \in Sessions, ReadNextNote(s) PROVE SharedInv'
  BY <1>6, SharedNext
<1>7. ASSUME NEW s \in Sessions, CountNotes(s) PROVE SharedInv'
  BY <1>7, SharedCount
<1>8. ASSUME NEW s \in Sessions, Write(s) PROVE SharedInv'
  BY <1>8, WriteEffect, SharedWrite
<1>9. QED
  BY <1>1, <1>2, <1>3, <1>4, <1>5, <1>6, <1>7, <1>8 DEF Next, Write

-----------------------------------------------------------------------------
(* Each effect is a step of the book.                                      *)

RowsOf(tbl, c) == {i \in DOMAIN tbl : tbl[i].char = c}

(* A page has an entry for each note, whose titles differ.                 *)
LEMMA PageRows ==
  ASSUME NEW tbl, UniqueTitles(tbl), NEW c
  PROVE  /\ DOMAIN PageOf(tbl, c) = {tbl[i].title : i \in RowsOf(tbl, c)}
         /\ PageOf(tbl, c) = [t \in DOMAIN PageOf(tbl, c) |-> PageOf(tbl, c)[t]]
         /\ \A i \in RowsOf(tbl, c) : PageOf(tbl, c)[tbl[i].title] = tbl[i].text
<1> DEFINE own == RowsOf(tbl, c)
           pick(t) == CHOOSE i \in own : tbl[i].title = t
<1>1. PageOf(tbl, c) = [t \in {tbl[i].title : i \in own} |-> tbl[pick(t)].text]
  BY DEF PageOf, RowsOf
<1>2. ASSUME NEW i \in own PROVE pick(tbl[i].title) = i
  <2>1. /\ pick(tbl[i].title) \in own
        /\ tbl[pick(tbl[i].title)].title = tbl[i].title
    BY <1>2
  <2> HIDE DEF pick
  <2>2. QED
    BY <1>2, <2>1 DEF UniqueTitles, RowsOf
<1> HIDE DEF pick
<1>3. QED
  BY <1>1, <1>2

(* Rows that agree on titles and texts make the same page.                 *)
LEMMA SamePage ==
  ASSUME NEW t, NEW u, UniqueTitles(t), UniqueTitles(u), NEW c,
         RowsOf(t, c) = RowsOf(u, c),
         \A i \in RowsOf(t, c) : t[i].title = u[i].title /\ t[i].text = u[i].text
  PROVE  PageOf(t, c) = PageOf(u, c)
<1> DEFINE p == PageOf(t, c)
           q == PageOf(u, c)
<1>1. /\ DOMAIN p = {t[i].title : i \in RowsOf(t, c)}
      /\ p = [v \in DOMAIN p |-> p[v]]
      /\ \A i \in RowsOf(t, c) : p[t[i].title] = t[i].text
  BY ONLY UniqueTitles(t), PageRows, ZenonT(60)
<1>2. /\ DOMAIN q = {u[i].title : i \in RowsOf(u, c)}
      /\ q = [v \in DOMAIN q |-> q[v]]
      /\ \A i \in RowsOf(u, c) : q[u[i].title] = u[i].text
  BY ONLY UniqueTitles(u), PageRows, ZenonT(60)
<1> HIDE DEF p, q
<1>3. DOMAIN p = DOMAIN q
  BY <1>1, <1>2
<1>4. \A v \in DOMAIN p : p[v] = q[v]
  BY <1>1, <1>2
<1>5. p = q
  BY <1>1, <1>2, <1>3, <1>4
<1>6. QED
  BY <1>5 DEF p, q

Pages == [c \in characters |-> PageOf(notes, c)]

(* Rows of other characters are not affected.                              *)
LEMMA OtherPages ==
  ASSUME UniqueTitles(notes), UniqueTitles(notes'), NEW c,
         \A d \in characters \ {c} :
           /\ RowsOf(notes, d) = RowsOf(notes', d)
           /\ \A i \in RowsOf(notes, d) : notes'[i] = notes[i]
  PROVE  \A d \in characters \ {c} : PageOf(notes', d) = PageOf(notes, d)
<1> TAKE d \in characters \ {c}
<1>1. QED
  BY SamePage

LEMMA SameBook ==
  ASSUME SharedInv, SameTexts, characters' = characters
  PROVE  Pages' = Pages
<1>1. UniqueTitles(notes) /\ UniqueTitles(notes')
  BY DEF SharedInv, SameTexts, UniqueTitles
<1>2. ASSUME NEW d \in characters PROVE PageOf(notes', d) = PageOf(notes, d)
  <2>1. RowsOf(notes', d) = RowsOf(notes, d)
    BY DEF SameTexts, RowsOf
  <2>2. \A i \in RowsOf(notes', d) : notes'[i].title = notes[i].title
                                     /\ notes'[i].text = notes[i].text
    BY DEF SameTexts, RowsOf
  <2>3. QED
    BY <1>1, <2>1, <2>2, SamePage
<1>3. QED
  BY <1>2 DEF Pages

(* A book of which one page has changed.                                   *)
LEMMA PageChanged ==
  ASSUME characters' = characters, NEW c \in characters, NEW page,
         PageOf(notes', c) = page,
         \A d \in characters \ {c} : PageOf(notes', d) = PageOf(notes, d)
  PROVE  Pages' = [Pages EXCEPT ![c] = page]
  BY DEF Pages

LEMMA RemovedBook ==
  ASSUME SharedInv, characters' = characters, NEW i \in DOMAIN notes, Removed(i)
  PROVE  \E c \in characters : \E t \in DOMAIN Pages[c] :
           Pages' = [Pages EXCEPT ![c] = Restrict(Pages[c], DOMAIN Pages[c] \ {t})]
<1> DEFINE c == notes[i].char
           t == notes[i].title
           p == PageOf(notes, c)
           q == PageOf(notes', c)
<1>1. UniqueTitles(notes) /\ UniqueTitles(notes') /\ c \in characters
  BY DEF SharedInv, Removed, UniqueTitles
<1>2. /\ RowsOf(notes', c) = RowsOf(notes, c) \ {i} /\ i \in RowsOf(notes, c)
      /\ \A j \in RowsOf(notes', c) : notes'[j] = notes[j]
      /\ \A d \in characters \ {c} :
           /\ RowsOf(notes, d) = RowsOf(notes', d)
           /\ \A j \in RowsOf(notes, d) : notes'[j] = notes[j]
  BY DEF Removed, RowsOf
<1>3. /\ DOMAIN p = {notes[j].title : j \in RowsOf(notes, c)}
      /\ \A j \in RowsOf(notes, c) : p[notes[j].title] = notes[j].text
  BY <1>1, PageRows
<1>4. /\ DOMAIN q = {notes'[j].title : j \in RowsOf(notes', c)}
      /\ q = [v \in DOMAIN q |-> q[v]]
      /\ \A j \in RowsOf(notes', c) : q[notes'[j].title] = notes'[j].text
  BY <1>1, PageRows
<1>5. \A j \in RowsOf(notes, c) \ {i} : notes[j].title # t
  BY <1>1, <1>2 DEF UniqueTitles, RowsOf
<1>6. \A d \in characters \ {c} : PageOf(notes', d) = PageOf(notes, d)
  BY <1>1, <1>2, OtherPages
<1>7. t \in DOMAIN p
  BY <1>2, <1>3
<1> HIDE DEF p, q
<1>8. DOMAIN q = DOMAIN p \ {t}
  BY <1>2, <1>3, <1>4, <1>5
<1>9. \A v \in DOMAIN q : q[v] = p[v]
  BY <1>2, <1>3, <1>4
<1>10. q = Restrict(p, DOMAIN p \ {t})
  BY <1>4, <1>8, <1>9 DEF Restrict
<1>11. Pages[c] = p
  BY <1>1 DEF Pages, p
<1> HIDE DEF c, t
<1>12. Pages' = [Pages EXCEPT ![c] = Restrict(p, DOMAIN p \ {t})]
  BY <1>1, <1>6, <1>10, PageChanged DEF q
<1>13. QED
  BY <1>1, <1>7, <1>11, <1>12

LEMMA EditedBook ==
  ASSUME SharedInv, characters' = characters, NEW i \in DOMAIN notes, Edited(i)
  PROVE  \E c \in characters : \E t \in DOMAIN Pages[c], u \in Titles, x \in Texts :
           /\ u \notin DOMAIN Pages[c] \ {t}
           /\ Pages' = [Pages EXCEPT ![c] =
                          [v \in (DOMAIN Pages[c] \ {t}) \cup {u} |->
                             IF v = u THEN x ELSE Pages[c][v]]]
<1> DEFINE c == notes[i].char
           t == notes[i].title
           u == notes'[i].title
           x == notes'[i].text
           p == PageOf(notes, c)
           q == PageOf(notes', c)
<1>1. UniqueTitles(notes) /\ UniqueTitles(notes') /\ c \in characters
  BY DEF SharedInv, Edited
<1>a. u \in Titles /\ x \in Texts
  BY TableDomain DEF Edited, Note
<1>2. /\ RowsOf(notes', c) = RowsOf(notes, c) /\ i \in RowsOf(notes, c)
      /\ \A j \in RowsOf(notes, c) \ {i} : notes'[j] = notes[j]
      /\ \A d \in characters \ {c} :
           /\ RowsOf(notes, d) = RowsOf(notes', d)
           /\ \A j \in RowsOf(notes, d) : notes'[j] = notes[j]
  BY DEF Edited, RowsOf
<1>3. /\ DOMAIN p = {notes[j].title : j \in RowsOf(notes, c)}
      /\ \A j \in RowsOf(notes, c) : p[notes[j].title] = notes[j].text
  BY <1>1, PageRows
<1>4. /\ DOMAIN q = {notes'[j].title : j \in RowsOf(notes', c)}
      /\ q = [v \in DOMAIN q |-> q[v]]
      /\ \A j \in RowsOf(notes', c) : q[notes'[j].title] = notes'[j].text
  BY <1>1, PageRows
<1>5. \A j \in RowsOf(notes, c) \ {i} : notes[j].title # t /\ notes[j].title # u
  BY <1>1, <1>2 DEF UniqueTitles, RowsOf
<1>6. \A d \in characters \ {c} : PageOf(notes', d) = PageOf(notes, d)
  BY <1>1, <1>2, OtherPages
<1>7. t \in DOMAIN p
  BY <1>2, <1>3
<1> HIDE DEF p, q
<1>8. u \notin DOMAIN p \ {t}
  BY <1>2, <1>3, <1>5
<1>9. DOMAIN q = (DOMAIN p \ {t}) \cup {u}
  BY <1>2, <1>3, <1>4, <1>5
<1>10. \A v \in DOMAIN q : q[v] = IF v = u THEN x ELSE p[v]
  BY <1>2, <1>3, <1>4
<1>11. q = [v \in (DOMAIN p \ {t}) \cup {u} |-> IF v = u THEN x ELSE p[v]]
  BY <1>4, <1>9, <1>10
<1>12. Pages[c] = p
  BY <1>1 DEF Pages, p
<1> HIDE DEF c, t, u, x
<1>13. Pages' = [Pages EXCEPT ![c] = q]
  BY <1>1, <1>6, PageChanged DEF q
<1>14. QED
  BY <1>1, <1>a, <1>7, <1>8, <1>11, <1>12, <1>13

LEMMA GrownPage ==
  ASSUME SharedInv, NEW i \in Ids, Grown(i)
  PROVE  LET c == notes'[i].char
             t == notes'[i].title
             p == PageOf(notes, c)
         IN /\ t \in Titles /\ notes'[i].text \in Texts
            /\ t \notin DOMAIN p
            /\ PageOf(notes', c) = [v \in DOMAIN p \cup {t} |->
                                      IF v = t THEN notes'[i].text ELSE p[v]]
            /\ \A d : d # c => PageOf(notes', d) = PageOf(notes, d)
<1> DEFINE c == notes'[i].char
           t == notes'[i].title
           x == notes'[i].text
           p == PageOf(notes, c)
           q == PageOf(notes', c)
<1>1. UniqueTitles(notes) /\ UniqueTitles(notes')
  BY DEF SharedInv, Grown
<1>2. t \in Titles /\ x \in Texts
  BY TableDomain DEF Grown, Note
<1>3. /\ RowsOf(notes', c) = RowsOf(notes, c) \cup {i} /\ i \notin RowsOf(notes, c)
      /\ \A j \in RowsOf(notes, c) : notes'[j] = notes[j]
      /\ \A d : d # c => /\ RowsOf(notes, d) = RowsOf(notes', d)
                         /\ \A j \in RowsOf(notes, d) : notes'[j] = notes[j]
  BY DEF Grown, RowsOf
<1>4. /\ DOMAIN p = {notes[j].title : j \in RowsOf(notes, c)}
      /\ \A j \in RowsOf(notes, c) : p[notes[j].title] = notes[j].text
  BY <1>1, PageRows
<1>5. /\ DOMAIN q = {notes'[j].title : j \in RowsOf(notes', c)}
      /\ q = [v \in DOMAIN q |-> q[v]]
      /\ \A j \in RowsOf(notes', c) : q[notes'[j].title] = notes'[j].text
  BY <1>1, PageRows
<1>6. \A j \in RowsOf(notes, c) : notes[j].title # t
  BY <1>1, <1>3 DEF UniqueTitles, RowsOf
<1>7. ASSUME NEW d, d # c PROVE PageOf(notes', d) = PageOf(notes, d)
  BY <1>1, <1>3, <1>7, SamePage
<1> HIDE DEF p, q
<1>8. t \notin DOMAIN p
  BY <1>4, <1>6
<1>9. DOMAIN q = DOMAIN p \cup {t}
  BY <1>3, <1>4, <1>5
<1>10. \A v \in DOMAIN q : q[v] = IF v = t THEN x ELSE p[v]
  BY <1>3, <1>4, <1>5, <1>6
<1>11. q = [v \in DOMAIN p \cup {t} |-> IF v = t THEN x ELSE p[v]]
  BY <1>5, <1>9, <1>10
<1>12. QED
  BY <1>2, <1>7, <1>8, <1>11 DEF p, q

LEMMA GrownBook ==
  ASSUME SharedInv, characters' = characters, NEW i \in Ids, Grown(i),
         notes'[i].char \in characters
  PROVE  \E c \in characters : \E t \in Titles, x \in Texts :
           /\ t \notin DOMAIN Pages[c]
           /\ Pages' = [Pages EXCEPT ![c] =
                          [v \in DOMAIN Pages[c] \cup {t} |->
                             IF v = t THEN x ELSE Pages[c][v]]]
<1> DEFINE c == notes'[i].char
           t == notes'[i].title
           x == notes'[i].text
           p == PageOf(notes, c)
           page == [v \in DOMAIN p \cup {t} |-> IF v = t THEN x ELSE p[v]]
<1>1. /\ t \in Titles /\ x \in Texts /\ t \notin DOMAIN p
      /\ PageOf(notes', c) = page
      /\ \A d \in characters \ {c} : PageOf(notes', d) = PageOf(notes, d)
  BY GrownPage
<1>2. Pages[c] = p
  BY DEF Pages
<1> HIDE DEF p
<1>3. c \in characters
  OBVIOUS
<1> HIDE DEF c, t, x
<1>4. Pages' = [Pages EXCEPT ![c] = page]
  <2> HIDE DEF page
  <2>1. QED
    BY <1>1, <1>3, PageChanged
<1>5. QED
  BY <1>1, <1>2, <1>3, <1>4

(* A character that is created brings a page with the default tab.         *)
LEMMA NewPage ==
  ASSUME SharedInv, NEW c \in Characters, CreateCharacter(c)
  PROVE  /\ c \notin DOMAIN Pages
         /\ DOMAIN Pages' = DOMAIN Pages \cup {c}
         /\ Pages'[c] \in [{Default} -> Texts]
         /\ Restrict(Pages', DOMAIN Pages) = Pages
<1>1. /\ c \notin characters /\ characters' = characters \cup {c}
      /\ \E i \in Ids : /\ Grown(i)
                        /\ notes'[i].char = c
                        /\ notes'[i].title = Default
                        /\ notes'[i].text \in Texts
  BY CreateCharacterGrown
<1>2. PICK i \in Ids : /\ Grown(i)
                       /\ notes'[i].char = c
                       /\ notes'[i].title = Default
                       /\ notes'[i].text \in Texts
  BY <1>1
<1> DEFINE p == PageOf(notes, c)
           q == PageOf(notes', c)
<1>3. /\ q = [v \in DOMAIN p \cup {Default} |->
                IF v = Default THEN notes'[i].text ELSE p[v]]
      /\ \A d : d # c => PageOf(notes', d) = PageOf(notes, d)
  BY <1>2, GrownPage
<1>4. DOMAIN p = {}
  <2>1. RowsOf(notes, c) = {}
    BY <1>1 DEF SharedInv, RowsOf
  <2>2. DOMAIN p = {notes[j].title : j \in RowsOf(notes, c)}
    <3>1. UniqueTitles(notes)
      BY DEF SharedInv
    <3>2. QED
      BY ONLY <3>1, PageRows, ZenonT(60)
  <2>3. QED
    BY <2>1, <2>2
<1> HIDE DEF p, q
<1>5. q \in [{Default} -> Texts]
  BY <1>2, <1>3, <1>4
<1>6. Pages' = [d \in characters \cup {c} |-> PageOf(notes', d)]
  BY <1>1 DEF Pages
<1>7. DOMAIN Pages = characters /\ Pages'[c] = q
  BY <1>6 DEF Pages, q
<1>8. Restrict(Pages', characters) = Pages
  BY <1>1, <1>3, <1>6 DEF Restrict, Pages
<1>9. QED
  BY <1>1, <1>5, <1>6, <1>7, <1>8

LEMMA EffectBook ==
  ASSUME SharedInv, Effect, characters' = characters
  PROVE  [Book!BookNext]_Pages
<1>1. DOMAIN Pages = characters
  BY DEF Pages
<1>2. CASE SameTexts
  BY <1>2, SameBook
<1>3. ASSUME NEW i \in DOMAIN notes, Edited(i) PROVE Book!BookNext
  <2>1. PICK c \in characters : \E t \in DOMAIN Pages[c], u \in Titles, x \in Texts :
           Book!Edit(c, t, u, x)
    BY <1>3, EditedBook DEF Book!Edit, Pages
  <2>2. QED
    BY <1>1, <2>1 DEF Book!BookNext, Pages
<1>4. ASSUME NEW i \in DOMAIN notes, Removed(i) PROVE Book!BookNext
  <2>1. PICK c \in characters : \E t \in DOMAIN Pages[c] : Book!Drop(c, t)
    BY <1>4, RemovedBook DEF Book!Drop, Book!Restrict, Restrict, Pages
  <2>2. QED
    BY <1>1, <2>1 DEF Book!BookNext, Pages
<1>5. ASSUME NEW i \in Ids, Grown(i), notes'[i].char \in characters
      PROVE  Book!BookNext
  <2>1. PICK c \in characters : \E t \in Titles, x \in Texts : Book!Add(c, t, x)
    BY <1>5, GrownBook DEF Book!Add, Pages
  <2>2. QED
    BY <1>1, <2>1 DEF Book!BookNext, Pages
<1>6. QED
  BY <1>2, <1>3, <1>4, <1>5 DEF Effect

LEMMA StepBook ==
  ASSUME SharedInv, [Next]_vars
  PROVE  [Book!BookNext]_Pages
<1>1. CASE UNCHANGED <<characters, notes>>
  BY <1>1 DEF Pages
<1>2. ASSUME NEW c \in Characters, CreateCharacter(c) PROVE Book!BookNext
  BY <1>2, NewPage DEF Book!BookNext, Book!AddCharacter, Book!Restrict, Restrict, Pages
<1>3. ASSUME NEW s \in Sessions, Write(s) PROVE [Book!BookNext]_Pages
  BY <1>3, WriteEffect, EffectBook DEF Close
<1>4. ASSUME NEW s \in Sessions,
             \/ ReadCharacter(s) \/ ReadNote(s) \/ ReadNotes(s)
             \/ ReadNextNote(s) \/ CountNotes(s)
      PROVE  UNCHANGED <<characters, notes>>
  BY <1>4 DEF ReadCharacter, ReadNote, ReadNotes, ReadNextNote, CountNotes,
              Choose, Step, db
<1>5. QED
  BY <1>1, <1>2, <1>3, <1>4 DEF Next, Write, vars

(***************************************************************************)
(* However many sessions write a character, its titles stay unique and its *)
(* notes its own: the UNIQUE constraint and the ids chosen are enough.     *)
(***************************************************************************)
THEOREM SharedCharacters == Spec => []SharedInv
<1>1. QED
  BY SharedInit, SharedStep, PTL DEF Spec

(* Every variable of Notes keeps its type, whoever writes the characters.  *)
THEOREM TypeCorrect == Spec => []TypeOK
<1>1. SharedInv => TypeOK
  BY DEF SharedInv
<1>2. QED
  BY <1>1, SharedCharacters, PTL

(***************************************************************************)
(* Notes implements NoteBook: whatever the requests have read and whoever  *)
(* they share the characters with, each commit adds, drops or edits one    *)
(* text, or none.                                                          *)
(***************************************************************************)
THEOREM NotesImplementBook == Spec => ImplementsBook
<1>1. Init => Book!BookInit
  BY DEF Init, Book!BookInit, Pages
<1>2. SharedInv /\ [Next]_vars => [Book!BookNext]_Pages
  BY StepBook
<1>3. QED
  BY <1>1, <1>2, SharedCharacters, PTL
     DEF Spec, ImplementsBook, Book!BookSpec, Pages

-----------------------------------------------------------------------------
(* The sheet's text.                                                       *)

(* The tab that is patched is the first one before and after.              *)
LEMMA FirstTabShown ==
  ASSUME SharedInv, NEW s \in Sessions, PatchFirstTab(s), notes' # notes,
         NEW c \in view[s].char, AsLoaded(s, c)
  PROVE  Shown(c)' # Shown(c)
<1> DEFINE tabs == view[s].tabs
           k == FirstTab(tabs)
           old == Restrict(notes, OfCharacter(c))
           own == Restrict(notes, OfCharacter(c))'
<1>1. PICK x \in Texts : Save(tabs, [tabs EXCEPT ![k].text = x])
  BY DEF PatchFirstTab
<1>2. /\ DOMAIN tabs # {} /\ DOMAIN tabs = OfCharacter(c)
      /\ \A i \in DOMAIN tabs : tabs[i].order = notes[i].order
      /\ tabs \in NoteTable /\ notes \in NoteTable
      /\ OfCharacter(c) \subseteq DOMAIN notes
  BY DEF PatchFirstTab, AsLoaded, SharedInv, TypeOK, OfCharacter
<1> DEFINE new == [tabs EXCEPT ![k].text = x]
<1> HIDE DEF tabs
<1>3. k \in DOMAIN tabs /\ \A j \in DOMAIN tabs \ {k} : Precedes(tabs, k, j)
  BY <1>2, FirstTabExists
<1> HIDE DEF k
<1>4. Save(tabs, new)
  BY <1>1
<1>5. \A i \in DOMAIN tabs : tabs[i] \in Note
  BY <1>2, TableDomain
<1>6. /\ DOMAIN new = DOMAIN tabs
      /\ \A i \in DOMAIN tabs \ {k} : new[i] = tabs[i]
      /\ new[k] = [tabs[k] EXCEPT !.text = x]
  BY <1>3
<1> HIDE DEF new
<1>7. \A i \in DOMAIN new : /\ new[i] \in Note
                            /\ new[i].char = tabs[i].char
                            /\ new[i].title = tabs[i].title
                            /\ new[i].order = tabs[i].order
                            /\ i # k => new[i] = tabs[i]
  BY <1>5, <1>6 DEF Note
<1>8. /\ notes' \in NoteTable
      /\ DOMAIN notes' = DOMAIN notes
      /\ \A i \in DOMAIN notes : /\ notes'[i].char = notes[i].char
                                 /\ i # k => notes'[i] = notes[i]
      /\ notes'[k].title = notes[k].title
      /\ notes'[k].order = notes[k].order
  BY <1>2, <1>3, <1>4, <1>6, <1>7, SavedFields DEF SharedInv
<1>9. notes'[k] # notes[k]
  <2>1. /\ notes = [i \in DOMAIN notes |-> notes[i]]
        /\ notes' = [i \in DOMAIN notes' |-> notes'[i]]
    BY <1>2, <1>8, TableDomain
  <2>2. QED
    BY <1>8, <2>1
<1>10. notes[k] \in Note /\ notes'[k] \in Note
  BY <1>2, <1>3, <1>8, TableDomain
<1>11. notes'[k].text # notes[k].text
  <2>1. k \in DOMAIN notes
    BY <1>2, <1>3
  <2>2. QED
    BY <1>8, <1>9, <1>10, <2>1 DEF Note
<1>12. OfCharacter(c)' = OfCharacter(c)
  BY <1>8 DEF OfCharacter
<1>13. /\ old \in NoteTable /\ DOMAIN old = DOMAIN tabs
       /\ \A i \in DOMAIN tabs : old[i] = notes[i]
  BY <1>2, RestrictTable
<1>14. /\ own \in NoteTable /\ DOMAIN own = DOMAIN tabs
       /\ \A i \in DOMAIN tabs : own[i] = notes'[i]
  BY <1>2, <1>8, <1>12, RestrictTable
<1>15. Shown(c) = {notes[FirstTab(old)].text}
  BY <1>2 DEF Shown
<1>16. Shown(c)' = {notes'[FirstTab(own)].text}
  BY <1>2, <1>12 DEF Shown
<1> HIDE DEF old, own
<1>17. \A i \in DOMAIN tabs : old[i].order = tabs[i].order /\ own[i].order = tabs[i].order
  BY <1>2, <1>8, <1>13, <1>14
<1>18. FirstTab(old) = k
  <2>1. \A j \in DOMAIN old \ {k} : Precedes(old, k, j)
    BY <1>3, <1>13, <1>17 DEF Precedes
  <2>2. QED
    BY <1>3, <1>13, <2>1, FirstTabUnique
<1>19. FirstTab(own) = k
  <2>1. \A j \in DOMAIN own \ {k} : Precedes(own, k, j)
    BY <1>3, <1>14, <1>17 DEF Precedes
  <2>2. QED
    BY <1>3, <1>14, <2>1, FirstTabUnique
<1>20. QED
  BY <1>11, <1>15, <1>16, <1>18, <1>19

(* A character without tabs shows the one that is inserted.                *)
LEMMA DefaultTabShown ==
  ASSUME SharedInv, NEW s \in Sessions, PatchDefaultTab(s),
         NEW c \in view[s].char, AsLoaded(s, c)
  PROVE  Shown(c)' # Shown(c)
<1>1. PICK d \in view[s].char, x \in Texts :
        notes' = Inserted([char |-> d, title |-> Default, text |-> x, order |-> 0])
  BY DEF PatchDefaultTab
<1>2. d = c /\ c \in Characters
  BY DEF SharedInv, TypeOK
<1>3. 0 \in Orders /\ Default \in Titles
  BY BoundAssumption, NamesAssumption DEF Orders
<1>4. TypeOK /\ FreshId <= MaxNotes
  BY DEF SharedInv, PatchDefaultTab
<1>5. OfCharacter(c)' # {}
  BY <1>1, <1>2, <1>3, <1>4, InsertedRow
<1>6. OfCharacter(c) = {}
  BY DEF PatchDefaultTab, AsLoaded
<1>7. Shown(c) = {}
  BY <1>6 DEF Shown
<1>8. Shown(c)' # {}
  BY <1>5 DEF Shown
<1>9. QED
  BY <1>7, <1>8

(* The session whose step changed its stage is the one that wrote.         *)
LEMMA WriterOf ==
  ASSUME SharedInv, NEW r \in Sessions, Close(r), NEW s \in Sessions, pc'[s] # pc[s]
  PROVE  r = s
  BY DEF SharedInv, TypeOK, Close

(***************************************************************************)
(* A PATCH of the sheet's notes that writes anything changes the text the  *)
(* sheet shows, for any number of sessions on the same character, if the   *)
(* tabs and their order are those it has loaded.                           *)
(***************************************************************************)
THEOREM PatchVisible == Spec => NotesPatchVisible
<1> DEFINE Seen == \A s \in Sessions :
                     pc[s] = "character" /\ pc'[s] = "idle" /\ notes' # notes =>
                       \A c \in view[s].char : AsLoaded(s, c) => Shown(c)' # Shown(c)
<1>1. SharedInv /\ [Next]_vars => [Seen]_vars
  <2> SUFFICES ASSUME SharedInv, [Next]_vars, NEW s \in Sessions, pc[s] = "character",
                      pc'[s] = "idle", notes' # notes, NEW c \in view[s].char,
                      AsLoaded(s, c)
               PROVE  Shown(c)' # Shown(c)
    OBVIOUS
  <2>1. PICK r \in Sessions : Write(r)
    BY StepKinds
  <2>2. r = s
    BY <2>1, WriteEffect, WriterOf
  <2>3. PatchFirstTab(s) \/ PatchDefaultTab(s)
    BY <2>1, <2>2 DEF Write, CreateNote, PatchNote, DeleteNote, ReorderNotes, Fail
  <2>4. QED
    BY <2>3, FirstTabShown, DefaultTabShown
<1>2. QED
  BY <1>1, SharedCharacters, PTL DEF Spec, NotesPatchVisible
=============================================================================
