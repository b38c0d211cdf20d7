----------------------------- MODULE DeckProofs -----------------------------
(***************************************************************************)
(* Proofs about Deck for any number of sessions, cards, copies and         *)
(* revisions.                                                              *)
(***************************************************************************)
EXTENDS Deck, FiniteSetTheorems, TLAPS

(* A copy table is a function from some of the ids to copies.              *)
LEMMA CopyTableDomain ==
  ASSUME NEW t
  PROVE  t \in CopyTable <=> DOMAIN t \subseteq Ids /\ t \in [DOMAIN t -> Copy]
  BY DEF CopyTable

(* Restricting a copy table gives a copy table.                            *)
LEMMA RestrictTable ==
  ASSUME NEW t \in CopyTable, NEW S, S \subseteq DOMAIN t
  PROVE  /\ Restrict(t, S) \in CopyTable
         /\ DOMAIN Restrict(t, S) = S
         /\ \A i \in S : Restrict(t, S)[i] = t[i]
<1>1. DOMAIN t \subseteq Ids /\ t \in [DOMAIN t -> Copy]
  BY CopyTableDomain
<1>2. Restrict(t, S) \in [S -> Copy]
  BY <1>1 DEF Restrict
<1>3. S \in SUBSET Ids
  BY <1>1
<1>4. QED
  BY <1>2, <1>3 DEF Restrict, CopyTable

LEMMA WithoutTable ==
  ASSUME NEW t \in CopyTable, NEW S
  PROVE  /\ Without(t, S) \in CopyTable
         /\ DOMAIN Without(t, S) = DOMAIN t \ S
         /\ \A i \in DOMAIN t \ S : Without(t, S)[i] = t[i]
  BY RestrictTable DEF Without

-----------------------------------------------------------------------------
(* What the parts of a write transaction return.                           *)

Contents == [defs : SUBSET Cards, copies : CopyTable]

LEMMA WriteTable ==
  ASSUME NEW s, NEW t \in CopyTable, NEW i \in DOMAIN t,
         NEW zone \in Zones, NEW keyed,
         keyed \in BOOLEAN \/ keyed = Seen(s, i).keyed
  PROVE  /\ Write(s, t, i, zone, keyed) \in CopyTable
         /\ DOMAIN Write(s, t, i, zone, keyed) = DOMAIN t
<1> DEFINE z == Merge(zone, Seen(s, i).zone, t[i].zone)
           k == Merge(keyed, Seen(s, i).keyed, t[i].keyed)
           w == Write(s, t, i, zone, keyed)
<1>1. DOMAIN t \subseteq Ids /\ t \in [DOMAIN t -> Copy]
  BY CopyTableDomain
<1>2. t[i] \in Copy
  BY <1>1
<1>3. z \in Zones /\ k \in BOOLEAN
  BY <1>2 DEF Merge, Copy
<1>4. [t[i] EXCEPT !.zone = z, !.keyed = k] \in Copy
  BY <1>2, <1>3 DEF Copy
<1>5. w = [t EXCEPT ![i] = [t[i] EXCEPT !.zone = z, !.keyed = k]]
  BY <1>1, <1>2 DEF Write, Copy
<1>6. w \in [DOMAIN t -> Copy]
  BY <1>1, <1>4, <1>5
<1>7. QED
  BY <1>1, <1>6, CopyTableDomain

LEMMA DeletedContents ==
  ASSUME NEW s, NEW c \in Contents, NEW i
  PROVE  /\ Deleted(s, c, i) \in Contents
         /\ DOMAIN Deleted(s, c, i).copies \subseteq DOMAIN c.copies
         /\ \A j \in DOMAIN Deleted(s, c, i).copies :
              Deleted(s, c, i).copies[j] = c.copies[j]
<1>1. c.copies \in CopyTable /\ c.defs \in SUBSET Cards
  BY DEF Contents
<1>2. \A S : [defs |-> c.defs, copies |-> Without(c.copies, S)] \in Contents
  BY <1>1, WithoutTable DEF Contents
<1>3. \A S, d : [defs |-> c.defs \ {d}, copies |-> Without(c.copies, S)] \in Contents
  BY <1>1, WithoutTable DEF Contents
<1>4. c = [defs |-> c.defs, copies |-> c.copies]
  BY DEF Contents
<1>5. \E S : \/ Deleted(s, c, i) = [defs |-> c.defs, copies |-> Without(c.copies, S)]
             \/ \E d : Deleted(s, c, i) = [defs |-> c.defs \ {d},
                                           copies |-> Without(c.copies, S)]
  BY <1>4 DEF Deleted
<1>6. ASSUME NEW S, NEW D,
             Deleted(s, c, i) = [defs |-> D, copies |-> Without(c.copies, S)]
      PROVE  /\ DOMAIN Deleted(s, c, i).copies \subseteq DOMAIN c.copies
             /\ \A j \in DOMAIN Deleted(s, c, i).copies :
                  Deleted(s, c, i).copies[j] = c.copies[j]
  <2> DEFINE d == Deleted(s, c, i).copies
             w == Without(c.copies, S)
  <2>1. d = w
    BY <1>6
  <2>2. /\ DOMAIN w = DOMAIN c.copies \ S
        /\ \A j \in DOMAIN c.copies \ S : w[j] = c.copies[j]
    BY <1>1, WithoutTable
  <2> HIDE DEF d, w
  <2>3. /\ DOMAIN d \subseteq DOMAIN c.copies
        /\ \A j \in DOMAIN d : d[j] = c.copies[j]
    BY <2>1, <2>2
  <2>4. QED
    BY <2>3 DEF d
<1>7. Deleted(s, c, i) \in Contents
  BY <1>2, <1>3, <1>5
<1>8. QED
  BY <1>5, <1>6, <1>7

LEMMA FinalizedContents ==
  ASSUME TypeOK, NEW s \in Sessions
  PROVE  /\ Finalized(s) \in Contents
         /\ DOMAIN Finalized(s).copies \subseteq DOMAIN copies
         /\ \A j \in DOMAIN Finalized(s).copies :
              Finalized(s).copies[j] = copies[j]
<1>1. Content \in Contents /\ Content.copies = copies
  BY DEF TypeOK, Content, Contents
<1>2. QED
  BY <1>1, DeletedContents DEF Finalized

(* The table w holds the copies of t and new ones, in the deck, of rows.    *)
Extends(w, t, rows) ==
  /\ w \in CopyTable
  /\ DOMAIN t \subseteq DOMAIN w
  /\ \A i \in DOMAIN t : w[i] = t[i]
  /\ \A i \in DOMAIN w \ DOMAIN t : /\ w[i].zone = "deck"
                                   /\ w[i].keyed = TRUE
                                   /\ w[i].card \in CardsOf(rows)
  /\ \A card \in CardsOf(rows) : \E i \in DOMAIN w : w[i].card = card

LEMMA InsertedTable ==
  ASSUME NEW t \in CopyTable, NEW h \in 0 .. MaxCopies, Highest(h, t),
         NEW n \in 0 .. MaxCopies, h + n <= MaxCopies,
         NEW rows \in [1 .. n -> Cards \X BOOLEAN]
  PROVE  Extends(Inserted(t, h, rows), t, rows)
<1> DEFINE ins == Inserted(t, h, rows)
           New(k) == [card |-> rows[k][1], golden |-> rows[k][2],
                      zone |-> "deck", keyed |-> TRUE]
<1>1. DOMAIN t \subseteq Ids /\ t \in [DOMAIN t -> Copy]
  BY CopyTableDomain
<1>2. DOMAIN ins = DOMAIN t \cup {h + k : k \in 1 .. n}
  BY DEF Inserted
<1>3. \A i \in DOMAIN t : ins[i] = t[i]
  BY DEF Inserted
<1>4. \A k \in 1 .. n : h + k \in Ids /\ h + k \notin DOMAIN t
  BY <1>1, BoundAssumption DEF Highest, Ids
<1>5. \A k \in 1 .. n : ins[h + k] = New(k)
  <2> TAKE k \in 1 .. n
  <2>1. (h + k) - h = k
    BY BoundAssumption
  <2>2. QED
    BY <1>4, <2>1 DEF Inserted
<1>6. \A k \in 1 .. n : New(k) \in Copy
  <2> TAKE k \in 1 .. n
  <2>1. rows[k][1] \in Cards /\ rows[k][2] \in BOOLEAN
    OBVIOUS
  <2>2. QED
    BY <2>1 DEF Copy, Zones
<1>7. ins \in [DOMAIN ins -> Copy]
  <2>1. ins = [i \in DOMAIN ins |-> ins[i]]
    BY DEF Inserted
  <2>2. \A i \in DOMAIN ins : ins[i] \in Copy
    <3> TAKE i \in DOMAIN ins
    <3>1. CASE i \in DOMAIN t
      BY <1>1, <1>3, <3>1
    <3>2. CASE \E k \in 1 .. n : i = h + k
      <4>1. PICK k \in 1 .. n : i = h + k
        BY <3>2
      <4>2. QED
        BY <1>5, <1>6, <4>1
    <3>3. QED
      BY <1>2, <3>1, <3>2
  <2>3. QED
    BY <2>1, <2>2
<1>8. DOMAIN ins \subseteq Ids
  BY <1>1, <1>2, <1>4
<1>9. ins \in CopyTable
  BY <1>7, <1>8, CopyTableDomain
<1>10. \A k \in 1 .. n : /\ ins[h + k].card = rows[k][1]
                         /\ ins[h + k].zone = "deck"
                         /\ ins[h + k].keyed = TRUE
  <2> TAKE k \in 1 .. n
  <2>1. ins[h + k] = New(k)
    BY <1>5
  <2>2. QED
    BY <2>1
<1> HIDE DEF ins
<1>11. \A k \in 1 .. n : rows[k][1] \in CardsOf(rows)
  BY DEF CardsOf
<1>12. ASSUME NEW i \in DOMAIN ins \ DOMAIN t
       PROVE  /\ ins[i].zone = "deck"
              /\ ins[i].keyed = TRUE
              /\ ins[i].card \in CardsOf(rows)
  <2>1. PICK k \in 1 .. n : i = h + k
    BY <1>2
  <2>2. QED
    BY <1>10, <1>11, <2>1
<1>13. ASSUME NEW card \in CardsOf(rows)
       PROVE  \E i \in DOMAIN ins : ins[i].card = card
  <2>1. PICK k \in 1 .. n : card = rows[k][1]
    BY DEF CardsOf
  <2>2. h + k \in DOMAIN ins
    BY <1>2
  <2>3. ins[h + k].card = card
    BY <1>10, <2>1
  <2>4. QED
    BY <2>2, <2>3
<1>14. DOMAIN t \subseteq DOMAIN ins
  BY <1>2
<1>15. Extends(ins, t, rows)
  BY <1>3, <1>9, <1>12, <1>13, <1>14 DEF Extends
<1>16. QED
  BY <1>15 DEF ins

-----------------------------------------------------------------------------
(* Type correctness.                                                       *)

LEMMA EmptyTypes ==
  /\ NoCopies \in CopyTable
  /\ DOMAIN NoCopies = {}
  /\ Unconfigured \in Row
  /\ NewDeck \in Row
  /\ EmptyView \in View
  /\ NoTarget \in Target
<1>1. DOMAIN NoCopies = {}
  BY DEF NoCopies
<1>2. NoCopies \in [{} -> Copy]
  BY DEF NoCopies
<1>3. NoCopies \in CopyTable
  BY <1>2 DEF CopyTable
<1>4. Unconfigured \in Row /\ NewDeck \in Row
  BY DEF Unconfigured, NewDeck, Row
<1>5. QED
  BY <1>1, <1>3, <1>4 DEF EmptyView, View, NoTarget, Target

LEMMA CloseType ==
  ASSUME TypeOK, NEW s \in Sessions, Close(s),
         deck' \in Row, defs' \in SUBSET Cards, copies' \in CopyTable
  PROVE  TypeOK'
<1>1. view' \in [Sessions -> View] /\ target' \in [Sessions -> Target]
  BY EmptyTypes DEF TypeOK, Close
<1>2. pc' \in [Sessions -> {"idle", "row", "defs", "ready", "selected"}]
  BY DEF TypeOK, Close
<1>3. QED
  BY <1>1, <1>2 DEF TypeOK

LEMMA CommitType ==
  ASSUME TypeOK, NEW s \in Sessions, NEW undo \in Ids \cup {None},
         NEW c \in Contents, Commit(s, undo, c)
  PROVE  TypeOK'
<1>1. view[s].deck.revision + 1 \in Nat
  BY DEF TypeOK, View, Row
<1>2. deck' \in Row
  BY <1>1 DEF TypeOK, Commit, Row
<1>3. defs' \in SUBSET Cards /\ copies' \in CopyTable
  BY DEF Commit, Contents
<1>4. QED
  BY <1>2, <1>3, CloseType DEF Commit

LEMMA FinalizedUndoType ==
  ASSUME TypeOK, NEW s \in Sessions
  PROVE  FinalizedUndo(s) \in Ids \cup {None}
  BY DEF TypeOK, Row, FinalizedUndo

LEMMA SelectType ==
  ASSUME TypeOK, NEW s \in Sessions, NEW i \in Ids,
         NEW op \in {"discard", "play", "remove", "undo", "clear"},
         Select(s, op, i)
  PROVE  TypeOK'
<1> DEFINE row == Restrict(copies, ({i} \cap DOMAIN copies) \ DOMAIN Known(s))
           t == [op |-> op, id |-> i, row |-> row]
<1>1. copies \in CopyTable
  BY DEF TypeOK
<1>2. row \in CopyTable
  BY <1>1, RestrictTable
<1> HIDE DEF row
<1>3. t \in Target
  BY <1>2 DEF Target
<1>4. target' = [target EXCEPT ![s] = t]
  BY DEF Select, row
<1>5. target' \in [Sessions -> Target]
  BY <1>3, <1>4 DEF TypeOK
<1>6. pc' \in [Sessions -> {"idle", "row", "defs", "ready", "selected"}]
  BY DEF TypeOK, Select
<1>7. UNCHANGED <<deck, defs, copies, view>>
  BY DEF Select, db
<1>8. QED
  BY <1>5, <1>6, <1>7 DEF TypeOK

LEMMA LoadType ==
  ASSUME TypeOK, NEW s \in Sessions, Load(s)
  PROVE  TypeOK'
<1>1. CASE LoadRow(s)
  BY <1>1 DEF LoadRow, TypeOK, View, db
<1>2. CASE LoadDefinitions(s)
  BY <1>2 DEF LoadDefinitions, TypeOK, View, db
<1>3. CASE LoadCopies(s)
  <2> DEFINE t == Restrict(copies, {i \in DOMAIN copies :
                                      copies[i].card \in view[s].defs})
  <2>1. t \in CopyTable
    BY RestrictTable DEF TypeOK
  <2>2. view' = [view EXCEPT ![s].copies = t]
    BY <1>3 DEF LoadCopies
  <2> HIDE DEF t
  <2>3. view' \in [Sessions -> View]
    BY <2>1, <2>2 DEF TypeOK, View
  <2>4. QED
    BY <1>3, <2>3 DEF LoadCopies, TypeOK, db
<1>4. QED
  BY <1>1, <1>2, <1>3 DEF Load

LEMMA LookupType ==
  ASSUME TypeOK, NEW s \in Sessions, Lookup(s)
  PROVE  TypeOK'
<1>1. \A zones : Joined(Content, zones) \subseteq Ids
  BY CopyTableDomain DEF TypeOK, Joined, Content
<1>2. CASE SelectDrawn(s)
  BY <1>1, <1>2, SelectType DEF SelectDrawn
<1>3. CASE SelectRemoved(s)
  BY <1>1, <1>3, SelectType DEF SelectRemoved
<1>4. CASE SelectUndo(s)
  <2>1. view[s].deck.undo \in Ids
    BY <1>4 DEF SelectUndo, TypeOK, View, Row
  <2>2. \E op \in {"undo", "clear"} : Select(s, op, view[s].deck.undo)
    BY <1>4 DEF SelectUndo
  <2>3. QED
    BY <2>1, <2>2, SelectType
<1>5. QED
  BY <1>2, <1>3, <1>4 DEF Lookup

(* A transaction that edits the copies of well-typed contents yields       *)
(* well-typed contents.                                                    *)
LEMMA ContentsUpdate ==
  ASSUME NEW c \in Contents, NEW t \in CopyTable
  PROVE  /\ [c EXCEPT !.copies = t] \in Contents
         /\ [c EXCEPT !.copies = t].copies = t
         /\ [c EXCEPT !.copies = t].defs = c.defs
  BY DEF Contents

LEMMA MapTable ==
  ASSUME NEW t \in CopyTable, NEW f, DOMAIN f = DOMAIN t,
         f = [i \in DOMAIN f |-> f[i]], \A i \in DOMAIN t : f[i] \in Copy
  PROVE  f \in CopyTable
<1>1. f \in [DOMAIN t -> Copy] /\ DOMAIN t \subseteq Ids
  BY CopyTableDomain
<1>2. QED
  BY <1>1, CopyTableDomain

LEMMA ReshuffledContents ==
  ASSUME NEW c \in Contents
  PROVE  /\ Reshuffled(c) \in Contents
         /\ Reshuffled(c).defs = c.defs
         /\ DOMAIN Reshuffled(c).copies = DOMAIN c.copies
         /\ \A i \in DOMAIN c.copies :
              /\ Reshuffled(c).copies[i].card = c.copies[i].card
              /\ Reshuffled(c).copies[i].golden = c.copies[i].golden
              /\ Reshuffled(c).copies[i].zone = c.copies[i].zone
              /\ Reshuffled(c).copies[i].keyed =
                   IF i \in Joined(c, {"deck"}) THEN TRUE ELSE c.copies[i].keyed
<1> DEFINE t == [i \in DOMAIN c.copies |->
                   IF i \in Joined(c, {"deck"})
                   THEN [c.copies[i] EXCEPT !.keyed = TRUE] ELSE c.copies[i]]
<1>1. c.copies \in CopyTable /\ c.copies \in [DOMAIN c.copies -> Copy]
  BY CopyTableDomain DEF Contents
<1>2. \A i \in DOMAIN c.copies : t[i] \in Copy
  BY <1>1 DEF Copy
<1>3. t \in CopyTable
  BY <1>1, <1>2, MapTable
<1>4. Reshuffled(c) = [c EXCEPT !.copies = t]
  BY DEF Reshuffled
<1> HIDE DEF t
<1>5. Reshuffled(c) \in Contents /\ Reshuffled(c).copies = t
      /\ Reshuffled(c).defs = c.defs
  BY <1>3, <1>4, ContentsUpdate
<1>6. /\ DOMAIN t = DOMAIN c.copies
      /\ \A i \in DOMAIN c.copies :
           /\ t[i].card = c.copies[i].card
           /\ t[i].golden = c.copies[i].golden
           /\ t[i].zone = c.copies[i].zone
           /\ t[i].keyed =
                IF i \in Joined(c, {"deck"}) THEN TRUE ELSE c.copies[i].keyed
  BY <1>1 DEF t, Copy
<1>7. QED
  BY <1>5, <1>6

LEMMA RestockedContents ==
  ASSUME NEW s, NEW c \in Contents
  PROVE  /\ Restocked(s, c) \in Contents
         /\ Restocked(s, c).defs = c.defs
         /\ DOMAIN Restocked(s, c).copies = DOMAIN c.copies
         /\ \A i \in DOMAIN c.copies :
              /\ Restocked(s, c).copies[i].card = c.copies[i].card
              /\ Restocked(s, c).copies[i].golden = c.copies[i].golden
              /\ Restocked(s, c).copies[i].zone = 
                   IF i \in Joined(c, {"deck", "drawn"})
                   THEN Merge("deck", Seen(s, i).zone, c.copies[i].zone)
                   ELSE c.copies[i].zone
              /\ Restocked(s, c).copies[i].keyed =
                   IF i \in Joined(c, {"deck", "drawn"}) THEN TRUE ELSE c.copies[i].keyed
<1> DEFINE t == [i \in DOMAIN c.copies |->
                   IF i \in Joined(c, {"deck", "drawn"})
                   THEN [c.copies[i] EXCEPT
                           !.zone = Merge("deck", Seen(s, i).zone,
                                          c.copies[i].zone),
                           !.keyed = TRUE]
                   ELSE c.copies[i]]
<1>1. c.copies \in CopyTable /\ c.copies \in [DOMAIN c.copies -> Copy]
  BY CopyTableDomain DEF Contents
<1>2. \A i \in DOMAIN c.copies : t[i] \in Copy
  BY <1>1 DEF Copy, Zones, Merge
<1>3. t \in CopyTable
  BY <1>1, <1>2, MapTable
<1>4. Restocked(s, c) = [c EXCEPT !.copies = t]
  BY DEF Restocked
<1> HIDE DEF t
<1>5. Restocked(s, c) \in Contents /\ Restocked(s, c).copies = t
      /\ Restocked(s, c).defs = c.defs
  BY <1>3, <1>4, ContentsUpdate
<1>6. /\ DOMAIN t = DOMAIN c.copies
      /\ \A i \in DOMAIN c.copies :
           /\ t[i].card = c.copies[i].card
           /\ t[i].golden = c.copies[i].golden
           /\ t[i].zone = IF i \in Joined(c, {"deck", "drawn"})
                          THEN Merge("deck", Seen(s, i).zone, c.copies[i].zone)
                          ELSE c.copies[i].zone
           /\ t[i].keyed = IF i \in Joined(c, {"deck", "drawn"})
                           THEN TRUE ELSE c.copies[i].keyed
  BY <1>1 DEF t, Copy
<1>7. QED
  BY <1>5, <1>6

LEMMA MutateType ==
  ASSUME TypeOK, NEW s \in Sessions, Mutate(s)
  PROVE  TypeOK'
<1> DEFINE c == Finalized(s)
           i == target[s].id
<1>1. c \in Contents /\ c.copies \in CopyTable /\ c.defs \in SUBSET Cards
  BY FinalizedContents DEF Contents
<1>2. FinalizedUndo(s) \in Ids \cup {None}
  BY FinalizedUndoType
<1>3. Content \in Contents /\ Content.copies \in CopyTable
  BY DEF TypeOK, Content, Contents
<1>4. i \in Ids \cup {None}
  BY DEF TypeOK, Target
<1>z. "deck" \in Zones /\ "drawn" \in Zones /\ "destroyed" \in Zones
  BY DEF Zones
<1> HIDE DEF c, i
<1>5. CASE SavePack(s)
  <2>1. PICK pack \in [1 .. PackSize -> Cards \X {FALSE}], h \in 0 .. MaxCopies :
          /\ Highest(h, c.copies)
          /\ h + PackSize <= MaxCopies
          /\ Commit(s, FinalizedUndo(s),
                    [defs |-> c.defs \cup CardsOf(pack),
                     copies |-> Inserted(c.copies, h, pack)])
    BY <1>5 DEF SavePack, c
  <2>2. pack \in [1 .. PackSize -> Cards \X BOOLEAN]
    OBVIOUS
  <2>3. PackSize \in 0 .. MaxCopies
    BY <2>1, BoundAssumption
  <2>4. Inserted(c.copies, h, pack) \in CopyTable
    BY <1>1, <2>1, <2>2, <2>3, InsertedTable DEF Extends
  <2>5. CardsOf(pack) \subseteq Cards
    BY <2>2 DEF CardsOf
  <2>6. QED
    BY <1>1, <1>2, <2>1, <2>4, <2>5, CommitType DEF Contents
<1>6. CASE ReplaceComposition(s)
  <2> DEFINE rest == Without(c.copies, Joined(c, Zones))
  <2>1. PICK n \in 0 .. MaxCopies, h \in 0 .. MaxCopies :
          /\ Highest(h, rest)
          /\ h + n <= MaxCopies
          /\ \E rows \in [1 .. n -> Cards \X BOOLEAN] :
               Commit(s, FinalizedUndo(s),
                 [defs |-> CardsOf(rows), copies |-> Inserted(rest, h, rows)])
    BY <1>6 DEF ReplaceComposition, c
  <2>2. PICK rows \in [1 .. n -> Cards \X BOOLEAN] :
          Commit(s, FinalizedUndo(s),
            [defs |-> CardsOf(rows), copies |-> Inserted(rest, h, rows)])
    BY <2>1
  <2>3. rest \in CopyTable
    BY <1>1, WithoutTable
  <2> HIDE DEF rest
  <2>4. Inserted(rest, h, rows) \in CopyTable
    BY <2>1, <2>3, InsertedTable DEF Extends
  <2>5. CardsOf(rows) \subseteq Cards
    BY DEF CardsOf
  <2>6. QED
    BY <1>2, <2>2, <2>4, <2>5, CommitType DEF Contents
<1>7. CASE DrawCard(s)
  <2>1. PICK j \in DOMAIN c.copies :
          Commit(s, FinalizedUndo(s),
                 [c EXCEPT !.copies = Write(s, c.copies, j, "drawn", FALSE)])
    BY <1>7 DEF DrawCard, c
  <2>2. Write(s, c.copies, j, "drawn", FALSE) \in CopyTable
    BY <1>1, <1>z, WriteTable
  <2>3. QED
    BY <1>1, <1>2, <2>1, <2>2, ContentsUpdate, CommitType
<1>8. CASE DiscardDrawn(s)
  <2> DEFINE t == IF i \in DOMAIN c.copies
                  THEN Write(s, c.copies, i, "deck", Seen(s, i).keyed)
                  ELSE c.copies
  <2>1. Commit(s, FinalizedUndo(s), Reshuffled([c EXCEPT !.copies = t]))
    BY <1>8 DEF DiscardDrawn, c, i
  <2>2. t \in CopyTable
    BY <1>1, <1>z, WriteTable
  <2> HIDE DEF t
  <2>3. QED
    BY <1>1, <1>2, <2>1, <2>2, ContentsUpdate, ReshuffledContents, CommitType
<1>9. CASE PlayDrawn(s)
  <2> DEFINE t == IF i \in DOMAIN c.copies
                  THEN Write(s, c.copies, i, "destroyed", FALSE)
                  ELSE c.copies
  <2>1. Commit(s, i, [c EXCEPT !.copies = t])
    BY <1>9 DEF PlayDrawn, c, i
  <2>2. t \in CopyTable
    BY <1>1, <1>z, WriteTable
  <2> HIDE DEF t
  <2>3. QED
    BY <1>1, <1>4, <2>1, <2>2, ContentsUpdate, CommitType
<1>10. CASE UndoLastPlay(s)
  <2> DEFINE t == IF i \in DOMAIN Content.copies
                  THEN Write(s, Content.copies, i, "drawn", FALSE)
                  ELSE Content.copies
  <2>1. Commit(s, None, [Content EXCEPT !.copies = t])
    BY <1>10 DEF UndoLastPlay, i
  <2>2. t \in CopyTable
    BY <1>3, <1>z, WriteTable
  <2> HIDE DEF t
  <2>3. QED
    BY <1>3, <2>1, <2>2, ContentsUpdate, CommitType
<1>11. CASE RemoveCopy(s)
  <2>1. Commit(s, FinalizedUndo(s), Deleted(s, c, i))
    BY <1>11 DEF RemoveCopy, c, i
  <2>2. QED
    BY <1>1, <1>2, <2>1, DeletedContents, CommitType
<1>12. CASE ResetDeck(s)
  <2>1. Commit(s, FinalizedUndo(s), Restocked(s, c))
    BY <1>12 DEF ResetDeck, c
  <2>2. QED
    BY <1>1, <1>2, <2>1, RestockedContents, CommitType
<1>13. QED
  BY <1>5, <1>6, <1>7, <1>8, <1>9, <1>10, <1>11, <1>12 DEF Mutate

LEMMA OtherType ==
  ASSUME TypeOK, NEW s \in Sessions, ClearUndo(s) \/ SetStatus(s) \/ Fail(s)
  PROVE  TypeOK'
<1>1. CASE ClearUndo(s)
  BY <1>1, CloseType DEF ClearUndo, TypeOK, Row
<1>2. CASE SetStatus(s)
  <2>1. view[s].deck.revision + 1 \in Nat
    BY DEF TypeOK, View, Row
  <2> DEFINE e(enabled) == Merge(enabled, view[s].deck.enabled, deck.enabled)
             r == view[s].deck.revision + 1
  <2>2. deck' = NewDeck \/ \E enabled \in BOOLEAN :
          deck' = [deck EXCEPT !.enabled = e(enabled), !.revision = r]
    BY <1>2 DEF SetStatus
  <2>4. \A enabled \in BOOLEAN : e(enabled) \in BOOLEAN
    BY DEF Merge, TypeOK, Row
  <2> HIDE DEF e, r
  <2>5. r \in Nat
    BY <2>1 DEF r
  <2>6. ASSUME NEW enabled \in BOOLEAN,
               deck' = [deck EXCEPT !.enabled = e(enabled), !.revision = r]
        PROVE  deck' \in Row
    BY <2>4, <2>5, <2>6 DEF TypeOK, Row
  <2>7. deck' \in Row
    BY <2>2, <2>6, EmptyTypes
  <2>3. QED
    BY <1>2, <2>7, CloseType DEF SetStatus, TypeOK
<1>3. CASE Fail(s)
  BY <1>3, CloseType DEF Fail, db, TypeOK
<1>4. QED
  BY <1>1, <1>2, <1>3

(***************************************************************************)
(* Every variable keeps its type, administrators and reused ids included.  *)
(***************************************************************************)
THEOREM TypeCorrect == Spec => []TypeOK
<1>1. Init => TypeOK
  BY EmptyTypes DEF Init, TypeOK
<1>2. TypeOK /\ [Next]_vars => TypeOK'
  <2> SUFFICES ASSUME TypeOK, [Next]_vars PROVE TypeOK'
    OBVIOUS
  <2>1. CASE UNCHANGED vars
    BY <2>1 DEF vars, TypeOK
  <2>2. CASE Next
    BY <2>2, LoadType, LookupType, MutateType, OtherType DEF Next
  <2>3. QED
    BY <2>1, <2>2
<1>3. QED
  BY <1>1, <1>2, PTL DEF Spec

-----------------------------------------------------------------------------
(* Safety, while no change of the status goes over another commit.         *)

(***************************************************************************)
(* A deck that was never configured has nothing, and a deck that was       *)
(* loaded stays configured.                                                *)
(***************************************************************************)
Configured == /\ ~deck.configured => /\ ~deck.enabled
                                     /\ deck.revision = 0
                                     /\ deck.undo = None
              /\ \A s \in Sessions : view[s].deck.configured => deck.configured

IInv == /\ TypeOK
        /\ ViewCurrent
        /\ TargetCurrent
        /\ UndoIsDestroyedNormal
        /\ GoldenNeverDestroyed
        /\ KeyedIffInDeck
        /\ NoOrphans
        /\ Configured

(* Contents that satisfy the invariants of the copies and definitions.     *)
Sound(c) ==
  /\ c \in Contents
  /\ c.defs = {c.copies[i].card : i \in DOMAIN c.copies}
  /\ \A i \in DOMAIN c.copies :
       /\ c.copies[i].golden => c.copies[i].zone # "destroyed"
       /\ c.copies[i].keyed <=> c.copies[i].zone = "deck"

(* A part of the current contents.                                         *)
Part(c) == /\ DOMAIN c.copies \subseteq DOMAIN copies
           /\ \A i \in DOMAIN c.copies : c.copies[i] = copies[i]

LEMMA ContentSound ==
  ASSUME IInv
  PROVE  /\ Sound(Content)
         /\ Part(Content)
         /\ Content.copies = copies
         /\ Content.defs = defs
  BY DEF IInv, TypeOK, GoldenNeverDestroyed, KeyedIffInDeck, NoOrphans,
         Content, Contents, Sound, Part

(* A request whose claim can succeed sees the rows as they are.            *)
LEMMA CurrentView ==
  ASSUME IInv, NEW s \in Sessions, Current(s), pc[s] \in {"ready", "selected"}
  PROVE  /\ view[s].defs = defs
         /\ Known(s) = copies
         /\ \A i \in DOMAIN copies : Seen(s, i) = copies[i]
         /\ \A i : Held(s, i) <=> i \in DOMAIN copies
         /\ FinalizedUndo(s) = None
<1>1. view[s].defs = defs /\ Known(s) = copies
  BY DEF IInv, ViewCurrent, Known
<1>2. FinalizedUndo(s) = None
  BY DEF IInv, ViewCurrent, FinalizedUndo
<1>3. DOMAIN target[s].row = {}
  BY EmptyTypes DEF IInv, TargetCurrent, NoTarget
<1>4. QED
  BY <1>1, <1>2, <1>3 DEF Held, Seen

LEMMA WithoutSound ==
  ASSUME NEW c, Sound(c), NEW d \in Contents, NEW i \in DOMAIN c.copies,
         d.copies = Without(c.copies, {i}),
         d.defs = c.defs \/ d.defs = c.defs \ {c.copies[i].card},
         d.defs = c.defs <=>
           \E j \in DOMAIN c.copies \ {i} : c.copies[j].card = c.copies[i].card
  PROVE  Sound(d)
<1> DEFINE w == Without(c.copies, {i})
<1>1. c.copies \in CopyTable /\ d.copies = w
  BY DEF Sound, Contents
<1>a. /\ DOMAIN w = DOMAIN c.copies \ {i}
      /\ \A j \in DOMAIN c.copies \ {i} : w[j] = c.copies[j]
  BY <1>1, WithoutTable
<1> HIDE DEF w
<1>2. /\ DOMAIN d.copies = DOMAIN c.copies \ {i}
      /\ \A j \in DOMAIN c.copies \ {i} : d.copies[j] = c.copies[j]
  BY <1>1, <1>a
<1>3. c.defs = {c.copies[j].card : j \in DOMAIN c.copies}
  BY DEF Sound
<1>4. {d.copies[j].card : j \in DOMAIN d.copies}
      = {c.copies[j].card : j \in DOMAIN c.copies \ {i}}
  BY <1>2
<1>5. d.defs = {d.copies[j].card : j \in DOMAIN d.copies}
  <2>1. CASE \E j \in DOMAIN c.copies \ {i} : c.copies[j].card = c.copies[i].card
    BY <1>3, <1>4, <2>1
  <2>2. CASE \A j \in DOMAIN c.copies \ {i} : c.copies[j].card # c.copies[i].card
    BY <1>3, <1>4, <2>2
  <2>3. QED
    BY <2>1, <2>2
<1>6. \A j \in DOMAIN d.copies :
        /\ d.copies[j].golden => d.copies[j].zone # "destroyed"
        /\ d.copies[j].keyed <=> d.copies[j].zone = "deck"
  BY <1>2 DEF Sound
<1>7. QED
  BY <1>5, <1>6 DEF Sound

(* Deleting a copy removes that copy and, with the last one, its definition. *)
LEMMA DeletedSound ==
  ASSUME IInv, NEW s \in Sessions, Current(s), pc[s] \in {"ready", "selected"},
         NEW c, Sound(c), Part(c), NEW i \in DOMAIN c.copies
  PROVE  /\ Sound(Deleted(s, c, i))
         /\ DOMAIN Deleted(s, c, i).copies = DOMAIN c.copies \ {i}
<1> DEFINE card == Seen(s, i).card
           others == {j \in DOMAIN c.copies \ {i} : c.copies[j].card = card}
           cascade == {j \in DOMAIN copies : copies[j].card = card}
           d == Deleted(s, c, i)
<1>1. c.copies \in CopyTable /\ c \in Contents
  BY DEF Sound, Contents
<1>2. card = c.copies[i].card /\ i \in DOMAIN copies /\ copies[i].card = card
  BY CurrentView DEF Part
<1>3. card \in view[s].defs /\ card \in c.defs
  BY <1>2, CurrentView DEF IInv, NoOrphans, Sound
<1>4. d = IF others # {}
          THEN [c EXCEPT !.copies = Without(c.copies, {i})]
          ELSE [defs |-> c.defs \ {card}, copies |-> Without(c.copies, cascade)]
  BY <1>3, CurrentView DEF Deleted
<1>5. others = {} => Without(c.copies, cascade) = Without(c.copies, {i})
  <2> SUFFICES ASSUME others = {}
               PROVE  DOMAIN c.copies \ cascade = DOMAIN c.copies \ {i}
    BY DEF Without
  <2>1. QED
    BY <1>2 DEF Part
<1>6. d \in Contents
  BY <1>1, DeletedContents
<1>7. /\ d.copies = Without(c.copies, {i})
      /\ d.defs = IF others # {} THEN c.defs ELSE c.defs \ {card}
  <2>1. CASE others # {}
    <3>1. Without(c.copies, {i}) \in CopyTable
      BY <1>1, WithoutTable
    <3>2. QED
      BY <1>1, <1>4, <2>1, <3>1, ContentsUpdate
  <2>2. CASE others = {}
    BY <1>4, <1>5, <2>2
  <2>3. QED
    BY <2>1, <2>2
<1> HIDE DEF d
<1>8. Sound(d)
  <2>1. d.defs = c.defs <=>
          \E j \in DOMAIN c.copies \ {i} : c.copies[j].card = c.copies[i].card
    BY <1>2, <1>3, <1>7
  <2>2. d.defs = c.defs \/ d.defs = c.defs \ {c.copies[i].card}
    BY <1>2, <1>7
  <2>3. QED
    BY <1>6, <1>7, <2>1, <2>2, WithoutSound
<1> DEFINE w == Without(c.copies, {i})
<1>w. DOMAIN w = DOMAIN c.copies \ {i}
  BY <1>1, WithoutTable
<1> HIDE DEF w
<1>v. d.copies = w
  BY <1>7 DEF w
<1>9. DOMAIN d.copies = DOMAIN c.copies \ {i}
  BY <1>v, <1>w
<1>10. QED
  BY <1>8, <1>9 DEF d

(* Forgetting the last play leaves sound contents, and removes none but a  *)
(* destroyed copy.                                                         *)
LEMMA FinalizedSound ==
  ASSUME IInv, NEW s \in Sessions, Current(s), pc[s] \in {"ready", "selected"}
  PROVE  /\ Sound(Finalized(s))
         /\ Part(Finalized(s))
         /\ \A i \in DOMAIN copies : copies[i].zone # "destroyed" =>
              i \in DOMAIN Finalized(s).copies
<1> DEFINE u == view[s].deck.undo
<1>1. Part(Finalized(s))
  BY FinalizedContents DEF IInv, Part
<1>2. CASE Finalized(s) = Content
  BY <1>1, <1>2, ContentSound
<1>3. CASE Finalized(s) # Content
  <2>1. Finalized(s) = Deleted(s, Content, u) /\ Seen(s, u).zone = "destroyed"
        /\ (Held(s, u) \/ u \in DOMAIN copies)
    BY <1>3 DEF Finalized
  <2>2. u \in DOMAIN copies
    BY <2>1, CurrentView DEF Held
  <2>3. /\ Sound(Finalized(s))
        /\ DOMAIN Finalized(s).copies = DOMAIN copies \ {u}
    BY <2>1, <2>2, ContentSound, DeletedSound
  <2>4. copies[u].zone = "destroyed"
    BY <2>1, <2>2, CurrentView
  <2>5. QED
    BY <1>1, <2>3, <2>4
<1>4. QED
  BY <1>2, <1>3

(* A claimed transaction that commits sound contents and a sound pointer   *)
(* preserves the invariant: it leaves every other session's view behind.   *)
LEMMA CommitSound ==
  ASSUME IInv, NEW s \in Sessions, Claim(s), Current(s),
         NEW undo \in Ids \cup {None}, NEW c, Sound(c), Commit(s, undo, c),
         undo # None => /\ undo \in DOMAIN c.copies
                        /\ c.copies[undo].zone = "destroyed"
                        /\ ~c.copies[undo].golden
  PROVE  IInv'
<1>1. TypeOK'
  BY CommitType DEF IInv, Sound
<1>2. /\ deck' = [deck EXCEPT !.revision = deck.revision + 1, !.undo = undo]
      /\ defs' = c.defs
      /\ copies' = c.copies
  BY DEF Commit, Claim
<1>3. deck \in Row /\ deck.revision \in Nat
  BY DEF IInv, TypeOK, Row
<1>4. deck'.revision = deck.revision + 1 /\ deck'.undo = undo
  BY <1>2, <1>3 DEF Row
<1>5. /\ pc' = [pc EXCEPT ![s] = "idle"]
      /\ view' = [view EXCEPT ![s] = EmptyView]
      /\ target' = [target EXCEPT ![s] = NoTarget]
  BY DEF Commit, Close
<1>6. ASSUME NEW r \in Sessions, r # s
      PROVE  view'[r] = view[r] /\ pc'[r] = pc[r] /\ target'[r] = target[r]
  BY <1>5, <1>6 DEF IInv, TypeOK
<1>7. view'[s] = EmptyView /\ pc'[s] = "idle" /\ target'[s] = NoTarget
  BY <1>5 DEF IInv, TypeOK
<1>8. /\ view'[s].deck.enabled = FALSE
      /\ view'[s].deck.revision = 0
  BY <1>7 DEF EmptyView, Unconfigured
<1>9. \A r \in Sessions : view'[r].deck.revision <= deck'.revision
  <2> TAKE r \in Sessions
  <2>1. CASE r = s
    BY <1>3, <1>4, <1>8, <2>1
  <2>2. CASE r # s
    <3>1. view[r].deck.revision \in Nat
      BY DEF IInv, TypeOK, View, Row
    <3>2. view[r].deck.revision <= deck.revision
      BY DEF IInv, ViewCurrent
    <3>3. QED
      BY <1>3, <1>4, <1>6, <2>2, <3>1, <3>2
  <2>3. QED
    BY <2>1, <2>2
<1>10. \A r \in Sessions : ~Current(r)'
  <2> TAKE r \in Sessions
  <2>1. CASE r = s
    BY <1>8, <2>1 DEF Current
  <2>2. CASE r # s
    <3>1. view[r].deck.revision \in Nat
      BY DEF IInv, TypeOK, View, Row
    <3>2. view[r].deck.revision <= deck.revision
      BY DEF IInv, ViewCurrent
    <3>3. QED
      BY <1>3, <1>4, <1>6, <2>2, <3>1, <3>2 DEF Current
  <2>3. QED
    BY <2>1, <2>2
<1>11. ViewCurrent'
  BY <1>9, <1>10 DEF ViewCurrent
<1>12. TargetCurrent'
  BY <1>6, <1>7, <1>10 DEF IInv, TargetCurrent
<1>13. UndoIsDestroyedNormal'
  BY <1>2, <1>4 DEF UndoIsDestroyedNormal
<1>14. GoldenNeverDestroyed' /\ KeyedIffInDeck' /\ NoOrphans'
  BY <1>2 DEF Sound, GoldenNeverDestroyed, KeyedIffInDeck, NoOrphans
<1>15. Configured'
  <2>1. deck.configured
    BY DEF IInv, ViewCurrent, Configured
  <2>2. deck'.configured
    BY <1>2, <1>3, <2>1 DEF Row
  <2>3. QED
    BY <2>2 DEF Configured
<1>16. QED
  BY <1>1, <1>11, <1>12, <1>13, <1>14, <1>15 DEF IInv

(* The contents d are c with the zone and the key of copy i changed.       *)
Written(d, c, i, zone, keyed) ==
  /\ d \in Contents
  /\ d.defs = {d.copies[j].card : j \in DOMAIN d.copies}
  /\ DOMAIN d.copies = DOMAIN c.copies
  /\ \A j \in DOMAIN c.copies : j # i => d.copies[j] = c.copies[j]
  /\ d.copies[i].card = c.copies[i].card
  /\ d.copies[i].golden = c.copies[i].golden
  /\ d.copies[i].zone = zone
  /\ d.copies[i].keyed = keyed
  /\ (keyed <=> zone = "deck") => Sound(d)

(* Writing a copy that is seen as it is sets its zone and key.             *)
LEMMA WriteSound ==
  ASSUME NEW s, NEW c, Sound(c), NEW i \in DOMAIN c.copies,
         Seen(s, i) = c.copies[i], NEW zone \in Zones, NEW keyed \in BOOLEAN,
         c.copies[i].golden => zone # "destroyed"
  PROVE  Written([c EXCEPT !.copies = Write(s, c.copies, i, zone, keyed)],
                 c, i, zone, keyed)
<1> DEFINE t == c.copies
           w == Write(s, t, i, zone, keyed)
           d == [c EXCEPT !.copies = w]
<1>1. t \in CopyTable /\ t \in [DOMAIN t -> Copy] /\ c \in Contents
  BY CopyTableDomain DEF Sound, Contents
<1>2. t[i] \in Copy /\ t[i].zone = Seen(s, i).zone /\ t[i].keyed = Seen(s, i).keyed
  BY <1>1
<1>3. w \in CopyTable /\ DOMAIN w = DOMAIN t
  BY <1>1, WriteTable
<1>5. \A j \in DOMAIN t : j # i => w[j] = t[j]
  BY <1>1 DEF Write
<1>6. /\ w[i].card = t[i].card
      /\ w[i].golden = t[i].golden
      /\ w[i].zone = zone
      /\ w[i].keyed = keyed
  BY <1>1, <1>2 DEF Write, Merge, Copy
<1>7. c.defs = {t[j].card : j \in DOMAIN t}
  BY DEF Sound
<1> HIDE DEF w
<1>8. d \in Contents /\ d.copies = w /\ d.defs = c.defs
  BY <1>1, <1>3, ContentsUpdate
<1> HIDE DEF d
<1>9. {w[j].card : j \in DOMAIN w} = {t[j].card : j \in DOMAIN t}
  BY <1>3, <1>5, <1>6
<1>10. \A j \in DOMAIN t : /\ t[j].golden => t[j].zone # "destroyed"
                           /\ t[j].keyed <=> t[j].zone = "deck"
  BY DEF Sound
<1>11. ASSUME keyed <=> zone = "deck"
       PROVE  \A j \in DOMAIN w : /\ w[j].golden => w[j].zone # "destroyed"
                                  /\ w[j].keyed <=> w[j].zone = "deck"
  BY <1>3, <1>5, <1>6, <1>10, <1>11
<1>12. d.defs = {d.copies[j].card : j \in DOMAIN d.copies}
  BY <1>7, <1>8, <1>9
<1>13. (keyed <=> zone = "deck") => Sound(d)
  BY <1>8, <1>11, <1>12 DEF Sound
<1>14. Written(d, c, i, zone, keyed)
  BY <1>3, <1>5, <1>6, <1>8, <1>12, <1>13 DEF Written
<1>15. QED
  BY <1>14 DEF d, w

LEMMA InsertedSound ==
  ASSUME NEW t \in CopyTable, NEW D, D = {t[i].card : i \in DOMAIN t},
         \A i \in DOMAIN t : /\ t[i].golden => t[i].zone # "destroyed"
                             /\ t[i].keyed <=> t[i].zone = "deck",
         NEW h \in 0 .. MaxCopies, Highest(h, t),
         NEW n \in 0 .. MaxCopies, h + n <= MaxCopies,
         NEW rows \in [1 .. n -> Cards \X BOOLEAN]
  PROVE  Sound([defs |-> D \cup CardsOf(rows), copies |-> Inserted(t, h, rows)])
<1> DEFINE w == Inserted(t, h, rows)
           E == D \cup CardsOf(rows)
<1>1. Extends(w, t, rows)
  BY InsertedTable
<1> HIDE DEF w
<1>2. w \in CopyTable
  BY <1>1 DEF Extends
<1>4. E = {w[i].card : i \in DOMAIN w}
  <2>1. {w[i].card : i \in DOMAIN w} \subseteq E
    BY <1>1 DEF Extends
  <2>2. E \subseteq {w[i].card : i \in DOMAIN w}
    BY <1>1 DEF Extends
  <2>3. QED
    BY <2>1, <2>2
<1>5. \A i \in DOMAIN w : /\ w[i].golden => w[i].zone # "destroyed"
                          /\ w[i].keyed <=> w[i].zone = "deck"
  BY <1>1 DEF Extends
<1>6. E \subseteq Cards
  <2>1. \A i \in DOMAIN w : w[i].card \in Cards
    BY <1>2, CopyTableDomain DEF Copy
  <2>2. QED
    BY <1>4, <2>1
<1> HIDE DEF E
<1>7. Sound([defs |-> E, copies |-> w])
  BY <1>2, <1>4, <1>5, <1>6 DEF Sound, Contents
<1>8. QED
  BY <1>7 DEF w, E

-----------------------------------------------------------------------------
(* Every action preserves the invariant.                                   *)

LEMMA ReshuffledSound ==
  ASSUME NEW c \in Contents,
         c.defs = {c.copies[i].card : i \in DOMAIN c.copies},
         \A i \in DOMAIN c.copies :
           /\ c.copies[i].golden => c.copies[i].zone # "destroyed"
           /\ c.copies[i].zone # "deck" => ~c.copies[i].keyed
  PROVE  Sound(Reshuffled(c))
<1> DEFINE t == c.copies
           w == Reshuffled(c).copies
<1>1. \A i \in DOMAIN t : i \in Joined(c, {"deck"}) <=> t[i].zone = "deck"
  BY DEF Joined
<1>2. t \in [DOMAIN t -> Copy]
  BY CopyTableDomain DEF Contents
<1>a. /\ DOMAIN w = DOMAIN t
      /\ \A i \in DOMAIN t :
           /\ w[i].card = t[i].card
           /\ w[i].golden = t[i].golden
           /\ w[i].zone = t[i].zone
           /\ w[i].keyed = IF i \in Joined(c, {"deck"}) THEN TRUE ELSE t[i].keyed
  BY ReshuffledContents
<1> HIDE DEF w
<1>3. /\ DOMAIN w = DOMAIN t
      /\ \A i \in DOMAIN t : /\ w[i].card = t[i].card
                             /\ w[i].golden = t[i].golden
                             /\ w[i].zone = t[i].zone
                             /\ w[i].keyed <=> w[i].zone = "deck"
  BY <1>1, <1>a
<1>4. {w[i].card : i \in DOMAIN w} = {t[i].card : i \in DOMAIN t}
  BY <1>3
<1>5. Reshuffled(c) \in Contents /\ Reshuffled(c).defs = c.defs
  BY ReshuffledContents
<1>6. QED
  BY <1>3, <1>4, <1>5 DEF Sound, w

LEMMA RestockedSound ==
  ASSUME NEW s, NEW c, Sound(c),
         \A i \in DOMAIN c.copies : Seen(s, i) = c.copies[i]
  PROVE  Sound(Restocked(s, c))
<1> DEFINE t == c.copies
           w == Restocked(s, c).copies
<1>1. c \in Contents /\ t \in [DOMAIN t -> Copy]
  BY CopyTableDomain DEF Sound, Contents
<1>2. \A i \in DOMAIN t :
        i \in Joined(c, {"deck", "drawn"}) <=> t[i].zone \in {"deck", "drawn"}
  BY DEF Joined, Sound
<1>3. \A i \in DOMAIN t : Merge("deck", Seen(s, i).zone, t[i].zone) = "deck"
  BY DEF Merge
<1>a. /\ DOMAIN w = DOMAIN t
      /\ \A i \in DOMAIN t :
           /\ w[i].card = t[i].card
           /\ w[i].golden = t[i].golden
           /\ w[i].zone = IF i \in Joined(c, {"deck", "drawn"})
                          THEN Merge("deck", Seen(s, i).zone, t[i].zone)
                          ELSE t[i].zone
           /\ w[i].keyed = IF i \in Joined(c, {"deck", "drawn"})
                           THEN TRUE ELSE t[i].keyed
  BY <1>1, RestockedContents
<1>b. \A i \in DOMAIN t : /\ t[i].zone \in {"deck", "drawn", "destroyed"}
                          /\ t[i].golden => t[i].zone # "destroyed"
                          /\ t[i].keyed <=> t[i].zone = "deck"
  BY <1>1 DEF Sound, Copy, Zones
<1> HIDE DEF w
<1>4. /\ DOMAIN w = DOMAIN t
      /\ \A i \in DOMAIN t : /\ w[i].card = t[i].card
                             /\ w[i].golden => w[i].zone # "destroyed"
                             /\ w[i].keyed <=> w[i].zone = "deck"
  <2>1. ASSUME NEW i \in DOMAIN t
        PROVE  /\ w[i].golden => w[i].zone # "destroyed"
               /\ w[i].keyed <=> w[i].zone = "deck"
    <3>1. CASE i \in Joined(c, {"deck", "drawn"})
      <4>1. w[i].zone = "deck" /\ w[i].keyed = TRUE
        BY <1>3, <1>a, <3>1
      <4>2. QED
        BY <4>1
    <3>2. CASE i \notin Joined(c, {"deck", "drawn"})
      <4>1. w[i].zone = t[i].zone /\ w[i].keyed = t[i].keyed
            /\ w[i].golden = t[i].golden
        BY <1>a, <3>2
      <4>2. QED
        BY <1>b, <4>1
    <3>3. QED
      BY <3>1, <3>2
  <2>2. QED
    BY <1>a, <2>1
<1>5. {w[i].card : i \in DOMAIN w} = {t[i].card : i \in DOMAIN t}
  BY <1>4
<1>6. Restocked(s, c) \in Contents /\ Restocked(s, c).defs = c.defs
  BY <1>1, RestockedContents
<1>7. QED
  BY <1>4, <1>5, <1>6 DEF Sound, w

LEMMA MutateSound ==
  ASSUME IInv, NEW s \in Sessions, Mutate(s)
  PROVE  IInv'
<1> DEFINE c == Finalized(s)
           i == target[s].id
<1>1. Claim(s) /\ Current(s) /\ pc[s] \in {"ready", "selected"}
  BY DEF Mutate, SavePack, ReplaceComposition, DrawCard, DiscardDrawn,
         PlayDrawn, UndoLastPlay, RemoveCopy, ResetDeck, Selected, Active,
         Claim, Current
<1>2. /\ Sound(c)
      /\ Part(c)
      /\ \A j \in DOMAIN copies : copies[j].zone # "destroyed" => j \in DOMAIN c.copies
  BY <1>1, FinalizedSound
<1>3. FinalizedUndo(s) = None /\ \A j \in DOMAIN copies : Seen(s, j) = copies[j]
  BY <1>1, CurrentView
<1>4. \A j \in DOMAIN c.copies : Seen(s, j) = c.copies[j]
  BY <1>2, <1>3 DEF Part
<1>5. c.copies \in CopyTable /\ c \in Contents
  BY <1>2 DEF Sound, Contents
<1>6. ASSUME NEW d, Sound(d), Commit(s, FinalizedUndo(s), d)
      PROVE  IInv'
  BY <1>1, <1>3, <1>6, CommitSound
<1>7. /\ "deck" \in Zones /\ "drawn" \in Zones /\ "destroyed" \in Zones
      /\ TRUE \in BOOLEAN /\ FALSE \in BOOLEAN
  BY DEF Zones
<1>8. ASSUME pc[s] = "selected", target[s].op # "clear"
      PROVE  Suitable(target[s])
  BY <1>1, <1>8 DEF IInv, TargetCurrent
<1> HIDE DEF c, i
<1>9. CASE SavePack(s)
  <2>1. PICK pack \in [1 .. PackSize -> Cards \X {FALSE}], h \in 0 .. MaxCopies :
          /\ Highest(h, c.copies)
          /\ h + PackSize <= MaxCopies
          /\ Commit(s, FinalizedUndo(s),
                    [defs |-> c.defs \cup CardsOf(pack),
                     copies |-> Inserted(c.copies, h, pack)])
    BY <1>9 DEF SavePack, c
  <2>2. pack \in [1 .. PackSize -> Cards \X BOOLEAN]
    OBVIOUS
  <2>3. PackSize \in 0 .. MaxCopies
    BY <2>1, BoundAssumption
  <2>4. /\ c.defs = {c.copies[j].card : j \in DOMAIN c.copies}
        /\ \A j \in DOMAIN c.copies :
             /\ c.copies[j].golden => c.copies[j].zone # "destroyed"
             /\ c.copies[j].keyed <=> c.copies[j].zone = "deck"
    BY <1>2 DEF Sound
  <2>5. Sound([defs |-> c.defs \cup CardsOf(pack),
               copies |-> Inserted(c.copies, h, pack)])
    BY <1>5, <2>1, <2>2, <2>3, <2>4, InsertedSound
  <2>6. QED
    BY <1>6, <2>1, <2>5
<1>10. CASE ReplaceComposition(s)
  <2> DEFINE rest == Without(c.copies, Joined(c, Zones))
  <2>1. PICK n \in 0 .. MaxCopies, h \in 0 .. MaxCopies :
          /\ Highest(h, rest)
          /\ h + n <= MaxCopies
          /\ \E rows \in [1 .. n -> Cards \X BOOLEAN] :
               Commit(s, FinalizedUndo(s),
                 [defs |-> CardsOf(rows), copies |-> Inserted(rest, h, rows)])
    BY <1>10 DEF ReplaceComposition, c
  <2>2. PICK rows \in [1 .. n -> Cards \X BOOLEAN] :
          Commit(s, FinalizedUndo(s),
            [defs |-> CardsOf(rows), copies |-> Inserted(rest, h, rows)])
    BY <2>1
  <2>3. \A j \in DOMAIN c.copies : j \in Joined(c, Zones)
    <3> TAKE j \in DOMAIN c.copies
    <3>1. c.copies[j] \in Copy
      BY <1>5, CopyTableDomain
    <3>2. QED
      BY <1>2, <3>1 DEF Joined, Sound, Copy
  <2>4. rest \in CopyTable /\ DOMAIN rest = {}
    <3>1. rest \in CopyTable /\ DOMAIN rest = DOMAIN c.copies \ Joined(c, Zones)
      BY <1>5, WithoutTable
    <3>2. QED
      BY <2>3, <3>1
  <2> HIDE DEF rest
  <2>5. {} = {rest[j].card : j \in DOMAIN rest}
    BY <2>4
  <2>6. Sound([defs |-> {} \cup CardsOf(rows), copies |-> Inserted(rest, h, rows)])
    BY <2>1, <2>4, <2>5, InsertedSound
  <2>7. {} \cup CardsOf(rows) = CardsOf(rows)
    OBVIOUS
  <2>8. QED
    BY <1>6, <2>2, <2>6, <2>7
<1>11. CASE DrawCard(s)
  <2>1. PICK j \in DOMAIN c.copies :
          Commit(s, FinalizedUndo(s),
                 [c EXCEPT !.copies = Write(s, c.copies, j, "drawn", FALSE)])
    BY <1>11 DEF DrawCard, c
  <2> DEFINE d == [c EXCEPT !.copies = Write(s, c.copies, j, "drawn", FALSE)]
  <2>2. Written(d, c, j, "drawn", FALSE)
    BY <1>2, <1>4, <1>7, WriteSound
  <2> HIDE DEF d
  <2>4. Sound(d)
    BY <2>2 DEF Written
  <2>3. QED
    BY <1>6, <2>1, <2>4 DEF d
<1>12. CASE DiscardDrawn(s)
  <2>1. i \in DOMAIN copies /\ copies[i].zone = "drawn"
    BY <1>8, <1>12 DEF DiscardDrawn, Selected, Active, Suitable, i
  <2>2. i \in DOMAIN c.copies /\ c.copies[i].zone = "drawn"
    BY <1>2, <2>1 DEF Part
  <2>3. Seen(s, i).keyed = FALSE
    BY <1>2, <1>4, <2>2 DEF Sound
  <2> DEFINE d == [c EXCEPT !.copies = Write(s, c.copies, i, "deck", FALSE)]
  <2>4. Commit(s, FinalizedUndo(s), Reshuffled(d))
    BY <1>12, <2>2, <2>3 DEF DiscardDrawn, c, i
  <2>9. Written(d, c, i, "deck", FALSE)
    BY <1>2, <1>4, <1>7, <2>2, WriteSound
  <2> HIDE DEF d
  <2>5. /\ d \in Contents
        /\ d.defs = {d.copies[j].card : j \in DOMAIN d.copies}
        /\ DOMAIN d.copies = DOMAIN c.copies
        /\ \A j \in DOMAIN c.copies : j # i => d.copies[j] = c.copies[j]
        /\ d.copies[i].zone = "deck"
    BY <2>9 DEF Written
  <2>6. \A j \in DOMAIN d.copies :
          /\ d.copies[j].golden => d.copies[j].zone # "destroyed"
          /\ d.copies[j].zone # "deck" => ~d.copies[j].keyed
    BY <1>2, <2>5 DEF Sound
  <2>7. Sound(Reshuffled(d))
    BY <2>5, <2>6, ReshuffledSound
  <2>8. QED
    BY <1>6, <2>4, <2>7
<1>13. CASE PlayDrawn(s)
  <2>1. i \in DOMAIN copies /\ copies[i].zone = "drawn" /\ ~copies[i].golden
    BY <1>8, <1>13 DEF PlayDrawn, Selected, Active, Suitable, i
  <2>2. i \in DOMAIN c.copies /\ ~c.copies[i].golden
    BY <1>2, <2>1 DEF Part
  <2> DEFINE d == [c EXCEPT !.copies = Write(s, c.copies, i, "destroyed", FALSE)]
  <2>3. Commit(s, i, d)
    BY <1>13, <2>2 DEF PlayDrawn, c, i
  <2>7. Written(d, c, i, "destroyed", FALSE)
    BY <1>2, <1>4, <1>7, <2>2, WriteSound
  <2> HIDE DEF d
  <2>4. /\ Sound(d)
        /\ i \in DOMAIN d.copies
        /\ d.copies[i].zone = "destroyed"
        /\ ~d.copies[i].golden
    BY <2>2, <2>7 DEF Written
  <2>5. i \in Ids
    BY <2>1, CopyTableDomain DEF IInv, TypeOK
  <2>6. QED
    BY <1>1, <2>3, <2>4, <2>5, CommitSound
<1>14. CASE UndoLastPlay(s)
  <2>1. i \in DOMAIN copies
    BY <1>8, <1>14 DEF UndoLastPlay, Selected, Active, Suitable, i
  <2>2. Sound(Content) /\ Content.copies = copies
    BY ContentSound
  <2> DEFINE d == [Content EXCEPT !.copies = Write(s, Content.copies, i, "drawn", FALSE)]
  <2>3. Commit(s, None, d)
    BY <1>14, <2>1, <2>2 DEF UndoLastPlay, i
  <2>6. Written(d, Content, i, "drawn", FALSE)
    BY <1>3, <1>7, <2>1, <2>2, WriteSound
  <2> HIDE DEF d
  <2>4. Sound(d)
    BY <2>6 DEF Written
  <2>5. QED
    BY <1>3, <1>6, <2>3, <2>4
<1>15. CASE RemoveCopy(s)
  <2>1. i \in DOMAIN copies /\ copies[i].zone = "deck"
    BY <1>8, <1>15 DEF RemoveCopy, Selected, Active, Suitable, i
  <2>2. i \in DOMAIN c.copies
    BY <1>2, <2>1
  <2>3. Sound(Deleted(s, c, i))
    BY <1>1, <1>2, <2>2, DeletedSound
  <2>4. Commit(s, FinalizedUndo(s), Deleted(s, c, i))
    BY <1>15 DEF RemoveCopy, c, i
  <2>5. QED
    BY <1>6, <2>3, <2>4
<1>16. CASE ResetDeck(s)
  <2>1. Commit(s, FinalizedUndo(s), Restocked(s, c))
    BY <1>16 DEF ResetDeck, c
  <2>2. Sound(Restocked(s, c))
    BY <1>2, <1>4, RestockedSound
  <2>3. QED
    BY <1>6, <2>1, <2>2
<1>17. QED
  BY <1>9, <1>10, <1>11, <1>12, <1>13, <1>14, <1>15, <1>16 DEF Mutate

(* What ViewCurrent and TargetCurrent say of one session.                  *)
ViewCurrentOf(s) ==
  /\ view[s].deck.revision <= deck.revision
  /\ Current(s) =>
       /\ deck.enabled
       /\ deck.undo \in {view[s].deck.undo, None}
       /\ pc[s] \in {"defs", "ready", "selected"} => view[s].defs = defs
       /\ pc[s] \in {"ready", "selected"} => view[s].copies = copies

TargetCurrentOf(s) ==
  IF pc[s] = "selected"
  THEN Current(s) => /\ DOMAIN target[s].row = {}
                     /\ target[s].op = "clear" \/ Suitable(target[s])
  ELSE target[s] = NoTarget

(* A step of one session that leaves the database alone.                   *)
LEMMA LocalSound ==
  ASSUME IInv, TypeOK', UNCHANGED db, NEW s \in Sessions,
         \A r \in Sessions \ {s} :
           view'[r] = view[r] /\ pc'[r] = pc[r] /\ target'[r] = target[r],
         ViewCurrentOf(s)', TargetCurrentOf(s)',
         view'[s].deck.configured => deck.configured
  PROVE  IInv'
<1>1. deck' = deck /\ defs' = defs /\ copies' = copies
  BY DEF db
<1>2. ViewCurrent'
  <2> SUFFICES ASSUME NEW r \in Sessions PROVE ViewCurrentOf(r)'
    BY DEF ViewCurrent, ViewCurrentOf
  <2>1. CASE r = s
    BY <2>1
  <2>2. CASE r # s
    <3>1. ViewCurrentOf(r)
      BY DEF IInv, ViewCurrent, ViewCurrentOf
    <3>2. view'[r] = view[r] /\ pc'[r] = pc[r]
      BY <2>2
    <3>3. QED
      BY <1>1, <3>1, <3>2 DEF ViewCurrentOf, Current
  <2>3. QED
    BY <2>1, <2>2
<1>3. TargetCurrent'
  <2> SUFFICES ASSUME NEW r \in Sessions PROVE TargetCurrentOf(r)'
    BY DEF TargetCurrent, TargetCurrentOf
  <2>1. CASE r = s
    BY <2>1
  <2>2. CASE r # s
    <3>1. TargetCurrentOf(r)
      BY DEF IInv, TargetCurrent, TargetCurrentOf
    <3>2. view'[r] = view[r] /\ pc'[r] = pc[r] /\ target'[r] = target[r]
      BY <2>2
    <3>3. QED
      BY <1>1, <3>1, <3>2 DEF TargetCurrentOf, Current, Suitable
  <2>3. QED
    BY <2>1, <2>2
<1>4. /\ UndoIsDestroyedNormal'
      /\ GoldenNeverDestroyed'
      /\ KeyedIffInDeck'
      /\ NoOrphans'
  BY <1>1 DEF IInv, UndoIsDestroyedNormal, GoldenNeverDestroyed,
              KeyedIffInDeck, NoOrphans
<1>5. Configured'
  BY <1>1 DEF IInv, Configured
<1>6. QED
  BY <1>2, <1>3, <1>4, <1>5 DEF IInv

LEMMA LoadSound ==
  ASSUME IInv, NEW s \in Sessions, Load(s)
  PROVE  IInv'
<1>1. TypeOK'
  BY LoadType DEF IInv
<1>2. /\ UNCHANGED <<db, target>>
      /\ \A r \in Sessions \ {s} :
           view'[r] = view[r] /\ pc'[r] = pc[r] /\ target'[r] = target[r]
      /\ pc[s] \in {"idle", "row", "defs"}
      /\ pc'[s] \in {"row", "defs", "ready"}
  BY DEF Load, LoadRow, LoadDefinitions, LoadCopies, IInv, TypeOK
<1>3. TargetCurrentOf(s)'
  BY <1>2 DEF IInv, TargetCurrent, TargetCurrentOf
<1>4. deck' = deck /\ defs' = defs /\ copies' = copies
  BY <1>2 DEF db
<1>5. ViewCurrentOf(s)
  BY DEF IInv, ViewCurrent, ViewCurrentOf
<1>6. /\ deck.revision \in Nat
      /\ deck.undo \in {deck.undo, None}
      /\ view[s].deck.configured => deck.configured
  BY DEF IInv, TypeOK, Row, Configured
<1>7. CASE LoadRow(s)
  <2>1. view'[s].deck = deck /\ pc'[s] = "row"
    BY <1>7 DEF LoadRow, IInv, TypeOK, View
  <2>2. QED
    BY <1>1, <1>2, <1>3, <1>4, <1>6, <2>1, LocalSound DEF ViewCurrentOf, Current
<1>8. CASE LoadDefinitions(s)
  <2>1. view'[s].deck = view[s].deck /\ view'[s].defs = defs /\ pc'[s] = "defs"
    BY <1>8 DEF LoadDefinitions, IInv, TypeOK, View
  <2>2. QED
    BY <1>1, <1>2, <1>3, <1>4, <1>5, <1>6, <2>1, LocalSound
       DEF ViewCurrentOf, Current
<1>9. CASE LoadCopies(s)
  <2> DEFINE known == {i \in DOMAIN copies : copies[i].card \in view[s].defs}
  <2>1. /\ view'[s].deck = view[s].deck
        /\ view'[s].defs = view[s].defs
        /\ view'[s].copies = Restrict(copies, known)
        /\ pc[s] = "defs"
        /\ pc'[s] = "ready"
    BY <1>9 DEF LoadCopies, IInv, TypeOK, View
  <2>2. view[s].defs = defs => known = DOMAIN copies
    BY DEF IInv, NoOrphans
  <2>3. Restrict(copies, DOMAIN copies) = copies
    BY DEF Restrict, IInv, TypeOK, CopyTable
  <2> HIDE DEF known
  <2>4. view[s].defs = defs => view'[s].copies = copies
    BY <2>1, <2>2, <2>3
  <2>5. Current(s) => view[s].defs = defs
    BY <1>5, <2>1 DEF ViewCurrentOf
  <2>6. Current(s)' <=> Current(s)
    BY <1>4, <2>1 DEF Current
  <2>7. ViewCurrentOf(s)'
    BY <1>4, <1>5, <2>1, <2>4, <2>5, <2>6 DEF ViewCurrentOf
  <2>8. QED
    BY <1>1, <1>2, <1>3, <1>6, <2>1, <2>7, LocalSound
<1>10. QED
  BY <1>7, <1>8, <1>9 DEF Load

(* A handler that looks its copy up in a current deck finds a suitable one. *)
LEMMA SelectSound ==
  ASSUME IInv, NEW s \in Sessions, NEW i \in Ids,
         NEW op \in {"discard", "play", "remove", "undo", "clear"},
         Select(s, op, i),
         Current(s) =>
           \/ op = "clear"
           \/ Suitable([op |-> op, id |-> i, row |-> NoCopies])
  PROVE  IInv'
<1> DEFINE row == Restrict(copies, ({i} \cap DOMAIN copies) \ DOMAIN Known(s))
<1>1. TypeOK'
  BY SelectType DEF IInv
<1>2. /\ UNCHANGED <<db, view>>
      /\ \A r \in Sessions \ {s} :
           view'[r] = view[r] /\ pc'[r] = pc[r] /\ target'[r] = target[r]
      /\ pc[s] = "ready"
      /\ pc'[s] = "selected"
      /\ target'[s] = [op |-> op, id |-> i, row |-> row]
  BY DEF Select, Active, IInv, TypeOK
<1>3. deck' = deck /\ defs' = defs /\ copies' = copies /\ view' = view
  BY <1>2 DEF db
<1>4. ViewCurrentOf(s)'
  BY <1>2, <1>3 DEF IInv, ViewCurrent, ViewCurrentOf, Current
<1>5. Current(s) => DOMAIN row = {}
  <2> SUFFICES ASSUME Current(s) PROVE DOMAIN row = {}
    OBVIOUS
  <2>1. Known(s) = copies
    BY <1>2, CurrentView
  <2>2. QED
    BY <2>1 DEF Restrict
<1> HIDE DEF row
<1>6. Current(s)' <=> Current(s)
  BY <1>3 DEF Current
<1>7. TargetCurrentOf(s)'
  BY <1>2, <1>3, <1>5, <1>6 DEF TargetCurrentOf, Suitable
<1>8. view'[s].deck.configured => deck.configured
  BY <1>3 DEF IInv, Configured
<1>9. QED
  BY <1>1, <1>2, <1>4, <1>7, <1>8, LocalSound

LEMMA LookupSound ==
  ASSUME IInv, NEW s \in Sessions, Lookup(s)
  PROVE  IInv'
<1>1. \A zones : Joined(Content, zones) \subseteq
                   {i \in DOMAIN copies : copies[i].zone \in zones}
  BY DEF Joined, Content
<1>2. DOMAIN copies \subseteq Ids
  BY CopyTableDomain DEF IInv, TypeOK
<1>3. ASSUME Current(s), Active(s, "ready")
      PROVE  /\ \A i \in DOMAIN copies : Seen(s, i) = copies[i]
             /\ \A i : Held(s, i) <=> i \in DOMAIN copies
  BY <1>3, CurrentView DEF Active
<1>4. CASE SelectDrawn(s)
  <2>1. PICK i \in Joined(Content, {"drawn"}) :
          \/ Select(s, "discard", i)
          \/ ~Seen(s, i).golden /\ Select(s, "play", i)
    BY <1>4 DEF SelectDrawn
  <2>2. i \in DOMAIN copies /\ i \in Ids /\ copies[i].zone = "drawn"
    BY <1>1, <1>2
  <2>3. CASE Select(s, "discard", i)
    <3>1. Suitable([op |-> "discard", id |-> i, row |-> NoCopies])
      BY <2>2 DEF Suitable
    <3>2. QED
      BY <2>2, <2>3, <3>1, SelectSound
  <2>4. CASE ~Seen(s, i).golden /\ Select(s, "play", i)
    <3>1. Current(s) => Suitable([op |-> "play", id |-> i, row |-> NoCopies])
      BY <1>3, <2>2, <2>4 DEF Suitable, Select
    <3>2. QED
      BY <2>2, <2>4, <3>1, SelectSound
  <2>5. QED
    BY <2>1, <2>3, <2>4
<1>5. CASE SelectRemoved(s)
  <2>1. PICK i \in Joined(Content, {"deck"}) : Select(s, "remove", i)
    BY <1>5 DEF SelectRemoved
  <2>2. i \in DOMAIN copies /\ i \in Ids /\ copies[i].zone = "deck"
    BY <1>1, <1>2
  <2>3. Suitable([op |-> "remove", id |-> i, row |-> NoCopies])
    BY <2>2 DEF Suitable
  <2>4. QED
    BY <2>1, <2>2, <2>3, SelectSound
<1>6. CASE SelectUndo(s)
  <2> DEFINE u == view[s].deck.undo
  <2>1. u \in Ids
    BY <1>6 DEF SelectUndo, IInv, TypeOK, View, Row
  <2>2. \/ Select(s, "clear", u)
        \/ /\ Held(s, u) \/ u \in DOMAIN copies
           /\ Seen(s, u).zone = "destroyed"
           /\ Select(s, "undo", u)
    BY <1>6 DEF SelectUndo
  <2> HIDE DEF u
  <2>3. CASE Select(s, "clear", u)
    BY <2>1, <2>3, SelectSound
  <2>4. CASE /\ Held(s, u) \/ u \in DOMAIN copies
             /\ Seen(s, u).zone = "destroyed"
             /\ Select(s, "undo", u)
    <3>1. Current(s) => Suitable([op |-> "undo", id |-> u, row |-> NoCopies])
      BY <1>3, <2>4 DEF Suitable, Select
    <3>2. QED
      BY <2>1, <2>4, <3>1, SelectSound
  <2>5. QED
    BY <2>2, <2>3, <2>4
<1>7. QED
  BY <1>4, <1>5, <1>6 DEF Lookup

(* A session that ends has nothing of the deck left.                       *)
LEMMA CloseCurrent ==
  ASSUME IInv, deck'.revision \in Nat, NEW s \in Sessions, Close(s)
  PROVE  /\ ViewCurrentOf(s)'
         /\ TargetCurrentOf(s)'
         /\ ~Current(s)' /\ ~view'[s].deck.configured
         /\ \A r \in Sessions \ {s} :
              view'[r] = view[r] /\ pc'[r] = pc[r] /\ target'[r] = target[r]
<1>1. view'[s] = EmptyView /\ pc'[s] = "idle" /\ target'[s] = NoTarget
  BY DEF Close, IInv, TypeOK
<1>2. /\ view'[s].deck.enabled = FALSE
      /\ view'[s].deck.revision = 0
      /\ view'[s].deck.configured = FALSE
  BY <1>1 DEF EmptyView, Unconfigured
<1>3. QED
  BY <1>1, <1>2 DEF Close, IInv, TypeOK, ViewCurrentOf, TargetCurrentOf, Current

LEMMA FailSound ==
  ASSUME IInv, NEW s \in Sessions, Fail(s)
  PROVE  IInv'
<1>1. TypeOK' /\ Close(s) /\ UNCHANGED db
  BY OtherType DEF IInv, Fail
<1>2. deck'.revision \in Nat
  BY <1>1 DEF TypeOK, Row
<1>3. QED
  BY <1>1, <1>2, CloseCurrent, LocalSound

(* Clearing the pointer without a claim changes nothing a view relies on.  *)
LEMMA ClearSound ==
  ASSUME IInv, NEW s \in Sessions, ClearUndo(s)
  PROVE  IInv'
<1>1. TypeOK' /\ Close(s) /\ UNCHANGED <<defs, copies>>
  BY OtherType DEF IInv, ClearUndo
<1>2. deck'.undo = None /\ deck'.revision = deck.revision
      /\ deck'.enabled = deck.enabled /\ deck'.revision \in Nat
      /\ deck'.configured = deck.configured
  BY DEF ClearUndo, IInv, TypeOK, Row
<1>3. /\ ViewCurrentOf(s)'
      /\ TargetCurrentOf(s)'
      /\ ~view'[s].deck.configured
      /\ \A r \in Sessions \ {s} :
           view'[r] = view[r] /\ pc'[r] = pc[r] /\ target'[r] = target[r]
  BY <1>1, <1>2, CloseCurrent
<1>4. \A r \in Sessions \ {s} : Current(r)' <=> Current(r)
  BY <1>2, <1>3 DEF Current
<1>5. ViewCurrent'
  <2> SUFFICES ASSUME NEW r \in Sessions \ {s} PROVE ViewCurrentOf(r)'
    BY <1>3 DEF ViewCurrent, ViewCurrentOf
  <2>1. ViewCurrentOf(r)
    BY DEF IInv, ViewCurrent, ViewCurrentOf
  <2>2. QED
    BY <1>1, <1>2, <1>3, <1>4, <2>1 DEF ViewCurrentOf
<1>6. TargetCurrent'
  <2> SUFFICES ASSUME NEW r \in Sessions \ {s} PROVE TargetCurrentOf(r)'
    BY <1>3 DEF TargetCurrent, TargetCurrentOf
  <2>1. TargetCurrentOf(r)
    BY DEF IInv, TargetCurrent, TargetCurrentOf
  <2>2. QED
    BY <1>1, <1>3, <1>4, <2>1 DEF TargetCurrentOf, Suitable
<1>7. UndoIsDestroyedNormal'
  BY <1>2 DEF UndoIsDestroyedNormal
<1>8. GoldenNeverDestroyed' /\ KeyedIffInDeck' /\ NoOrphans'
  BY <1>1 DEF IInv, GoldenNeverDestroyed, KeyedIffInDeck, NoOrphans
<1>9. Configured'
  BY <1>2, <1>3 DEF IInv, Configured
<1>10. QED
  BY <1>1, <1>5, <1>6, <1>7, <1>8, <1>9 DEF IInv

(***************************************************************************)
(* A change of the status that no commit went before leaves no request     *)
(* that could still claim the revision; it may be the deck's creation.     *)
(***************************************************************************)
LEMMA StatusFresh ==
  ASSUME IInv, Overwriters = {}, NEW s \in Sessions, SetStatus(s)
  PROVE  /\ TypeOK' /\ Close(s) /\ UNCHANGED <<defs, copies>>
         /\ deck'.undo = deck.undo /\ deck'.configured
         /\ \A r \in Sessions : /\ view'[r].deck.revision <= deck'.revision
                                /\ ~Current(r)'
<1>1. TypeOK' /\ Close(s) /\ UNCHANGED <<defs, copies>>
  BY OtherType DEF IInv, SetStatus
<1>2. deck'.revision \in Nat /\ deck.revision \in Nat /\ deck \in Row
  BY <1>1 DEF IInv, TypeOK, Row
<1>3. /\ ViewCurrentOf(s)' /\ ~Current(s)'
  BY <1>1, <1>2, CloseCurrent
<1>a. \A r \in Sessions \ {s} : view'[r] = view[r]
  BY <1>1 DEF Close, IInv, TypeOK
<1>4. \A r \in Sessions : /\ view[r].deck.revision \in Nat
                         /\ view[r].deck.revision <= deck.revision
  BY DEF IInv, TypeOK, View, Row, ViewCurrent
<1>b. \A r \in Sessions : view[r].deck.enabled =>
        deck.enabled \/ view[r].deck.revision # deck.revision
  BY DEF IInv, ViewCurrent, Current
<1>5. CASE view[s].deck.configured
  <2>1. deck.configured
    BY <1>5 DEF IInv, Configured
  <2>2. /\ deck'.revision = deck.revision + 1
        /\ deck'.undo = deck.undo /\ deck'.configured
    BY <1>2, <1>5, <2>1 DEF SetStatus, Row
  <2>3. ASSUME NEW r \in Sessions \ {s}
        PROVE  view'[r].deck.revision <= deck'.revision /\ ~Current(r)'
    <3>1. /\ view'[r] = view[r]
          /\ view[r].deck.revision \in Nat
          /\ view[r].deck.revision <= deck.revision
      BY <1>a, <1>4
    <3>2. QED
      BY <1>2, <2>2, <3>1 DEF Current
  <2>4. QED
    BY <1>1, <1>3, <2>2, <2>3 DEF ViewCurrentOf
<1>6. CASE ~view[s].deck.configured
  <2>1. deck' = NewDeck /\ ~deck.configured
    BY <1>6 DEF SetStatus
  <2>2. /\ deck'.revision = deck.revision /\ ~deck.enabled
        /\ deck'.undo = deck.undo /\ deck'.configured
    BY <2>1 DEF NewDeck, IInv, Configured
  <2>3. ASSUME NEW r \in Sessions \ {s}
        PROVE  view'[r].deck.revision <= deck'.revision /\ ~Current(r)'
    <3>1. /\ view'[r] = view[r]
          /\ view[r].deck.revision <= deck.revision
          /\ view[r].deck.enabled =>
               deck.enabled \/ view[r].deck.revision # deck.revision
      BY <1>a, <1>b, <1>4
    <3>2. QED
      BY <2>2, <3>1 DEF Current
  <2>4. QED
    BY <1>1, <1>3, <2>2, <2>3 DEF ViewCurrentOf
<1>7. QED
  BY <1>5, <1>6

LEMMA StatusSound ==
  ASSUME IInv, Overwriters = {}, NEW s \in Sessions, SetStatus(s)
  PROVE  IInv'
<1>1. /\ TypeOK' /\ Close(s) /\ UNCHANGED <<defs, copies>>
      /\ deck'.undo = deck.undo /\ deck'.configured
      /\ \A r \in Sessions : /\ view'[r].deck.revision <= deck'.revision
                             /\ ~Current(r)'
  BY StatusFresh
<1>2. ViewCurrent'
  BY <1>1 DEF ViewCurrent
<1>3. TargetCurrent'
  BY <1>1 DEF TargetCurrent, Close, IInv, TypeOK
<1>4. /\ UndoIsDestroyedNormal'
      /\ GoldenNeverDestroyed'
      /\ KeyedIffInDeck'
      /\ NoOrphans'
  BY <1>1 DEF IInv, UndoIsDestroyedNormal, GoldenNeverDestroyed,
              KeyedIffInDeck, NoOrphans
<1>5. Configured'
  BY <1>1 DEF Configured
<1>6. QED
  BY <1>1, <1>2, <1>3, <1>4, <1>5 DEF IInv

LEMMA InitSound ==
  ASSUME Init
  PROVE  IInv
<1>1. TypeOK
  BY EmptyTypes DEF Init, TypeOK
<1>2. deck.revision = 0 /\ deck.undo = None
  BY DEF Init, Unconfigured, NewDeck
<1>3. ViewCurrent
  BY <1>2 DEF Init, ViewCurrent, Current, EmptyView, Unconfigured
<1>4. TargetCurrent
  BY DEF Init, TargetCurrent
<1>5. /\ UndoIsDestroyedNormal
      /\ GoldenNeverDestroyed
      /\ KeyedIffInDeck
      /\ NoOrphans
  BY <1>2, EmptyTypes DEF Init, UndoIsDestroyedNormal, GoldenNeverDestroyed,
                          KeyedIffInDeck, NoOrphans
<1>6. Configured
  BY DEF Init, Configured, EmptyView, Unconfigured, NewDeck
<1>7. QED
  BY <1>1, <1>3, <1>4, <1>5, <1>6 DEF IInv

LEMMA StutterSound ==
  ASSUME IInv, UNCHANGED vars
  PROVE  IInv'
  BY DEF vars, IInv, TypeOK, ViewCurrent, TargetCurrent, Current, Suitable,
         UndoIsDestroyedNormal, GoldenNeverDestroyed, KeyedIffInDeck, NoOrphans,
         Configured

(***************************************************************************)
(* While no change of the status goes over another commit, claim_revision  *)
(* protects the whole read-modify-write of every handler, for any number   *)
(* of requests.                                                            *)
(***************************************************************************)
THEOREM ClaimedMutations ==
  ASSUME Overwriters = {}
  PROVE  Spec => []IInv
<1>1. Init => IInv
  BY InitSound
<1>2. IInv /\ [Next]_vars => IInv'
  <2> SUFFICES ASSUME IInv, [Next]_vars PROVE IInv'
    OBVIOUS
  <2>1. CASE UNCHANGED vars
    BY <2>1, StutterSound
  <2>2. CASE Next
    <3>1. PICK s \in Sessions : \/ Load(s) \/ Lookup(s) \/ Mutate(s)
                                \/ ClearUndo(s) \/ SetStatus(s) \/ Fail(s)
      BY <2>2 DEF Next
    <3>2. QED
      BY <3>1, LoadSound, LookupSound, MutateSound, ClearSound, StatusSound,
         FailSound
  <2>3. QED
    BY <2>1, <2>2
<1>3. QED
  BY <1>1, <1>2, PTL DEF Spec

(* The undo pointer designates a destroyed, normal copy that exists.       *)
THEOREM UndoPointer ==
  ASSUME Overwriters = {}
  PROVE  Spec => []UndoIsDestroyedNormal
<1>1. IInv => UndoIsDestroyedNormal
  BY DEF IInv
<1>2. QED
  BY <1>1, ClaimedMutations, PTL

(* Golden cards are never destroyed.                                       *)
THEOREM GoldenCards ==
  ASSUME Overwriters = {}
  PROVE  Spec => []GoldenNeverDestroyed
<1>1. IInv => GoldenNeverDestroyed
  BY DEF IInv
<1>2. QED
  BY <1>1, ClaimedMutations, PTL

(* Definitions and copies stay together without an enforced foreign key.   *)
THEOREM DefinitionsAndCopies ==
  ASSUME Overwriters = {}
  PROVE  Spec => [](NoOrphans /\ KeyedIffInDeck)
<1>1. IInv => NoOrphans /\ KeyedIffInDeck
  BY DEF IInv
<1>2. QED
  BY <1>1, ClaimedMutations, PTL

(* Whoever can still claim the revision acts on the deck as it is.         *)
THEOREM OptimisticLock ==
  ASSUME Overwriters = {}
  PROVE  Spec => [](ViewCurrent /\ TargetCurrent)
<1>1. IInv => ViewCurrent /\ TargetCurrent
  BY DEF IInv
<1>2. QED
  BY <1>1, ClaimedMutations, PTL

(***************************************************************************)
(* No request changes the cards of a disabled deck, however many were let  *)
(* through before it was disabled: they all lose the revision, as long as  *)
(* the change of the status does not go over another commit.               *)
(***************************************************************************)
THEOREM DisabledDeckIsFrozen ==
  ASSUME Overwriters = {}
  PROVE  Spec => FrozenWhileDisabled
<1> DEFINE Step == ~deck.enabled => UNCHANGED <<defs, copies>>
<1>1. IInv /\ [Next]_vars => [Step]_vars
  <2> SUFFICES ASSUME IInv, Next PROVE Step
    OBVIOUS
  <2>1. PICK s \in Sessions : \/ Load(s) \/ Lookup(s) \/ Mutate(s)
                              \/ ClearUndo(s) \/ SetStatus(s) \/ Fail(s)
    BY DEF Next
  <2>2. CASE Mutate(s)
    <3>1. Current(s)
      BY <2>2 DEF Mutate, SavePack, ReplaceComposition, DrawCard, DiscardDrawn,
                  PlayDrawn, UndoLastPlay, RemoveCopy, ResetDeck, Selected,
                  Active, Claim, Current
    <3>2. QED
      BY <3>1 DEF IInv, ViewCurrent
  <2>3. CASE Load(s) \/ Lookup(s) \/ ClearUndo(s) \/ SetStatus(s) \/ Fail(s)
    BY <2>3 DEF Load, LoadRow, LoadDefinitions, LoadCopies, Lookup,
                SelectDrawn, SelectRemoved, SelectUndo, Select, ClearUndo,
                SetStatus, Fail, db
  <2>4. QED
    BY <2>1, <2>2, <2>3
<1>2. QED
  BY <1>1, ClaimedMutations, PTL DEF Spec, FrozenWhileDisabled

-----------------------------------------------------------------------------
(* Counting the copies of a zone by kind.                                  *)

InZone(t, zone) == {i \in DOMAIN t : t[i].zone = zone}

LEMMA CopyKind ==
  ASSUME NEW t \in CopyTable, NEW i \in DOMAIN t
  PROVE  /\ i \in Ids
         /\ Kind(t[i]) \in Kinds
         /\ Kind(t[i])[2] = t[i].golden
         /\ t[i].zone \in Zones
<1>1. i \in Ids /\ t[i] \in Copy
  BY CopyTableDomain
<1>2. QED
  BY <1>1 DEF Copy, Kind, Kinds

LEMMA OfKindFinite ==
  ASSUME NEW t \in CopyTable, NEW zone, NEW k
  PROVE  /\ IsFiniteSet(OfKind(t, zone, k))
         /\ Cardinality(OfKind(t, zone, k)) \in Nat
<1> DEFINE S == OfKind(t, zone, k)
<1>1. S \subseteq 1 .. MaxCopies
  BY CopyTableDomain DEF OfKind, Ids
<1>2. IsFiniteSet(1 .. MaxCopies)
  BY BoundAssumption, FS_Interval
<1> HIDE DEF S
<1>3. IsFiniteSet(S)
  BY <1>1, <1>2, FS_Subset
<1>4. Cardinality(S) \in Nat
  BY <1>3, FS_CardinalityType
<1>5. QED
  BY <1>3, <1>4 DEF S

LEMMA CountType ==
  ASSUME NEW t \in CopyTable, NEW zone
  PROVE  Count(t, zone) \in [Kinds -> Nat]
  BY OfKindFinite DEF Count

(* Zones with the same copies count alike.                                 *)
LEMMA CountSame ==
  ASSUME NEW t, NEW w, NEW zone, InZone(w, zone) = InZone(t, zone),
         \A i \in InZone(t, zone) : Kind(w[i]) = Kind(t[i])
  PROVE  Count(w, zone) = Count(t, zone)
<1>1. \A k : OfKind(w, zone, k) = OfKind(t, zone, k)
  BY DEF OfKind, InZone
<1>2. QED
  BY <1>1 DEF Count

LEMMA CountNone ==
  ASSUME NEW t, NEW zone, InZone(t, zone) = {}
  PROVE  Count(t, zone) = [k \in Kinds |-> 0]
<1>1. \A k : OfKind(t, zone, k) = {}
  BY DEF OfKind, InZone
<1>2. Cardinality({}) = 0
  BY FS_EmptySet
<1>3. QED
  BY <1>1, <1>2 DEF Count

LEMMA OneMore ==
  ASSUME NEW S, IsFiniteSet(S), NEW i, i \notin S
  PROVE  Cardinality(S \cup {i}) = Cardinality(S) + 1
  BY FS_AddElement

(* A copy that comes to a zone adds one of its kind.                       *)
LEMMA CountMore ==
  ASSUME NEW t \in CopyTable, NEW w \in CopyTable, NEW zone, NEW i,
         i \notin InZone(t, zone), InZone(w, zone) = InZone(t, zone) \cup {i},
         \A j \in InZone(t, zone) : Kind(w[j]) = Kind(t[j])
  PROVE  Count(w, zone) = [Count(t, zone) EXCEPT ![Kind(w[i])] = @ + 1]
<1> DEFINE k == Kind(w[i])
           f == Count(t, zone)
           g == Count(w, zone)
<1>1. /\ OfKind(w, zone, k) = OfKind(t, zone, k) \cup {i}
      /\ i \notin OfKind(t, zone, k)
      /\ \A l : l # k => OfKind(w, zone, l) = OfKind(t, zone, l)
  BY DEF OfKind, InZone
<1>2. Cardinality(OfKind(w, zone, k)) = Cardinality(OfKind(t, zone, k)) + 1
  BY <1>1, OfKindFinite, OneMore
<1>3. /\ f = [l \in Kinds |-> Cardinality(OfKind(t, zone, l))]
      /\ g = [l \in Kinds |-> Cardinality(OfKind(w, zone, l))]
  BY DEF Count
<1> HIDE DEF k, f, g
<1>4. k \in Kinds => g[k] = f[k] + 1
  BY <1>2, <1>3
<1>5. \A l \in Kinds \ {k} : g[l] = f[l]
  BY <1>1, <1>3
<1>6. g = [f EXCEPT ![k] = @ + 1]
  BY <1>3, <1>4, <1>5
<1>7. QED
  BY <1>6 DEF f, g, k

(* A copy that leaves a zone takes one of its kind.                        *)
LEMMA CountLess ==
  ASSUME NEW t \in CopyTable, NEW w \in CopyTable, NEW zone, NEW i \in InZone(t, zone),
         InZone(w, zone) = InZone(t, zone) \ {i},
         \A j \in InZone(w, zone) : Kind(w[j]) = Kind(t[j])
  PROVE  /\ Count(t, zone)[Kind(t[i])] > 0
         /\ Count(w, zone) = [Count(t, zone) EXCEPT ![Kind(t[i])] = @ - 1]
<1>1. /\ i \notin InZone(w, zone)
      /\ InZone(t, zone) = InZone(w, zone) \cup {i}
      /\ \A j \in InZone(w, zone) : Kind(t[j]) = Kind(w[j])
  OBVIOUS
<1>2. Count(t, zone) = [Count(w, zone) EXCEPT ![Kind(t[i])] = @ + 1]
  BY ONLY <1>1, t \in CopyTable, w \in CopyTable, CountMore
<1> DEFINE k == Kind(t[i])
           f == Count(t, zone)
           g == Count(w, zone)
<1>3. k \in Kinds
  BY CopyKind DEF InZone
<1>4. f \in [Kinds -> Nat] /\ g \in [Kinds -> Nat]
  BY CountType
<1>5. f = [g EXCEPT ![k] = @ + 1]
  BY <1>2
<1> HIDE DEF k, f, g
<1>6. f[k] > 0 /\ g = [f EXCEPT ![k] = @ - 1]
  <2>1. f[k] = g[k] + 1 /\ g[k] \in Nat /\ \A l \in Kinds \ {k} : g[l] = f[l]
    BY <1>3, <1>4, <1>5
  <2>2. f[k] > 0 /\ g[k] = f[k] - 1
    BY <2>1
  <2>3. QED
    BY <1>4, <2>1, <2>2
<1>7. QED
  BY <1>6 DEF f, g, k

(* The copies of two zones that come together are added up.                *)
LEMMA CountSum ==
  ASSUME NEW t \in CopyTable, NEW w, NEW x, NEW y, x # y,
         InZone(w, x) = InZone(t, x) \cup InZone(t, y),
         \A j \in InZone(w, x) : Kind(w[j]) = Kind(t[j])
  PROVE  Count(w, x) = [k \in Kinds |-> Count(t, x)[k] + Count(t, y)[k]]
<1>1. ASSUME NEW k
      PROVE  Cardinality(OfKind(w, x, k)) =
               Cardinality(OfKind(t, x, k)) + Cardinality(OfKind(t, y, k))
  <2> DEFINE S == OfKind(t, x, k)
             T == OfKind(t, y, k)
  <2>1. OfKind(w, x, k) = S \cup T /\ S \cap T = {}
    BY DEF OfKind, InZone
  <2>2. /\ IsFiniteSet(S) /\ Cardinality(S) \in Nat
        /\ IsFiniteSet(T) /\ Cardinality(T) \in Nat
    BY OfKindFinite
  <2> HIDE DEF S, T
  <2>3. Cardinality(S \cup T) = Cardinality(S) + Cardinality(T) - Cardinality(S \cap T)
    BY <2>2, FS_Union
  <2>4. Cardinality(S \cap T) = 0
    BY <2>1, FS_EmptySet
  <2>5. Cardinality(S \cup T) = Cardinality(S) + Cardinality(T)
    BY <2>2, <2>3, <2>4
  <2>6. QED
    BY <2>1, <2>5 DEF S, T
<1>2. QED
  BY <1>1 DEF Count

(* The table w has one copy of every kind of P more in the deck than t.    *)
Packed(w, t, P) ==
  /\ Count(w, "drawn") = Count(t, "drawn")
  /\ Count(w, "deck") =
       [k \in Kinds |-> IF k \in P THEN Count(t, "deck")[k] + 1
                        ELSE Count(t, "deck")[k]]

(* New rows of different kinds add one of each of their kinds.             *)
LEMMA CountPack ==
  ASSUME NEW t \in CopyTable, NEW h \in 0 .. MaxCopies, Highest(h, t),
         NEW n \in Nat, h + n <= MaxCopies,
         NEW rows \in [1 .. n -> Kinds], IsInjective(rows)
  PROVE  \E P \in SUBSET Kinds : /\ P = {rows[k] : k \in 1 .. n}
                                  /\ Cardinality(P) = n
                                  /\ Packed(Inserted(t, h, rows), t, P)
<1> DEFINE w == Inserted(t, h, rows)
           P == {rows[k] : k \in 1 .. n}
<1>1. \A i \in DOMAIN t : i <= h /\ i \in Nat
  BY CopyTableDomain DEF Highest, Ids
<1>2. /\ DOMAIN w = DOMAIN t \cup {h + k : k \in 1 .. n}
      /\ \A i \in DOMAIN t : w[i] = t[i]
  BY DEF Inserted
<1>3. \A k \in 1 .. n : /\ h + k \in DOMAIN w \ DOMAIN t
                        /\ w[h + k].zone = "deck"
                        /\ Kind(w[h + k]) = rows[k]
  <2> TAKE k \in 1 .. n
  <2>1. h + k \in DOMAIN w /\ h + k \notin DOMAIN t /\ h + k - h = k
    BY <1>1, <1>2
  <2>2. w[h + k] = [card |-> rows[k][1], golden |-> rows[k][2],
                    zone |-> "deck", keyed |-> TRUE]
    BY <2>1 DEF Inserted
  <2>3. rows[k] = <<rows[k][1], rows[k][2]>>
    BY DEF Kinds
  <2>4. QED
    BY <2>1, <2>2, <2>3 DEF Kind
<1> HIDE DEF w
<1>4. Cardinality(P) = n
  <2>1. rows \in Bijection(1 .. n, P)
    BY DEF Bijection, Injection, Surjection, IsInjective
  <2>2. QED
    BY <2>1, FS_CountingElements DEF ExistsBijection
<1>5. Count(w, "drawn") = Count(t, "drawn")
  <2>1. InZone(w, "drawn") = InZone(t, "drawn")
    BY <1>2, <1>3 DEF InZone
  <2>2. \A i \in InZone(t, "drawn") : Kind(w[i]) = Kind(t[i])
    BY <1>2 DEF InZone
  <2>3. QED
    BY <2>1, <2>2, CountSame
<1>6. ASSUME NEW q \in Kinds \ P
      PROVE  OfKind(w, "deck", q) = OfKind(t, "deck", q)
  BY <1>2, <1>3 DEF OfKind
<1>7. ASSUME NEW q \in P
      PROVE  Cardinality(OfKind(w, "deck", q)) = Cardinality(OfKind(t, "deck", q)) + 1
  <2>1. PICK k \in 1 .. n : rows[k] = q
    OBVIOUS
  <2>2. \A l \in 1 .. n : rows[l] = q => l = k
    BY <2>1 DEF IsInjective
  <2>3. /\ OfKind(w, "deck", q) = OfKind(t, "deck", q) \cup {h + k}
        /\ h + k \notin OfKind(t, "deck", q)
    BY <1>2, <1>3, <2>1, <2>2 DEF OfKind
  <2>4. QED
    BY <2>3, OfKindFinite, OneMore
<1> HIDE DEF P
<1>8. Count(w, "deck") =
        [k \in Kinds |-> IF k \in P THEN Count(t, "deck")[k] + 1
                         ELSE Count(t, "deck")[k]]
  BY <1>6, <1>7 DEF Count
<1>9. P \in SUBSET Kinds /\ Packed(w, t, P)
  BY <1>5, <1>8 DEF P, Packed
<1>10. QED
  BY <1>4, <1>9 DEF w, P

-----------------------------------------------------------------------------
(* The refinement of the ledger.                                           *)

(***************************************************************************)
(* The play that can be taken back is one, and its copy is there; a        *)
(* request that is to take a play back looked up the pointer it loaded.    *)
(***************************************************************************)
OnePlay == \A i, j \in Pointers : i = j
PlayThere == \A i \in Pointers : i \in DOMAIN copies /\ copies[i].zone = "destroyed"
UndoOf(s) == pc[s] = "selected" /\ target[s].op = "undo" =>
               target[s].id = view[s].deck.undo
PlayHeld == OnePlay /\ PlayThere /\ \A s \in Sessions : UndoOf(s)

(* A request that has not committed can only lose a pointer.               *)
LEMMA PointersLost ==
  ASSUME NEW s \in Sessions, deck'.undo \in {deck.undo, None},
         deck'.revision = deck.revision,
         \A r \in Sessions \ {s} : view'[r] = view[r] /\ pc'[r] = pc[r],
         Pending(s)' => \/ view'[s].deck.undo = deck.undo
                        \/ Pending(s) /\ view'[s].deck.undo = view[s].deck.undo
  PROVE  Pointers' \subseteq Pointers
<1> SUFFICES ASSUME NEW i \in Pointers' PROVE i \in Pointers
  OBVIOUS
<1>1. i # None
  BY DEF Pointers
<1>2. CASE i = deck'.undo
  BY <1>1, <1>2 DEF Pointers
<1>3. CASE \E r \in Sessions : Pending(r)' /\ i = view'[r].deck.undo
  <2>1. PICK r \in Sessions : Pending(r)' /\ i = view'[r].deck.undo
    BY <1>3
  <2>2. CASE r = s
    BY <1>1, <2>1, <2>2 DEF Pointers
  <2>3. CASE r # s
    <3>1. Pending(r) /\ i = view[r].deck.undo
      BY <2>1, <2>3 DEF Pending, Current
    <3>2. QED
      BY <1>1, <3>1 DEF Pointers
  <2>4. QED
    BY <2>2, <2>3
<1>4. QED
  BY <1>2, <1>3 DEF Pointers

LEMMA LostHeld ==
  ASSUME PlayHeld, copies' = copies, Pointers' \subseteq Pointers
  PROVE  OnePlay' /\ PlayThere'
  BY DEF PlayHeld, OnePlay, PlayThere

(* For the ledger, the chance to take a play back is gone, or nothing is.  *)
LEMMA LostLedger ==
  ASSUME PlayHeld, copies' = copies, deck'.enabled \in BOOLEAN,
         Pointers' \subseteq Pointers
  PROVE  Ledger!Switch
<1>1. CASE Pointers' = Pointers
  <2>1. Undoable' = Undoable
    BY <1>1 DEF Undoable
  <2>2. QED
    BY <2>1 DEF Ledger!Switch
<1>2. CASE Pointers' # Pointers
  <2>1. Pointers' = {}
    BY <1>2 DEF PlayHeld, OnePlay
  <2>2. Undoable' = None
    BY <2>1 DEF Undoable
  <2>3. QED
    BY <2>2 DEF Ledger!Switch
<1>3. QED
  BY <1>1, <1>2

(***************************************************************************)
(* Loading, looking up and failing change nothing the ledger knows of, but *)
(* the last request to hold a pointer that was cleared may lose it.        *)
(***************************************************************************)
LEMMA QuietLedger ==
  ASSUME IInv, PlayHeld, NEW s \in Sessions, Load(s) \/ Lookup(s) \/ Fail(s)
  PROVE  PlayHeld' /\ Ledger!LedgerNext
<1>1. /\ view \in [Sessions -> View] /\ target \in [Sessions -> Target]
      /\ pc \in [Sessions -> {"idle", "row", "defs", "ready", "selected"}]
  BY DEF IInv, TypeOK
<1>2. /\ UNCHANGED db
      /\ \A r \in Sessions \ {s} :
           view'[r] = view[r] /\ pc'[r] = pc[r] /\ target'[r] = target[r]
      /\ Pending(s)' => \/ view'[s].deck.undo = deck.undo
                        \/ Pending(s) /\ view'[s].deck.undo = view[s].deck.undo
      /\ UndoOf(s)'
  <2>1. CASE LoadRow(s)
    BY <1>1, <2>1 DEF LoadRow, View, UndoOf
  <2>2. CASE LoadDefinitions(s) \/ LoadCopies(s)
    <3>1. /\ UNCHANGED <<db, target>> /\ view'[s].deck = view[s].deck
          /\ pc[s] # "idle" /\ pc'[s] \in {"defs", "ready"}
          /\ \A r \in Sessions \ {s} : view'[r] = view[r] /\ pc'[r] = pc[r]
      BY <1>1, <2>2 DEF LoadDefinitions, LoadCopies, View
    <3>2. QED
      BY <3>1 DEF db, Pending, Current, UndoOf
  <2>3. CASE Lookup(s)
    <3>1. \E op \in {"discard", "play", "remove", "undo", "clear"} : \E i :
            /\ Select(s, op, i)
            /\ op = "undo" => i = view[s].deck.undo
      <4>1. CASE SelectDrawn(s) \/ SelectRemoved(s)
        BY <4>1 DEF SelectDrawn, SelectRemoved
      <4>2. CASE SelectUndo(s)
        BY <4>2 DEF SelectUndo
      <4>3. QED
        BY <2>3, <4>1, <4>2 DEF Lookup
    <3>2. PICK op, i : Select(s, op, i) /\ (op = "undo" => i = view[s].deck.undo)
      BY <3>1
    <3>3. /\ UNCHANGED <<db, view>> /\ pc[s] = "ready"
          /\ \A r \in Sessions \ {s} : pc'[r] = pc[r] /\ target'[r] = target[r]
          /\ target'[s].op = op /\ target'[s].id = i
      BY <1>1, <3>2 DEF Select, Active
    <3>4. QED
      BY <3>2, <3>3 DEF db, Pending, Current, UndoOf
  <2>4. CASE Fail(s)
    BY <1>1, <2>4 DEF Fail, Close, Pending, UndoOf
  <2>5. QED
    BY <2>1, <2>2, <2>3, <2>4 DEF Load
<1>3. deck' = deck /\ copies' = copies
  BY <1>2 DEF db
<1>4. Pointers' \subseteq Pointers
  BY <1>2, <1>3, PointersLost
<1>5. \A r \in Sessions : UndoOf(r)'
  BY <1>2 DEF PlayHeld, UndoOf
<1>6. PlayHeld'
  BY <1>3, <1>4, <1>5, LostHeld DEF PlayHeld
<1>7. deck'.enabled \in BOOLEAN
  BY <1>3 DEF IInv, TypeOK, Row
<1>8. QED
  BY <1>3, <1>4, <1>6, <1>7, LostLedger DEF Ledger!LedgerNext

(* Clearing the pointer is, at most, such a loss.                          *)
LEMMA ClearLedger ==
  ASSUME IInv, PlayHeld, NEW s \in Sessions, ClearUndo(s)
  PROVE  PlayHeld' /\ Ledger!LedgerNext
<1>1. /\ deck'.undo = None /\ deck'.revision = deck.revision
      /\ deck'.enabled \in BOOLEAN /\ copies' = copies
  BY DEF ClearUndo, IInv, TypeOK, Row
<1>2. /\ \A r \in Sessions \ {s} :
           view'[r] = view[r] /\ pc'[r] = pc[r] /\ target'[r] = target[r]
      /\ pc'[s] = "idle"
  BY DEF ClearUndo, Close, IInv, TypeOK
<1>3. Pointers' \subseteq Pointers
  BY <1>1, <1>2, PointersLost DEF Pending
<1>4. \A r \in Sessions : UndoOf(r)'
  BY <1>2 DEF PlayHeld, UndoOf
<1>5. PlayHeld'
  BY <1>1, <1>3, <1>4, LostHeld DEF PlayHeld
<1>6. QED
  BY <1>1, <1>3, <1>5, LostLedger DEF Ledger!LedgerNext

(***************************************************************************)
(* A claimed transaction leaves no other request that could still claim,   *)
(* so that the play it commits as the last one is the only one left.       *)
(***************************************************************************)
LEMMA CommitLedger ==
  ASSUME IInv, PlayHeld, NEW s \in Sessions, Claim(s), Current(s),
         NEW undo, NEW d, Commit(s, undo, d), IInv'
  PROVE  /\ PlayHeld'
         /\ deck.enabled /\ deck'.enabled = deck.enabled
         /\ copies' = d.copies
         /\ undo = None => Undoable' = None
         /\ undo # None => Undoable' = Kind(d.copies[undo])
<1>1. /\ deck'.undo = undo /\ deck'.revision = deck.revision + 1
      /\ deck'.enabled = deck.enabled /\ copies' = d.copies
      /\ deck.revision \in Nat
  BY DEF Commit, Claim, IInv, TypeOK, Row
<1>2. /\ pc'[s] = "idle"
      /\ \A r \in Sessions \ {s} : view'[r] = view[r] /\ pc'[r] = pc[r]
                                   /\ target'[r] = target[r]
  BY DEF Commit, Close, IInv, TypeOK
<1>3. \A r \in Sessions : view[r].deck.revision <= deck.revision
                          /\ view[r].deck.revision \in Nat
  BY DEF IInv, ViewCurrent, TypeOK, View, Row
<1>4. \A r \in Sessions : ~Pending(r)'
  BY <1>1, <1>2, <1>3 DEF Pending, Current
<1>5. Pointers' = {undo} \ {None}
  BY <1>1, <1>4 DEF Pointers
<1>6. PlayHeld'
  <2>1. OnePlay'
    BY <1>5 DEF OnePlay
  <2>2. PlayThere'
    BY <1>1, <1>5 DEF PlayThere, IInv, UndoIsDestroyedNormal
  <2>3. \A r \in Sessions : UndoOf(r)'
    BY <1>2 DEF PlayHeld, UndoOf
  <2>4. QED
    BY <2>1, <2>2, <2>3 DEF PlayHeld
<1>7. /\ undo = None => Undoable' = None
      /\ undo # None => Undoable' = Kind(d.copies[undo])
  <2>1. CASE undo = None
    BY <1>5, <2>1 DEF Undoable
  <2>2. CASE undo # None
    <3>1. (CHOOSE i \in Pointers' : TRUE) = undo /\ Pointers' # {}
      BY <1>5, <2>2
    <3>2. QED
      BY <1>1, <2>2, <3>1 DEF Undoable
  <2>3. QED
    BY <2>1, <2>2
<1>8. deck.enabled
  BY DEF IInv, ViewCurrent
<1>9. QED
  BY <1>1, <1>6, <1>7, <1>8

(* One card of kind k fewer, or one more.                                  *)
Fewer(f, g, k) == f[k] > 0 /\ g = [f EXCEPT ![k] = @ - 1]
More(f, g, k) == g = [f EXCEPT ![k] = @ + 1]

(* A copy that changes its zone.                                           *)
LEMMA WrittenCounts ==
  ASSUME NEW c \in Contents, NEW i \in DOMAIN c.copies,
         NEW from, c.copies[i].zone = from, NEW zone, from # zone,
         NEW d, Written(d, c, i, zone, FALSE)
  PROVE  /\ Fewer(Count(c.copies, from), Count(d.copies, from), Kind(c.copies[i]))
         /\ More(Count(c.copies, zone), Count(d.copies, zone), Kind(c.copies[i]))
         /\ Kind(d.copies[i]) = Kind(c.copies[i])
<1> DEFINE t == c.copies
           w == d.copies
<1>1. t \in CopyTable /\ w \in CopyTable
  BY DEF Written, Contents
<1>2. /\ DOMAIN w = DOMAIN t
      /\ \A j \in DOMAIN t : /\ Kind(w[j]) = Kind(t[j])
                             /\ j # i => w[j].zone = t[j].zone
      /\ w[i].zone = zone /\ t[i].zone = from
  BY DEF Written, Kind
<1>3. Kind(t[i]) = Kind(w[i])
  BY <1>2
<1> HIDE DEF t, w
<1>4. /\ i \in InZone(t, from)
      /\ InZone(w, from) = InZone(t, from) \ {i}
      /\ \A j \in InZone(w, from) : Kind(w[j]) = Kind(t[j])
  BY <1>2 DEF InZone, t
<1>5. /\ i \notin InZone(t, zone)
      /\ InZone(w, zone) = InZone(t, zone) \cup {i}
      /\ \A j \in InZone(t, zone) : Kind(w[j]) = Kind(t[j])
  BY <1>2 DEF InZone, t
<1>7. Fewer(Count(t, from), Count(w, from), Kind(t[i]))
  BY ONLY <1>1, <1>4, CountLess DEF Fewer
<1>8. More(Count(t, zone), Count(w, zone), Kind(t[i]))
  <2>1. More(Count(t, zone), Count(w, zone), Kind(w[i]))
    BY ONLY <1>1, <1>5, CountMore DEF More
  <2>2. QED
    BY ONLY <1>3, <2>1
<1>9. QED
  BY <1>3, <1>7, <1>8 DEF t, w

(* Forgetting the last play leaves the pile and the hand as they are.      *)
LEMMA FinalizedCounts ==
  ASSUME IInv, NEW s \in Sessions, Current(s), pc[s] \in {"ready", "selected"},
         NEW zone \in {"deck", "drawn"}
  PROVE  Count(Finalized(s).copies, zone) = Count(copies, zone)
<1> DEFINE t == Finalized(s).copies
<1>1. /\ DOMAIN t \subseteq DOMAIN copies
      /\ \A i \in DOMAIN t : t[i] = copies[i]
      /\ \A i \in DOMAIN copies : copies[i].zone # "destroyed" => i \in DOMAIN t
  BY FinalizedSound DEF Part
<1> HIDE DEF t
<1>2. InZone(t, zone) = InZone(copies, zone)
      /\ \A i \in InZone(copies, zone) : Kind(t[i]) = Kind(copies[i])
  BY <1>1 DEF InZone
<1>3. QED
  BY <1>2, CountSame DEF t

(* Every claimed handler is one operation of the ledger.                   *)
LEMMA MutateLedger ==
  ASSUME IInv, PlayHeld, NEW s \in Sessions, Mutate(s)
  PROVE  PlayHeld' /\ Ledger!LedgerNext
<1> DEFINE c == Finalized(s)
           i == target[s].id
           t == c.copies
<1>1. Claim(s) /\ Current(s) /\ pc[s] \in {"ready", "selected"}
  BY DEF Mutate, SavePack, ReplaceComposition, DrawCard, DiscardDrawn,
         PlayDrawn, UndoLastPlay, RemoveCopy, ResetDeck, Selected, Active,
         Claim, Current
<1>2. /\ Sound(c)
      /\ Part(c)
      /\ \A j \in DOMAIN copies : copies[j].zone # "destroyed" => j \in DOMAIN t
  BY <1>1, FinalizedSound
<1>3. FinalizedUndo(s) = None /\ \A j \in DOMAIN copies : Seen(s, j) = copies[j]
  BY <1>1, CurrentView
<1>4. \A j \in DOMAIN t : Seen(s, j) = t[j]
  BY <1>2, <1>3 DEF Part
<1>5. t \in CopyTable /\ c \in Contents
  BY <1>2 DEF Sound, Contents
<1>6. /\ Count(t, "deck") = Count(copies, "deck")
      /\ Count(t, "drawn") = Count(copies, "drawn")
  BY <1>1, FinalizedCounts
<1>7. IInv'
  BY MutateSound
<1>8. ASSUME NEW undo, NEW d, Commit(s, undo, d)
      PROVE  /\ PlayHeld'
             /\ deck.enabled /\ deck'.enabled = deck.enabled
             /\ copies' = d.copies
             /\ undo = None => Undoable' = None
             /\ undo # None => Undoable' = Kind(d.copies[undo])
  BY <1>1, <1>7, <1>8, CommitLedger
<1>9. /\ "deck" \in Zones /\ "drawn" \in Zones /\ "destroyed" \in Zones
      /\ TRUE \in BOOLEAN /\ FALSE \in BOOLEAN
  BY DEF Zones
<1>10. ASSUME pc[s] = "selected", target[s].op # "clear"
       PROVE  Suitable(target[s])
  BY <1>1, <1>10 DEF IInv, TargetCurrent
<1> HIDE DEF c, i, t
<1>11. CASE SavePack(s)
  <2>1. PICK pack \in [1 .. PackSize -> Cards \X {FALSE}], h \in 0 .. MaxCopies :
          /\ IsInjective(pack)
          /\ Highest(h, t)
          /\ h + PackSize <= MaxCopies
          /\ Commit(s, FinalizedUndo(s),
                    [defs |-> c.defs \cup CardsOf(pack),
                     copies |-> Inserted(t, h, pack)])
    BY <1>11 DEF SavePack, c, t
  <2> DEFINE w == Inserted(t, h, pack)
             f == Count(copies, "deck")
  <2>2. pack \in [1 .. PackSize -> Kinds] /\ PackSize \in Nat
    BY BoundAssumption DEF Kinds
  <2>3. PICK P \in SUBSET Kinds :
          /\ P = {pack[k] : k \in 1 .. PackSize}
          /\ Cardinality(P) = PackSize
          /\ Packed(w, t, P)
    BY <1>5, <2>1, <2>2, CountPack
  <2>4. PlayHeld' /\ deck.enabled /\ deck'.enabled = deck.enabled
        /\ copies' = w /\ Undoable' = None
    BY <1>3, <1>8, <2>1
  <2>5. P \in SUBSET {k \in Kinds : ~k[2]}
    BY <2>1, <2>3
  <2> HIDE DEF w
  <2>6. /\ Count(copies, "drawn")' = Count(copies, "drawn")
        /\ Count(copies, "deck")' = [k \in Kinds |-> IF k \in P THEN f[k] + 1 ELSE f[k]]
    BY <1>6, <2>3, <2>4 DEF Packed
  <2> HIDE DEF f
  <2>7. Ledger!AddPack
    <3>1. Ledger!Cardinality(P) = PackSize
      BY <2>3 DEF Ledger!Cardinality, Cardinality
    <3>2. QED
      BY <2>4, <2>5, <2>6, <3>1
         DEF Ledger!AddPack, Ledger!Golden, Ledger!Kinds, Kinds, f
  <2>8. QED
    BY <2>4, <2>7 DEF Ledger!LedgerNext, Ledger!Mutation
<1>12. CASE ReplaceComposition(s)
  <2> DEFINE rest == Without(t, Joined(c, Zones))
  <2>1. PICK n \in 0 .. MaxCopies, h \in 0 .. MaxCopies :
          /\ Highest(h, rest)
          /\ h + n <= MaxCopies
          /\ \E rows \in [1 .. n -> Cards \X BOOLEAN] :
               Commit(s, FinalizedUndo(s),
                 [defs |-> CardsOf(rows), copies |-> Inserted(rest, h, rows)])
    BY <1>12 DEF ReplaceComposition, c, t
  <2>2. PICK rows \in [1 .. n -> Cards \X BOOLEAN] :
          Commit(s, FinalizedUndo(s),
            [defs |-> CardsOf(rows), copies |-> Inserted(rest, h, rows)])
    BY <2>1
  <2>3. \A j \in DOMAIN t : j \in Joined(c, Zones)
    <3> TAKE j \in DOMAIN t
    <3>1. t[j] \in Copy
      BY <1>5, CopyTableDomain
    <3>2. QED
      BY <1>2, <3>1 DEF Joined, Sound, Copy, t
  <2>4. rest \in CopyTable /\ DOMAIN rest = {}
    <3>1. rest \in CopyTable /\ DOMAIN rest = DOMAIN t \ Joined(c, Zones)
      BY <1>5, WithoutTable
    <3>2. QED
      BY <2>3, <3>1
  <2> DEFINE w == Inserted(rest, h, rows)
  <2> HIDE DEF rest
  <2>5. Extends(w, rest, rows)
    BY <2>1, <2>4, InsertedTable
  <2> HIDE DEF w
  <2>6. w \in CopyTable /\ InZone(w, "drawn") = {}
    BY <2>4, <2>5 DEF Extends, InZone
  <2>7. /\ Count(w, "deck") \in [Kinds -> Nat]
        /\ Count(w, "drawn") = [k \in Kinds |-> 0]
    BY <2>6, CountType, CountNone
  <2>8. PlayHeld' /\ deck.enabled /\ deck'.enabled = deck.enabled
        /\ copies' = w /\ Undoable' = None
    BY <1>3, <1>8, <2>2 DEF w
  <2>9. Ledger!Replace
    BY <2>7, <2>8 DEF Ledger!Replace, Ledger!Empty, Ledger!Kinds, Kinds
  <2>10. QED
    BY <2>8, <2>9 DEF Ledger!LedgerNext, Ledger!Mutation
<1>13. CASE DrawCard(s)
  <2>1. PICK j \in DOMAIN t :
          /\ OnTop(c, j)
          /\ Commit(s, FinalizedUndo(s),
                    [c EXCEPT !.copies = Write(s, c.copies, j, "drawn", FALSE)])
    BY <1>13 DEF DrawCard, c, t
  <2> DEFINE d == [c EXCEPT !.copies = Write(s, c.copies, j, "drawn", FALSE)]
  <2>2. Written(d, c, j, "drawn", FALSE)
    BY <1>2, <1>4, <1>9, WriteSound DEF t
  <2>3. Commit(s, None, d)
    BY <1>3, <2>1
  <2> HIDE DEF d
  <2>4. j \in DOMAIN t /\ t[j].zone = "deck"
    BY <2>1 DEF OnTop, Joined, t
  <2>5. PICK k \in Kinds : k = Kind(t[j])
    BY <1>5, CopyKind
  <2>6. /\ Fewer(Count(t, "deck"), Count(d.copies, "deck"), k)
        /\ More(Count(t, "drawn"), Count(d.copies, "drawn"), k)
    BY ONLY <1>5, <2>2, <2>4, <2>5, WrittenCounts DEF t
  <2>7. PlayHeld' /\ deck.enabled /\ deck'.enabled = deck.enabled
        /\ copies' = d.copies /\ Undoable' = None
    BY <1>8, <2>3
  <2>8. Ledger!Draw(k)
    BY ONLY <1>6, <2>6, <2>7
       DEF Ledger!Draw, Ledger!Take, Ledger!Put, Fewer, More
  <2>9. QED
    BY <2>7, <2>8 DEF Ledger!LedgerNext, Ledger!Mutation, Ledger!Kinds, Kinds
<1>14. CASE DiscardDrawn(s)
  <2>1. i \in DOMAIN copies /\ copies[i].zone = "drawn"
    BY <1>10, <1>14 DEF DiscardDrawn, Selected, Active, Suitable, i
  <2>2. i \in DOMAIN t /\ t[i].zone = "drawn"
    BY <1>2, <2>1 DEF Part, t
  <2>3. Seen(s, i).keyed = FALSE
    BY <1>2, <1>4, <2>2 DEF Sound, t
  <2> DEFINE d == [c EXCEPT !.copies = Write(s, c.copies, i, "deck", FALSE)]
             e == Reshuffled(d)
  <2>4. Commit(s, None, e)
    BY <1>3, <1>14, <2>2, <2>3 DEF DiscardDrawn, c, i, t
  <2>5. Written(d, c, i, "deck", FALSE)
    BY <1>2, <1>4, <1>9, <2>2, WriteSound DEF t
  <2> HIDE DEF d
  <2>6. /\ DOMAIN e.copies = DOMAIN d.copies
        /\ \A j \in DOMAIN d.copies : /\ Kind(e.copies[j]) = Kind(d.copies[j])
                                      /\ e.copies[j].zone = d.copies[j].zone
    BY <2>5, ReshuffledContents DEF Written, Kind
  <2> HIDE DEF e
  <2>7. \A z : /\ InZone(e.copies, z) = InZone(d.copies, z)
               /\ \A j \in InZone(d.copies, z) : Kind(e.copies[j]) = Kind(d.copies[j])
    BY <2>6 DEF InZone
  <2>8. \A z : Count(e.copies, z) = Count(d.copies, z)
    BY <2>7, CountSame
  <2>9. PICK k \in Kinds : k = Kind(t[i])
    BY <1>5, <2>2, CopyKind
  <2>10. /\ Fewer(Count(t, "drawn"), Count(d.copies, "drawn"), k)
         /\ More(Count(t, "deck"), Count(d.copies, "deck"), k)
    BY ONLY <1>5, <2>2, <2>5, <2>9, WrittenCounts DEF t
  <2>11. PlayHeld' /\ deck.enabled /\ deck'.enabled = deck.enabled
         /\ copies' = e.copies /\ Undoable' = None
    BY <1>8, <2>4
  <2>12. Ledger!Discard(k)
    BY ONLY <1>6, <2>8, <2>10, <2>11
       DEF Ledger!Discard, Ledger!Take, Ledger!Put, Fewer, More
  <2>13. QED
    BY <2>11, <2>12 DEF Ledger!LedgerNext, Ledger!Mutation, Ledger!Kinds, Kinds
<1>15. CASE PlayDrawn(s)
  <2>1. i \in DOMAIN copies /\ copies[i].zone = "drawn" /\ ~copies[i].golden
    BY <1>10, <1>15 DEF PlayDrawn, Selected, Active, Suitable, i
  <2>2. i \in DOMAIN t /\ t[i].zone = "drawn" /\ ~t[i].golden
    BY <1>2, <2>1 DEF Part, t
  <2> DEFINE d == [c EXCEPT !.copies = Write(s, c.copies, i, "destroyed", FALSE)]
  <2>3. Commit(s, i, d)
    BY <1>15, <2>2 DEF PlayDrawn, c, i, t
  <2>4. Written(d, c, i, "destroyed", FALSE)
    BY <1>2, <1>4, <1>9, <2>2, WriteSound DEF t
  <2> HIDE DEF d
  <2>5. PICK k \in Kinds : k = Kind(t[i])
    BY <1>5, <2>2, CopyKind
  <2>6. ~k[2] /\ i # None
    BY <1>5, <2>2, <2>5, CopyKind, BoundAssumption DEF Ids
  <2>7. /\ Fewer(Count(t, "drawn"), Count(d.copies, "drawn"), k)
        /\ Count(d.copies, "deck") = Count(t, "deck")
        /\ Kind(d.copies[i]) = k
    <3>1. /\ Fewer(Count(t, "drawn"), Count(d.copies, "drawn"), Kind(t[i]))
          /\ Kind(d.copies[i]) = Kind(t[i])
      BY ONLY <1>5, <2>2, <2>4, WrittenCounts DEF t
    <3>2. Count(d.copies, "deck") = Count(t, "deck")
      <4>1. /\ InZone(d.copies, "deck") = InZone(t, "deck")
            /\ \A j \in InZone(t, "deck") : Kind(d.copies[j]) = Kind(t[j])
        BY <2>2, <2>4 DEF Written, InZone, t
      <4>2. QED
        BY ONLY <4>1, CountSame
    <3>3. QED
      BY ONLY <2>5, <3>1, <3>2
  <2>8. PlayHeld' /\ deck.enabled /\ deck'.enabled = deck.enabled
        /\ copies' = d.copies /\ Undoable' = k
    BY <1>8, <2>3, <2>6, <2>7
  <2>9. Ledger!Play(k)
    BY ONLY <1>6, <2>6, <2>7, <2>8
       DEF Ledger!Play, Ledger!Take, Ledger!Golden, Fewer
  <2>10. QED
    BY <2>8, <2>9 DEF Ledger!LedgerNext, Ledger!Mutation, Ledger!Kinds, Kinds
<1>16. CASE UndoLastPlay(s)
  <2>1. i \in DOMAIN copies /\ copies[i].zone = "destroyed" /\ i = view[s].deck.undo
    BY <1>10, <1>16 DEF UndoLastPlay, Selected, Active, Suitable, PlayHeld, UndoOf, i
  <2>2. Sound(Content) /\ Content.copies = copies /\ Content \in Contents
    BY ContentSound DEF Sound
  <2> DEFINE d == [Content EXCEPT !.copies = Write(s, Content.copies, i, "drawn", FALSE)]
  <2>3. Commit(s, None, d)
    BY <1>16, <2>1, <2>2 DEF UndoLastPlay, i
  <2>4. Written(d, Content, i, "drawn", FALSE)
    BY <1>3, <1>9, <2>1, <2>2, WriteSound
  <2> HIDE DEF d
  <2>5. PICK k \in Kinds : k = Kind(copies[i])
    BY <2>1, CopyKind DEF IInv, TypeOK
  <2>6. i # None
    BY <2>1, CopyKind, BoundAssumption DEF IInv, TypeOK, Ids
  <2>7. Undoable = k
    <3>1. i \in Pointers
      BY <1>1, <2>1, <2>6 DEF Pointers, Pending
    <3>2. Pointers = {i}
      BY <3>1 DEF PlayHeld, OnePlay
    <3>3. QED
      BY <2>5, <3>2 DEF Undoable
  <2>8. /\ More(Count(copies, "drawn"), Count(d.copies, "drawn"), k)
        /\ Count(d.copies, "deck") = Count(copies, "deck")
    <3>1. More(Count(copies, "drawn"), Count(d.copies, "drawn"), Kind(copies[i]))
      BY ONLY <2>1, <2>2, <2>4, WrittenCounts
    <3>2. Count(d.copies, "deck") = Count(copies, "deck")
      <4>1. /\ InZone(d.copies, "deck") = InZone(copies, "deck")
            /\ \A j \in InZone(copies, "deck") : Kind(d.copies[j]) = Kind(copies[j])
        BY <2>1, <2>2, <2>4 DEF Written, InZone
      <4>2. QED
        BY ONLY <4>1, CountSame
    <3>3. QED
      BY ONLY <2>5, <3>1, <3>2
  <2>9. PlayHeld' /\ deck.enabled /\ deck'.enabled = deck.enabled
        /\ copies' = d.copies /\ Undoable' = None
    BY <1>8, <2>3
  <2>10. Ledger!TakeBack(k)
    BY ONLY <2>7, <2>8, <2>9 DEF Ledger!TakeBack, Ledger!Put, More
  <2>11. QED
    BY <2>9, <2>10 DEF Ledger!LedgerNext, Ledger!Mutation, Ledger!Kinds, Kinds
<1>17. CASE RemoveCopy(s)
  <2>1. i \in DOMAIN copies /\ copies[i].zone = "deck"
    BY <1>10, <1>17 DEF RemoveCopy, Selected, Active, Suitable, i
  <2>2. i \in DOMAIN t /\ t[i].zone = "deck"
    BY <1>2, <2>1 DEF Part, t
  <2> DEFINE w == Deleted(s, c, i).copies
  <2>3. Commit(s, None, Deleted(s, c, i))
    BY <1>3, <1>17 DEF RemoveCopy, c, i
  <2>4. DOMAIN w = DOMAIN t \ {i} /\ w \in CopyTable
    BY <1>1, <1>2, <2>2, DeletedSound DEF t, Sound, Contents
  <2>5. \A j \in DOMAIN w : w[j] = t[j]
    BY <1>5, DeletedContents DEF t
  <2> HIDE DEF w
  <2>6. /\ i \in InZone(t, "deck")
        /\ InZone(w, "deck") = InZone(t, "deck") \ {i}
        /\ \A j \in InZone(w, "deck") : Kind(w[j]) = Kind(t[j])
        /\ InZone(w, "drawn") = InZone(t, "drawn")
        /\ \A j \in InZone(t, "drawn") : Kind(w[j]) = Kind(t[j])
    BY <2>2, <2>4, <2>5 DEF InZone
  <2>7. PICK k \in Kinds : k = Kind(t[i])
    BY <1>5, <2>2, CopyKind
  <2>8. Fewer(Count(t, "deck"), Count(w, "deck"), k)
    <3>1. Fewer(Count(t, "deck"), Count(w, "deck"), Kind(t[i]))
      BY ONLY <1>5, <2>4, <2>6, CountLess DEF Fewer
    <3>2. QED
      BY ONLY <2>7, <3>1
  <2>9. Count(w, "drawn") = Count(t, "drawn")
    BY ONLY <2>6, CountSame
  <2>10. PlayHeld' /\ deck.enabled /\ deck'.enabled = deck.enabled
         /\ copies' = w /\ Undoable' = None
    BY <1>8, <2>3 DEF w
  <2>11. Ledger!Remove(k)
    BY ONLY <1>6, <2>8, <2>9, <2>10 DEF Ledger!Remove, Ledger!Take, Fewer
  <2>12. QED
    BY <2>10, <2>11 DEF Ledger!LedgerNext, Ledger!Mutation, Ledger!Kinds, Kinds
<1>18. CASE ResetDeck(s)
  <2> DEFINE w == Restocked(s, c).copies
  <2>1. Commit(s, None, Restocked(s, c))
    BY <1>3, <1>18 DEF ResetDeck, c
  <2>2. \A j \in DOMAIN t : j \in Joined(c, {"deck", "drawn"}) <=> t[j].zone \in {"deck", "drawn"}
    BY <1>2 DEF Joined, Sound, t
  <2>3. \A j \in DOMAIN t : Merge("deck", Seen(s, j).zone, t[j].zone) = "deck"
    BY <1>4 DEF Merge
  <2>4. /\ DOMAIN w = DOMAIN t
        /\ \A j \in DOMAIN t :
             /\ Kind(w[j]) = Kind(t[j])
             /\ w[j].zone = IF j \in Joined(c, {"deck", "drawn"})
                            THEN Merge("deck", Seen(s, j).zone, t[j].zone)
                            ELSE t[j].zone
    <3>1. /\ DOMAIN w = DOMAIN t
          /\ \A j \in DOMAIN t : w[j].card = t[j].card /\ w[j].golden = t[j].golden
      BY ONLY <1>5, RestockedContents DEF t
    <3>2. \A j \in DOMAIN t :
            w[j].zone = IF j \in Joined(c, {"deck", "drawn"})
                        THEN Merge("deck", Seen(s, j).zone, t[j].zone)
                        ELSE t[j].zone
      BY ONLY <1>5, RestockedContents DEF t
    <3> HIDE DEF w
    <3>3. \A j \in DOMAIN t : Kind(w[j]) = Kind(t[j])
      BY ONLY <3>1 DEF Kind
    <3>4. QED
      BY ONLY <3>1, <3>2, <3>3
  <2> HIDE DEF w
  <2>5. \A j \in DOMAIN t :
          w[j].zone = IF t[j].zone \in {"deck", "drawn"} THEN "deck" ELSE t[j].zone
    BY <2>2, <2>3, <2>4
  <2>6. /\ InZone(w, "deck") = InZone(t, "deck") \cup InZone(t, "drawn")
        /\ \A j \in InZone(w, "deck") : Kind(w[j]) = Kind(t[j])
        /\ InZone(w, "drawn") = {}
    BY <2>4, <2>5 DEF InZone
  <2>7. Count(w, "drawn") = [k \in Kinds |-> 0]
    BY <2>6, CountNone
  <2>8. Count(w, "deck") = [k \in Kinds |-> Count(t, "deck")[k] + Count(t, "drawn")[k]]
    BY <1>5, <2>6, CountSum
  <2>9. PlayHeld' /\ deck.enabled /\ deck'.enabled = deck.enabled
        /\ copies' = w /\ Undoable' = None
    BY <1>8, <2>1 DEF w
  <2>10. Ledger!Reset
    BY <1>6, <2>7, <2>8, <2>9 DEF Ledger!Reset, Ledger!Empty, Ledger!Kinds, Kinds
  <2>11. QED
    BY <2>9, <2>10 DEF Ledger!LedgerNext, Ledger!Mutation
<1>19. QED
  BY <1>11, <1>12, <1>13, <1>14, <1>15, <1>16, <1>17, <1>18 DEF Mutate


(* A change of the status takes the revision, and with it the chance to    *)
(* take back a play whose pointer was cleared.                             *)
LEMMA StatusLedger ==
  ASSUME IInv, PlayHeld, Overwriters = {}, NEW s \in Sessions, SetStatus(s)
  PROVE  PlayHeld' /\ Ledger!LedgerNext
<1>1. /\ TypeOK' /\ Close(s) /\ copies' = copies
      /\ deck'.undo = deck.undo
      /\ \A r \in Sessions : ~Current(r)'
  BY StatusFresh
<1>2. Pointers' = {deck.undo} \ {None}
  BY <1>1 DEF Pointers, Pending
<1>3. Pointers' \subseteq Pointers
  BY <1>2 DEF Pointers
<1>4. \A r \in Sessions : UndoOf(r)'
  BY <1>1 DEF PlayHeld, UndoOf, Close, IInv, TypeOK
<1>5. PlayHeld'
  BY <1>1, <1>3, <1>4, LostHeld DEF PlayHeld
<1>6. deck'.enabled \in BOOLEAN
  BY <1>1 DEF TypeOK, Row
<1>7. QED
  BY <1>1, <1>3, <1>5, <1>6, LostLedger DEF Ledger!LedgerNext

LEMMA StutterLedger ==
  ASSUME PlayHeld, UNCHANGED vars
  PROVE  PlayHeld' /\ [Ledger!LedgerNext]_(Ledger!ledger)
<1>1. /\ deck' = deck /\ copies' = copies
      /\ pc' = pc /\ view' = view /\ target' = target
  BY DEF vars
<1>2. Pointers' = Pointers
  BY <1>1 DEF Pointers, Pending, Current
<1>3. PlayHeld'
  BY <1>1, <1>2, LostHeld DEF PlayHeld, UndoOf
<1>4. Undoable' = Undoable
  BY <1>1, <1>2 DEF Undoable
<1>5. QED
  BY <1>1, <1>3, <1>4 DEF Ledger!ledger

LEMMA InitLedger ==
  ASSUME Init
  PROVE  PlayHeld /\ Ledger!LedgerInit
<1>1. /\ deck.undo = None /\ deck.enabled \in BOOLEAN
      /\ copies = NoCopies /\ pc = [s \in Sessions |-> "idle"]
  <2>1. CASE deck = Unconfigured
    BY <2>1 DEF Init, Unconfigured
  <2>2. CASE deck = NewDeck
    BY <2>2 DEF Init, NewDeck
  <2>3. QED
    BY <2>1, <2>2 DEF Init
<1>2. Pointers = {}
  BY <1>1 DEF Pointers, Pending
<1>3. PlayHeld
  BY <1>1, <1>2 DEF PlayHeld, OnePlay, PlayThere, UndoOf
<1>4. Undoable = None
  BY <1>2 DEF Undoable
<1>5. /\ Count(copies, "deck") = [k \in Kinds |-> 0]
      /\ Count(copies, "drawn") = [k \in Kinds |-> 0]
  BY <1>1, CountNone DEF InZone, NoCopies
<1>6. QED
  BY <1>1, <1>3, <1>4, <1>5
     DEF Ledger!LedgerInit, Ledger!Empty, Ledger!Kinds, Kinds

(* Every step keeps the play that can be taken back, and is one of the     *)
(* ledger's.                                                               *)
LEMMA LedgerStep ==
  ASSUME IInv, PlayHeld, Overwriters = {}, [Next]_vars
  PROVE  PlayHeld' /\ [Ledger!LedgerNext]_(Ledger!ledger)
<1>1. CASE UNCHANGED vars
  BY <1>1, StutterLedger
<1>2. CASE Next
  <2>1. PICK s \in Sessions : \/ Load(s) \/ Lookup(s) \/ Mutate(s)
                              \/ ClearUndo(s) \/ SetStatus(s) \/ Fail(s)
    BY <1>2 DEF Next
  <2>2. QED
    BY <2>1, QuietLedger, MutateLedger, ClearLedger, StatusLedger
<1>3. QED
  BY <1>1, <1>2

THEOREM PlayKept ==
  ASSUME Overwriters = {}
  PROVE  Spec => []PlayHeld
<1>1. Init => PlayHeld
  BY InitLedger
<1>2. IInv /\ PlayHeld /\ [Next]_vars => PlayHeld'
  BY LedgerStep
<1>3. QED
  BY <1>1, <1>2, ClaimedMutations, PTL DEF Spec

(***************************************************************************)
(* However requests interleave, each is one operation of the ledger on the *)
(* deck as it is when the request commits, or no operation at all, while   *)
(* no change of the status goes over another commit.                       *)
(***************************************************************************)
THEOREM DeckImplementsLedger ==
  ASSUME Overwriters = {}
  PROVE  Spec => ImplementsLedger
<1> DEFINE LStep == [Ledger!LedgerNext]_(Ledger!ledger)
<1>1. Init => Ledger!LedgerInit
  BY InitLedger
<1>2. IInv /\ PlayHeld /\ [Next]_vars => LStep
  BY LedgerStep
<1>3. QED
  BY <1>1, <1>2, ClaimedMutations, PlayKept, PTL
     DEF Spec, ImplementsLedger, Ledger!LedgerSpec

-----------------------------------------------------------------------------
(* Undo: what a mutation leaves in the destroyed zone.                     *)

(* What these contents have in the destroyed zone was left behind before.  *)
NoMoreLeft(c) ==
  \A i \in DOMAIN c.copies : c.copies[i].zone = "destroyed" => i \in Left

LEMMA FinalizedClean ==
  ASSUME IInv, NEW s \in Sessions, Current(s), pc[s] \in {"ready", "selected"}
  PROVE  NoMoreLeft(Finalized(s))
<1> DEFINE u == deck.undo
<1> SUFFICES ASSUME NEW j \in DOMAIN Finalized(s).copies,
                    Finalized(s).copies[j].zone = "destroyed", j \notin Left
             PROVE  FALSE
  BY DEF NoMoreLeft
<1>1. j \in DOMAIN copies /\ copies[j].zone = "destroyed"
  BY FinalizedSound DEF Part
<1>2. j = u /\ j \in Ids
  BY <1>1, CopyTableDomain DEF Left, IInv, TypeOK
<1>3. u # None /\ view[s].deck.undo = u
  BY <1>2, BoundAssumption DEF Ids, IInv, ViewCurrent
<1>4. Seen(s, u) = copies[u]
  BY <1>1, <1>2, CurrentView
<1>5. Finalized(s) = Deleted(s, Content, u)
  BY <1>1, <1>2, <1>3, <1>4 DEF Finalized
<1>6. DOMAIN Finalized(s).copies = DOMAIN copies \ {u}
  BY <1>1, <1>2, <1>5, ContentSound, DeletedSound
<1>7. QED
  BY <1>2, <1>6

(***************************************************************************)
(* A mutation deletes the copy an earlier play destroyed, or restores it,  *)
(* and leaves none behind but the one it destroys.                         *)
(***************************************************************************)
LEMMA MutateClean ==
  ASSUME IInv, PlayHeld, NEW s \in Sessions, Mutate(s)
  PROVE  Left' \subseteq Left
<1> DEFINE c == Finalized(s)
           i == target[s].id
<1>1. Current(s) /\ pc[s] \in {"ready", "selected"}
  BY DEF Mutate, SavePack, ReplaceComposition, DrawCard, DiscardDrawn,
         PlayDrawn, UndoLastPlay, RemoveCopy, ResetDeck, Selected, Active,
         Claim, Current
<1>2. Sound(c) /\ Part(c) /\ NoMoreLeft(c)
  BY <1>1, FinalizedSound, FinalizedClean
<1>3. /\ \A j \in DOMAIN copies : Seen(s, j) = copies[j]
      /\ \A j \in DOMAIN c.copies : Seen(s, j) = c.copies[j]
  BY <1>1, <1>2, CurrentView DEF Part
<1>4. c.copies \in CopyTable /\ c \in Contents
  BY <1>2 DEF Sound, Contents
<1>5. ASSUME NEW undo, NEW d, Commit(s, undo, d), NoMoreLeft(d)
      PROVE  Left' \subseteq Left
  <2>1. copies' = d.copies
    BY <1>5 DEF Commit
  <2>2. QED
    BY <1>5, <2>1 DEF NoMoreLeft, Left
<1>6. "deck" \in Zones /\ "drawn" \in Zones /\ "destroyed" \in Zones
      /\ FALSE \in BOOLEAN
  BY DEF Zones
<1>7. ASSUME pc[s] = "selected", target[s].op # "clear"
      PROVE  Suitable(target[s])
  BY <1>1, <1>7 DEF IInv, TargetCurrent
<1> HIDE DEF c, i
<1>8. CASE SavePack(s)
  <2>1. PICK pack \in [1 .. PackSize -> Cards \X {FALSE}], h \in 0 .. MaxCopies :
          /\ Highest(h, c.copies)
          /\ h + PackSize <= MaxCopies
          /\ Commit(s, FinalizedUndo(s),
                    [defs |-> c.defs \cup CardsOf(pack),
                     copies |-> Inserted(c.copies, h, pack)])
    BY <1>8 DEF SavePack, c
  <2>2. pack \in [1 .. PackSize -> Cards \X BOOLEAN]
    OBVIOUS
  <2>3. PackSize \in 0 .. MaxCopies
    BY <2>1, BoundAssumption
  <2>4. Extends(Inserted(c.copies, h, pack), c.copies, pack)
    BY <1>4, <2>1, <2>2, <2>3, InsertedTable
  <2>5. NoMoreLeft([defs |-> c.defs \cup CardsOf(pack),
                       copies |-> Inserted(c.copies, h, pack)])
    BY <1>2, <2>4 DEF Extends, NoMoreLeft
  <2>6. QED
    BY <1>5, <2>1, <2>5
<1>9. CASE ReplaceComposition(s)
  <2> DEFINE rest == Without(c.copies, Joined(c, Zones))
  <2>1. PICK n \in 0 .. MaxCopies, h \in 0 .. MaxCopies :
          /\ Highest(h, rest)
          /\ h + n <= MaxCopies
          /\ \E rows \in [1 .. n -> Cards \X BOOLEAN] :
               Commit(s, FinalizedUndo(s),
                 [defs |-> CardsOf(rows), copies |-> Inserted(rest, h, rows)])
    BY <1>9 DEF ReplaceComposition, c
  <2>2. PICK rows \in [1 .. n -> Cards \X BOOLEAN] :
          Commit(s, FinalizedUndo(s),
            [defs |-> CardsOf(rows), copies |-> Inserted(rest, h, rows)])
    BY <2>1
  <2>a. /\ rest \in CopyTable
        /\ DOMAIN rest = DOMAIN c.copies \ Joined(c, Zones)
        /\ \A j \in DOMAIN c.copies \ Joined(c, Zones) : rest[j] = c.copies[j]
    BY <1>4, WithoutTable
  <2> HIDE DEF rest
  <2>3. /\ rest \in CopyTable
        /\ DOMAIN rest \subseteq DOMAIN c.copies
        /\ \A j \in DOMAIN rest : rest[j] = c.copies[j]
    BY <2>a
  <2>4. Extends(Inserted(rest, h, rows), rest, rows)
    BY <2>1, <2>3, InsertedTable
  <2>5. NoMoreLeft([defs |-> CardsOf(rows), copies |-> Inserted(rest, h, rows)])
    BY <1>2, <2>3, <2>4 DEF Extends, NoMoreLeft
  <2>6. QED
    BY <1>5, <2>2, <2>5
<1>10. CASE DrawCard(s)
  <2>1. PICK j \in DOMAIN c.copies :
          Commit(s, FinalizedUndo(s),
                 [c EXCEPT !.copies = Write(s, c.copies, j, "drawn", FALSE)])
    BY <1>10 DEF DrawCard, c
  <2> DEFINE d == [c EXCEPT !.copies = Write(s, c.copies, j, "drawn", FALSE)]
  <2>2. Written(d, c, j, "drawn", FALSE)
    BY <1>2, <1>3, <1>6, WriteSound
  <2> HIDE DEF d
  <2>3. NoMoreLeft(d)
    BY <1>2, <2>2 DEF Written, NoMoreLeft
  <2>4. QED
    BY <1>5, <2>1, <2>3 DEF d
<1>11. CASE DiscardDrawn(s)
  <2>1. i \in DOMAIN copies /\ copies[i].zone = "drawn"
    BY <1>7, <1>11 DEF DiscardDrawn, Selected, Active, Suitable, i
  <2>2. i \in DOMAIN c.copies /\ c.copies[i].zone = "drawn"
    BY <1>1, <2>1, FinalizedSound DEF Part, c
  <2>3. Seen(s, i).keyed = FALSE
    BY <1>2, <1>3, <2>2 DEF Sound
  <2> DEFINE d == [c EXCEPT !.copies = Write(s, c.copies, i, "deck", FALSE)]
  <2>4. Commit(s, FinalizedUndo(s), Reshuffled(d))
    BY <1>11, <2>2, <2>3 DEF DiscardDrawn, c, i
  <2>5. Written(d, c, i, "deck", FALSE)
    BY <1>2, <1>3, <1>6, <2>2, WriteSound
  <2> HIDE DEF d
  <2>6. d \in Contents /\ NoMoreLeft(d)
    BY <1>2, <2>5 DEF Written, NoMoreLeft
  <2>7. NoMoreLeft(Reshuffled(d))
    BY <2>6, ReshuffledContents DEF NoMoreLeft
  <2>8. QED
    BY <1>5, <2>4, <2>7
<1>12. CASE PlayDrawn(s)
  <2>1. i \in DOMAIN copies /\ copies[i].zone = "drawn" /\ ~copies[i].golden
    BY <1>7, <1>12 DEF PlayDrawn, Selected, Active, Suitable, i
  <2>2. i \in DOMAIN c.copies /\ ~c.copies[i].golden
    BY <1>1, <2>1, FinalizedSound DEF Part, c
  <2> DEFINE d == [c EXCEPT !.copies = Write(s, c.copies, i, "destroyed", FALSE)]
  <2>3. Commit(s, i, d)
    BY <1>12, <2>2 DEF PlayDrawn, c, i
  <2>4. Written(d, c, i, "destroyed", FALSE)
    BY <1>2, <1>3, <1>6, <2>2, WriteSound
  <2> HIDE DEF d
  <2>5. \A j \in DOMAIN d.copies :
          d.copies[j].zone = "destroyed" => j = i \/ j \in Left
    BY <1>2, <2>4 DEF Written, NoMoreLeft
  <2>6. deck'.undo = i /\ copies' = d.copies
    BY <2>3 DEF Commit, IInv, TypeOK, Row
  <2>7. QED
    BY <2>5, <2>6 DEF Left
<1>13. CASE UndoLastPlay(s)
  <2>1. i \in DOMAIN copies /\ copies[i].zone = "destroyed"
    BY <1>7, <1>13 DEF UndoLastPlay, Selected, Active, Suitable, i
  <2>2. deck.undo \in {i, None}
    BY <1>1, <1>13 DEF UndoLastPlay, Selected, Active, PlayHeld, UndoOf, i,
                       IInv, ViewCurrent
  <2>3. Sound(Content) /\ Content.copies = copies
    BY ContentSound
  <2> DEFINE d == [Content EXCEPT !.copies = Write(s, Content.copies, i, "drawn", FALSE)]
  <2>4. Commit(s, None, d)
    BY <1>13, <2>1, <2>3 DEF UndoLastPlay, i
  <2>5. Written(d, Content, i, "drawn", FALSE)
    BY <1>3, <1>6, <2>1, <2>3, WriteSound
  <2> HIDE DEF d
  <2>6. NoMoreLeft(d)
    <3> SUFFICES ASSUME NEW j \in DOMAIN d.copies, d.copies[j].zone = "destroyed"
                 PROVE  j \in Left
      BY DEF NoMoreLeft
    <3>1. j \in DOMAIN copies /\ j # i /\ copies[j].zone = "destroyed"
      BY <2>3, <2>5 DEF Written
    <3>2. j # None
      BY <3>1, CopyTableDomain, BoundAssumption DEF IInv, TypeOK, Ids
    <3>3. QED
      BY <2>2, <3>1, <3>2 DEF Left
  <2>7. QED
    BY <1>5, <2>4, <2>6
<1>14. CASE RemoveCopy(s)
  <2>1. Commit(s, FinalizedUndo(s), Deleted(s, c, i))
    BY <1>14 DEF RemoveCopy, c, i
  <2> DEFINE d == Deleted(s, c, i)
  <2>2. /\ DOMAIN d.copies \subseteq DOMAIN c.copies
        /\ \A j \in DOMAIN d.copies : d.copies[j] = c.copies[j]
    BY ONLY <1>4, DeletedContents
  <2> HIDE DEF d
  <2>3. NoMoreLeft(d)
    BY <1>2, <2>2 DEF NoMoreLeft
  <2>4. QED
    BY <1>5, <2>1, <2>3 DEF d
<1>15. CASE ResetDeck(s)
  <2>1. Commit(s, FinalizedUndo(s), Restocked(s, c))
    BY <1>15 DEF ResetDeck, c
  <2> DEFINE d == Restocked(s, c)
             m(j) == Merge("deck", Seen(s, j).zone, c.copies[j].zone)
  <2>2. \A j \in DOMAIN c.copies : m(j) = "deck"
    BY <1>3 DEF Merge
  <2>3. /\ DOMAIN d.copies = DOMAIN c.copies
        /\ \A j \in DOMAIN c.copies :
             d.copies[j].zone = IF j \in Joined(c, {"deck", "drawn"})
                                THEN m(j) ELSE c.copies[j].zone
    BY <1>4, RestockedContents
  <2> HIDE DEF d, m
  <2>4. \A j \in DOMAIN d.copies : d.copies[j].zone \in {"deck", c.copies[j].zone}
    BY <2>2, <2>3
  <2>5. NoMoreLeft(d)
    BY <1>2, <2>3, <2>4 DEF NoMoreLeft
  <2>6. QED
    BY <1>5, <2>1, <2>5 DEF d
<1>16. QED
  BY <1>8, <1>9, <1>10, <1>11, <1>12, <1>13, <1>14, <1>15 DEF Mutate

(***************************************************************************)
(* Every request that takes a revision deletes the play it makes final,    *)
(* also one whose pointer another request has cleared.                     *)
(***************************************************************************)
THEOREM PlaysAreFinal ==
  ASSUME Overwriters = {}
  PROVE  Spec => PlaysFinalized
<1> DEFINE Step == deck'.revision # deck.revision => Left' \subseteq Left
<1>1. IInv /\ PlayHeld /\ [Next]_vars => [Step]_vars
  <2> SUFFICES ASSUME IInv, PlayHeld, Next PROVE Step
    OBVIOUS
  <2>1. PICK s \in Sessions : \/ Load(s) \/ Lookup(s) \/ Mutate(s)
                              \/ ClearUndo(s) \/ SetStatus(s) \/ Fail(s)
    BY DEF Next
  <2>2. CASE Mutate(s)
    BY <2>2, MutateClean
  <2>3. CASE Load(s) \/ Lookup(s) \/ Fail(s)
    BY <2>3 DEF Load, LoadRow, LoadDefinitions, LoadCopies, Lookup,
                SelectDrawn, SelectRemoved, SelectUndo, Select, Fail, db
  <2>4. CASE ClearUndo(s)
    BY <2>4 DEF ClearUndo, IInv, TypeOK, Row
  <2>5. CASE SetStatus(s)
    <3>1. deck'.undo = deck.undo /\ copies' = copies
      BY <2>5, StatusFresh
    <3>2. QED
      BY <3>1 DEF Left
  <2>6. QED
    BY <2>1, <2>2, <2>3, <2>4, <2>5
<1>2. QED
  BY <1>1, ClaimedMutations, PlayKept, PTL DEF Spec, PlaysFinalized
=============================================================================
