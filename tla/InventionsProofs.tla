-------------------------- MODULE InventionsProofs --------------------------
(***************************************************************************)
(* Proofs about Inventions, for any number of sessions, characters and     *)
(* inventions, and any size of a draw.                                     *)
(*                                                                         *)
(* The invariant is what taking the write lock first is for: a draw that   *)
(* has claimed holds the lock (Locked), and so nobody else can commit a    *)
(* change of what it has found enabled and active (Current).               *)
(***************************************************************************)
EXTENDS Inventions, TLAPS

InDraw == {"claimed", "picked"}

(* The lock is held by draws in progress, and by each of them.             *)
Locked == \A s \in Sessions : pc[s] \in InDraw <=> writer = s

(* What a request names is what its handler takes it for.                  *)
Named ==
  \A s \in Sessions :
    /\ pc[s] \in {"add", "remove"} => view[s].of \in Catalogue
    /\ pc[s] \in {"switch", "character"} \cup InDraw => view[s].of \in Characters

(* What a draw has found still holds.                                      *)
Current ==
  \A s \in Sessions :
    /\ pc[s] \in InDraw => enabled[view[s].of]
    /\ pc[s] = "picked" => view[s].items \in Draws(active)

IInv == TypeOK /\ Locked /\ Named /\ Current

LEMMA DrawsMonotone ==
  ASSUME NEW S, NEW T, S \subseteq T, NEW d \in Draws(S)
  PROVE  d \in Draws(T) /\ Range(d) \subseteq S
BY DEF Draws, Range, IsInjective

LEMMA DrawsAreSequences ==
  ASSUME NEW S, S \subseteq Catalogue, NEW d \in Draws(S)
  PROVE  d \in Seq(Catalogue)
BY CountAssumption DEF Draws

LEMMA InitIInv == Init => IInv
BY NobodyAssumption DEF Init, IInv, TypeOK, Locked, Named, Current, InDraw, NoView

(* What a step of s leaves as it was: the other requests.                  *)
Others(s) == \A t \in Sessions \ {s} : pc'[t] = pc[t] /\ view'[t] = view[t]

Views == [of : Catalogue \cup Characters \cup {None}, was : BOOLEAN,
          items : Seq(Catalogue)]

LEMMA ReadViews ==
  ASSUME NEW of \in Catalogue \cup Characters, NEW was \in BOOLEAN
  PROVE  /\ [NoView EXCEPT !.of = of] \in Views
         /\ [NoView EXCEPT !.of = of].of = of
         /\ [NoView EXCEPT !.of = of, !.was = was] \in Views
         /\ [NoView EXCEPT !.of = of, !.was = was].of = of
<1>1. NoView \in Views
  <2>1. <<>> \in Seq(Catalogue)
    OBVIOUS
  <2>. QED
    BY <2>1 DEF NoView, Views
<1>2. [NoView EXCEPT !.of = of] \in Views /\ [NoView EXCEPT !.of = of].of = of
  BY <1>1 DEF Views
<1>3. /\ [NoView EXCEPT !.of = of, !.was = was] \in Views
      /\ [NoView EXCEPT !.of = of, !.was = was].of = of
  BY <1>1 DEF Views
<1>. QED
  BY <1>2, <1>3

LEMMA ReadTo ==
  ASSUME IInv, NEW s \in Sessions,
         NEW to \in {"add", "remove", "switch", "character"},
         NEW read \in Views,
         to \in {"add", "remove"} => read.of \in Catalogue,
         to \in {"switch", "character"} => read.of \in Characters,
         Step(s, "idle", to, read),
         UNCHANGED writer
  PROVE  IInv'
<1>1. /\ Others(s) /\ UNCHANGED <<db, writer>> /\ pc'[s] = to /\ pc[s] = "idle"
      /\ view'[s] = read
  BY DEF Step, Others, IInv, TypeOK
<1>2. TypeOK'
  BY DEF Step, Views, IInv, TypeOK, db
<1>3. Locked'
  BY <1>1 DEF Others, Locked, InDraw, IInv
<1>4. Named'
  BY <1>1 DEF Others, Named, InDraw, IInv
<1>5. Current'
  BY <1>1 DEF Others, Current, InDraw, IInv, db
<1>. QED
  BY <1>2, <1>3, <1>4, <1>5 DEF IInv

LEMMA ReadStep ==
  ASSUME IInv, NEW s \in Sessions, Reads(s)
  PROVE  IInv'
<1>1. CASE ReadNew(s)
  <2>1. PICK i \in Catalogue \ active :
          /\ Step(s, "idle", "add", [NoView EXCEPT !.of = i, !.was = i \in known])
          /\ UNCHANGED writer
    BY <1>1 DEF ReadNew
  <2>2. (i \in known) \in BOOLEAN
    OBVIOUS
  <2> DEFINE read == [NoView EXCEPT !.of = i, !.was = i \in known]
  <2>3. read \in Views /\ read.of = i
    BY <2>2, ReadViews
  <2> HIDE DEF read
  <2>4. Step(s, "idle", "add", read) /\ UNCHANGED writer
    BY <2>1 DEF read
  <2>. QED
    BY <2>3, <2>4, ReadTo
<1>2. CASE ReadActive(s)
  <2>1. PICK i \in active : /\ Step(s, "idle", "remove", [NoView EXCEPT !.of = i])
                            /\ UNCHANGED writer
    BY <1>2 DEF ReadActive
  <2>2. i \in Catalogue
    BY DEF IInv, TypeOK
  <2> DEFINE read == [NoView EXCEPT !.of = i]
  <2>3. read \in Views /\ read.of = i
    BY <2>2, ReadViews
  <2> HIDE DEF read
  <2>4. Step(s, "idle", "remove", read) /\ UNCHANGED writer
    BY <2>1 DEF read
  <2>. QED
    BY <2>2, <2>3, <2>4, ReadTo
<1>3. CASE ReadCharacter(s)
  <2>1. PICK c \in Characters, to \in {"switch", "character"} :
          /\ Step(s, "idle", to, [NoView EXCEPT !.of = c, !.was = enabled[c]])
          /\ UNCHANGED writer
    BY <1>3 DEF ReadCharacter
  <2>2. enabled[c] \in BOOLEAN
    BY DEF IInv, TypeOK
  <2> DEFINE read == [NoView EXCEPT !.of = c, !.was = enabled[c]]
  <2>3. read \in Views /\ read.of = c
    BY <2>2, ReadViews
  <2> HIDE DEF read
  <2>4. Step(s, "idle", to, read) /\ UNCHANGED writer
    BY <2>1 DEF read
  <2>. QED
    BY <2>3, <2>4, ReadTo
<1>. QED
  BY <1>1, <1>2, <1>3 DEF Reads

(* A request that ends leaves nothing to be kept true for it.              *)
LEMMA CloseStep ==
  ASSUME IInv, NEW s \in Sessions, Close(s)
  PROVE  /\ Others(s) /\ pc'[s] = "idle"
         /\ pc' \in [Sessions -> {"idle", "add", "remove", "switch",
                                  "character", "claimed", "picked"}]
         /\ view' \in [Sessions -> [of : Catalogue \cup Characters \cup {None},
                                    was : BOOLEAN, items : Seq(Catalogue)]]
         /\ writer' \in Sessions \cup {None}
         /\ Locked' /\ Named'
<1>1. Others(s) /\ pc'[s] = "idle"
  BY DEF Close, Others, IInv, TypeOK
<1>2. /\ pc' \in [Sessions -> {"idle", "add", "remove", "switch",
                               "character", "claimed", "picked"}]
      /\ view' \in [Sessions -> [of : Catalogue \cup Characters \cup {None},
                                 was : BOOLEAN, items : Seq(Catalogue)]]
      /\ writer' \in Sessions \cup {None}
  BY DEF Close, Release, IInv, TypeOK, NoView
<1>3. Locked'
  BY <1>1, NobodyAssumption DEF Close, Release, Others, Locked, InDraw, IInv
<1>4. Named'
  BY <1>1 DEF Others, Named, InDraw, IInv
<1>. QED
  BY <1>1, <1>2, <1>3, <1>4

(* A commit that does not come from a draw finds no draw in progress.      *)
LEMMA NobodyDraws ==
  ASSUME IInv, NEW s \in Sessions, NEW from \in {"add", "remove", "switch"},
         Commit(s, from)
  PROVE  \A t \in Sessions : pc[t] \notin InDraw /\ pc'[t] \notin InDraw
<1>1. \A t \in Sessions : pc[t] \notin InDraw
  BY NobodyAssumption DEF Commit, IInv, Locked, InDraw
<1>2. Others(s) /\ pc'[s] = "idle"
  BY CloseStep DEF Commit
<1>. QED
  BY <1>1, <1>2 DEF Others, InDraw

LEMMA CommitStep ==
  ASSUME IInv, NEW s \in Sessions,
         AddInvention(s) \/ RemoveInvention(s) \/ SetEnabled(s)
  PROVE  IInv'
<1>1. PICK from \in {"add", "remove", "switch"} : Commit(s, from)
  BY DEF AddInvention, RemoveInvention, SetEnabled
<1>2. Close(s) /\ pc[s] = from
  BY <1>1 DEF Commit
<1>3. Current'
  BY <1>1, NobodyDraws DEF Current, InDraw
<1>4. /\ active' \subseteq known' /\ known' \subseteq Catalogue
      /\ known \subseteq known' /\ drawn' = drawn
      /\ enabled' \in [Characters -> BOOLEAN]
  <2>1. CASE AddInvention(s)
    <3>1. view[s].of \in Catalogue
      BY <2>1 DEF AddInvention, Commit, IInv, Named
    <3>. QED
      BY <2>1, <3>1 DEF AddInvention, IInv, TypeOK
  <2>2. CASE RemoveInvention(s)
    BY <2>2 DEF RemoveInvention, IInv, TypeOK
  <2>3. CASE SetEnabled(s)
    BY <2>3 DEF SetEnabled, IInv, TypeOK
  <2>. QED
    BY <2>1, <2>2, <2>3
<1>5. drawn' \in [Characters -> Draws(known') \cup {<<>>}]
  BY <1>4, DrawsMonotone DEF IInv, TypeOK
<1>. QED
  BY <1>2, <1>3, <1>4, <1>5, CloseStep DEF IInv, TypeOK

LEMMA EndStep ==
  ASSUME IInv, NEW s \in Sessions, Inactive(s) \/ TooFew(s) \/ Fail(s)
  PROVE  IInv'
<1>1. Close(s) /\ UNCHANGED db
  BY DEF Inactive, TooFew, Fail
<1>2. Current'
  BY <1>1, CloseStep DEF Current, Others, InDraw, IInv, db
<1>. QED
  BY <1>1, <1>2, CloseStep DEF IInv, TypeOK, db

LEMMA DrawStep ==
  ASSUME IInv, NEW s \in Sessions,
         ClaimDraw(s) \/ PickItems(s) \/ ReplaceDraw(s)
  PROVE  IInv'
<1>1. CASE ClaimDraw(s)
  <2>1. /\ Others(s) /\ pc'[s] = "claimed" /\ view' = view
        /\ writer' = s /\ writer = None /\ pc[s] = "character"
        /\ enabled[view[s].of] /\ UNCHANGED db
    BY <1>1 DEF ClaimDraw, Step, Others, IInv, TypeOK
  <2>2. TypeOK'
    BY <1>1, <2>1 DEF ClaimDraw, Step, IInv, TypeOK, db
  <2>3. Locked'
    BY <2>1, NobodyAssumption DEF Others, Locked, InDraw, IInv
  <2>4. Named' /\ Current'
    BY <2>1 DEF Others, Named, Current, InDraw, IInv, db
  <2>. QED
    BY <2>2, <2>3, <2>4 DEF IInv
<1>2. CASE PickItems(s)
  <2>1. PICK items \in Draws(active) :
          Step(s, "claimed", "picked", [view[s] EXCEPT !.items = items])
    BY <1>2 DEF PickItems
  <2>2. items \in Seq(Catalogue)
    <3>1. active \subseteq Catalogue
      BY DEF IInv, TypeOK
    <3>. QED
      BY <3>1, DrawsAreSequences
  <2>3. /\ Others(s) /\ pc'[s] = "picked" /\ pc[s] = "claimed"
        /\ view'[s].of = view[s].of /\ view'[s].items = items
        /\ UNCHANGED db /\ writer' = writer
    BY <1>2, <2>1 DEF PickItems, Step, Others, IInv, TypeOK
  <2>4. TypeOK'
    BY <2>1, <2>2, <2>3 DEF Step, IInv, TypeOK, db
  <2>5. Locked'
    BY <2>3 DEF Others, Locked, InDraw, IInv
  <2>6. Named' /\ Current'
    BY <2>3 DEF Others, Named, Current, InDraw, IInv, db
  <2>. QED
    BY <2>4, <2>5, <2>6 DEF IInv
<1>3. CASE ReplaceDraw(s)
  <2>1. Close(s) /\ UNCHANGED <<known, active, enabled>>
    BY <1>3 DEF ReplaceDraw
  <2>2. Current'
    BY <2>1, CloseStep DEF Current, Others, InDraw, IInv
  <2>3. view[s].items \in Draws(known)
    <3>1. view[s].items \in Draws(active) /\ active \subseteq known
      BY <1>3 DEF ReplaceDraw, IInv, Current, TypeOK
    <3>. QED
      BY <3>1, DrawsMonotone
  <2>4. drawn' \in [Characters -> Draws(known') \cup {<<>>}]
    BY <1>3, <2>1, <2>3 DEF ReplaceDraw, IInv, TypeOK
  <2>. QED
    BY <2>1, <2>2, <2>4, CloseStep DEF IInv, TypeOK
<1>. QED
  BY <1>1, <1>2, <1>3

LEMMA NextIInv == IInv /\ [Next]_vars => IInv'
<1>1. IInv /\ UNCHANGED vars => IInv'
  BY DEF IInv, TypeOK, Locked, Named, Current, vars
<1>. QED
  BY <1>1, ReadStep, CommitStep, EndStep, DrawStep DEF Next, Proceed

(***************************************************************************)
(* The inductive invariant: a draw in progress holds the write lock, and   *)
(* what it has found enabled and active stays so until it commits.         *)
(***************************************************************************)
THEOREM DrawsHoldLock == Spec => []IInv
BY InitIInv, NextIInv, PTL DEF Spec

(* Every variable of Inventions keeps its type.                            *)
THEOREM TypeCorrect == Spec => []TypeOK
BY DrawsHoldLock, PTL DEF IInv

(***************************************************************************)
(* Draws consist of distinct inventions whose rows still exist, however    *)
(* often inventions are removed and added again.                           *)
(***************************************************************************)
THEOREM DrawsStay == Spec => []DrawsKept
<1>1. TypeOK => DrawsKept
  BY DEF TypeOK, DrawsKept
<1>. QED
  BY <1>1, TypeCorrect, PTL

(***************************************************************************)
(* A draw consists of active inventions, for an enabled module, at the     *)
(* moment it is committed.                                                 *)
(***************************************************************************)
THEOREM DrawsAreActive == Spec => DrawnWhileActive
<1> DEFINE Kept == \A c \in Characters :
                     drawn'[c] # drawn[c]
                       => enabled[c] /\ Range(drawn'[c]) \subseteq active
<1>1. IInv /\ [Next]_vars => [Kept]_vars
  <2> SUFFICES ASSUME IInv, Next, NEW c \in Characters, drawn'[c] # drawn[c]
               PROVE  enabled[c] /\ Range(drawn'[c]) \subseteq active
    OBVIOUS
  <2>1. PICK s \in Sessions : ReplaceDraw(s)
    BY DEF Next, Reads, Proceed, ReadNew, ReadActive, ReadCharacter, Step, Fail,
           AddInvention, RemoveInvention, SetEnabled, ClaimDraw, Inactive,
           PickItems, TooFew, db
  <2>2. c = view[s].of /\ drawn'[c] = view[s].items
    BY <2>1 DEF ReplaceDraw, IInv, TypeOK
  <2>3. view[s].items \in Draws(active) /\ enabled[c]
    BY <2>1, <2>2 DEF ReplaceDraw, IInv, Current, InDraw
  <2>. QED
    BY <2>2, <2>3, DrawsMonotone
<1>. QED
  BY <1>1, DrawsHoldLock, PTL DEF Spec, DrawnWhileActive
=============================================================================
