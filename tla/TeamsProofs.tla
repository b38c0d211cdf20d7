---------------------------- MODULE TeamsProofs ----------------------------
(***************************************************************************)
(* Proofs about Teams, for any number of requests, users, characters,      *)
(* teams and slugs, and however much is changed during a request.          *)
(*                                                                         *)
(* What a request has loaded was true when it was loaded (Loaded), and     *)
(* what it has asked for and not found was false then (Complete): both     *)
(* stay in the history, since every change of a fact it depends on is      *)
(* noted there (Keeps).  A decision taken on loaded and on fresh facts     *)
(* then lies between Throughout and Ever.                                  *)
(***************************************************************************)
EXTENDS Teams, TLAPS

-----------------------------------------------------------------------------
(* Types.                                                                  *)

Pcs == {"idle", "team", "team seen", "team hidden", "team patched", "member",
        "added", "removed", "teams", "character", "sheet", "seen", "hidden",
        "listed", "slug", "patched", "answered"}

LEMMA InitType == Init => TypeOK
BY UserAssumption DEF Init, TypeOK, NoView, View

LEMMA ViewFields ==
  ASSUME TypeOK, NEW s \in Sessions
  PROVE  /\ view[s] \in View
         /\ view[s].user \in Users \cup {None} /\ view[s].char \subseteq Characters
         /\ view[s].team \subseteq Teams /\ view[s].slug \in Slugs \cup {None}
         /\ view[s].facts \subseteq Fact
         /\ view[s].answer \subseteq Characters \cup Teams
BY DEF TypeOK, View

(* The facts have their types.                                             *)
LEMMA FactsType ==
  ASSUME NEW m \in SUBSET (Characters \X Teams),
         NEW o \in [Characters -> Users \cup {None}],
         NEW l \in [Characters -> Slugs]
  PROVE  m \cup {<<c, o[c]>> : c \in Characters}
           \cup {<<c, l[c]>> : c \in Characters} \subseteq Fact
BY DEF Fact

(* A step of a request that reads.                                         *)
LEMMA GotoType ==
  ASSUME TypeOK, NEW s \in Sessions, NEW from, NEW to \in Pcs, NEW v \in View,
         Goto(s, from, to, v)
  PROVE  /\ pc' \in [Sessions -> Pcs] /\ view' \in [Sessions -> View]
         /\ pc'[s] = to /\ view'[s] = v
         /\ \A r \in Sessions \ {s} : pc'[r] = pc[r] /\ view'[r] = view[r]
BY DEF TypeOK, Goto, Pcs

LEMMA ReadType ==
  ASSUME TypeOK, NEW s \in Sessions, NEW from, NEW to \in Pcs, NEW v \in View,
         Read(s, from, to, v)
  PROVE  TypeOK'
<1>1. pc' \in [Sessions -> Pcs] /\ view' \in [Sessions -> View]
  BY GotoType DEF Read
<1>. QED
  BY <1>1 DEF Read, TypeOK, Pcs

LEMMA NoticeType ==
  ASSUME members \subseteq Characters \X Teams,
         owner \in [Characters -> Users \cup {None}], slug \in [Characters -> Slugs],
         changed \in [Sessions -> SUBSET Fact],
         members' \subseteq Characters \X Teams,
         owner' \in [Characters -> Users \cup {None}], slug' \in [Characters -> Slugs],
         NEW s \in Sessions, Notice(s)
  PROVE  changed' \in [Sessions -> SUBSET Fact]
<1>1. Facts \subseteq Fact /\ Facts' \subseteq Fact
  BY FactsType DEF Facts
<1>. QED
  BY <1>1 DEF Notice, Difference

LEMMA SettledType ==
  ASSUME TypeOK, NEW s \in Sessions
  PROVE  /\ Settled(s) \in View
         /\ Settled(s).user = view[s].user /\ Settled(s).char = view[s].char
         /\ Settled(s).team = view[s].team /\ Settled(s).slug = view[s].slug
         /\ Settled(s).answer = view[s].answer
BY DEF TypeOK, Settled, View

LEMMA MembersType ==
  TypeOK => /\ members \subseteq Fact
            /\ \A S : MembersOf(S) \subseteq members
            /\ \A c : TeamsOf(c) \subseteq members
BY DEF TypeOK, MembersOf, TeamsOf, Fact

LEMMA RowType ==
  ASSUME TypeOK, NEW c \in Characters
  PROVE  /\ slug[c] \in Slugs /\ owner[c] \in Users \cup {None}
         /\ <<c, owner[c]>> \in Fact /\ <<c, slug[c]>> \in Fact
<1>1. slug[c] \in Slugs /\ owner[c] \in Users \cup {None}
  BY DEF TypeOK
<1>. QED
  BY <1>1 DEF Fact

(* What each request starts with.                                          *)
LEMMA OpenedTeam ==
  ASSUME TypeOK, NEW u \in Users, NEW t \in teams, NEW v,
         v = [NoView EXCEPT !.user = u, !.team = {t}, !.facts = MembersOf({t})]
  PROVE  /\ v.user = u /\ v.team = {t} /\ v.facts = MembersOf({t})
         /\ v \in View
<1>1. MembersOf({t}) \subseteq Fact /\ t \in Teams
  BY MembersType DEF TypeOK
<1>. QED
  BY <1>1 DEF NoView, View

LEMMA TeamsOfType == TypeOK => \A S : UNION {TeamsOf(c) : c \in S} \subseteq Fact
BY MembersType

LEMMA WrittenType ==
  ASSUME TypeOK, NEW s \in Sessions, NEW c \in view[s].char,
         NEW o \in Users \cup {None}, NEW l \in Users \cup {None}, NEW g \in Slugs,
         view[s].slug \in Slugs,
         owner' = [owner EXCEPT ![c] = Written(@, l, o)],
         slug' = [slug EXCEPT ![c] = Written(@, g, view[s].slug)]
  PROVE  /\ owner' \in [Characters -> Users \cup {None}]
         /\ slug' \in [Characters -> Slugs]
BY DEF TypeOK, Written

(* The slug a character is patched with is one.                            *)
Slugged ==
  \A s \in Sessions :
    pc[s] \in {"character", "sheet", "slug", "patched", "answered"}
      => view[s].slug \in Slugs

Base == TypeOK /\ Slugged

LEMMA BaseStep == ASSUME Base, [Next]_vars PROVE Base'
<1>1. CASE UNCHANGED vars
  BY <1>1 DEF Base, TypeOK, Slugged, vars
<1> SUFFICES ASSUME Next PROVE Base'
  BY <1>1
<1> USE DEF Base
<1>r. ASSUME NEW s \in Sessions, NEW from, NEW to \in Pcs, NEW v \in View,
             Read(s, from, to, v),
             to \in {"character", "sheet", "slug", "patched", "answered"}
               => v.slug \in Slugs
      PROVE  Base'
  <2>1. TypeOK'
    BY <1>r, ReadType
  <2>2. Slugged'
    BY <1>r, GotoType DEF Read, Slugged
  <2>. QED
    BY <2>1, <2>2
<1>2. ASSUME NEW s \in Sessions, CreateTeam(s) PROVE Base'
  BY <1>2 DEF CreateTeam, TypeOK, Slugged
<1>3. ASSUME NEW s \in Sessions, LoadTeam(s) PROVE Base'
  <2>1. PICK u \in Users, t \in teams :
          Read(s, "idle", "team",
               [NoView EXCEPT !.user = u, !.team = {t}, !.facts = MembersOf({t})])
    BY <1>3 DEF LoadTeam
  <2> DEFINE v == [NoView EXCEPT !.user = u, !.team = {t}, !.facts = MembersOf({t})]
  <2>2. Read(s, "idle", "team", v)
    BY <2>1
  <2>3. v \in View
    <3> HIDE DEF v
    <3>. QED
      BY OpenedTeam DEF v
  <2> HIDE DEF v
  <2>. QED
    BY <1>r, <2>2, <2>3 DEF Pcs
<1>4. ASSUME NEW s \in Sessions, NEW from, NEW to \in Pcs,
             Read(s, from, to, Settled(s)),
             to \notin {"character", "sheet", "slug", "patched", "answered"}
      PROVE  Base'
  BY <1>r, <1>4, SettledType
<1>5. ASSUME NEW s \in Sessions, PatchIllustration(s) PROVE Base'
  BY <1>r, <1>5, ViewFields DEF PatchIllustration, Pcs
<1>6. ASSUME NEW s \in Sessions, LoadMember(s) PROVE Base'
  <2>1. PICK c \in Characters :
          Read(s, "team", "member", [view[s] EXCEPT !.char = {c}])
    BY <1>6 DEF LoadMember
  <2>2. [view[s] EXCEPT !.char = {c}] \in View
    BY ViewFields DEF View
  <2>. QED
    BY <1>r, <2>1, <2>2 DEF Pcs
<1>7. ASSUME NEW s \in Sessions, AddMember(s) \/ RemoveMember(s) PROVE Base'
  <2>1. members' \subseteq Characters \X Teams
    BY <1>7, ViewFields DEF AddMember, RemoveMember, Membership, TypeOK
  <2>2. UNCHANGED <<owner, slug, teams>> /\ Notice(s)
    BY <1>7 DEF AddMember, RemoveMember
  <2>3. changed' \in [Sessions -> SUBSET Fact]
    BY <2>1, <2>2, NoticeType DEF TypeOK
  <2>4. PICK to \in {"added", "removed"} : Goto(s, "member", to, Settled(s))
    BY <1>7 DEF AddMember, RemoveMember
  <2>5. /\ pc' \in [Sessions -> Pcs] /\ view' \in [Sessions -> View] /\ pc'[s] = to
        /\ \A r \in Sessions \ {s} : pc'[r] = pc[r] /\ view'[r] = view[r]
    <3>1. Settled(s) \in View /\ to \in Pcs
      BY SettledType DEF Pcs
    <3>. QED
      BY <2>4, <3>1, GotoType
  <2>. QED
    BY <2>1, <2>2, <2>3, <2>5 DEF TypeOK, Pcs, Slugged
<1>8. ASSUME NEW s \in Sessions, ListTeams(s) \/ ListCharacters(s) PROVE Base'
  <2>1. PICK u \in Users, S \in SUBSET (Characters \cup Teams), p \in BOOLEAN,
             to \in {"teams", "listed"} :
          Read(s, "idle", to, [NoView EXCEPT !.user = u, !.answer = S, !.partial = p])
    <3>1. CASE ListTeams(s)
      <4>1. PICK u \in Users :
              \E page \in Pages({t \in teams : u = Admin \/ SeesTeam(Facts, u, t)}) :
                List(s, "teams", u, page)
        BY <3>1 DEF ListTeams
      <4>2. PICK S \in SUBSET teams, p \in BOOLEAN :
              List(s, "teams", u, [rows |-> S, partial |-> p])
        BY <4>1 DEF Pages
      <4>3. S \in SUBSET (Characters \cup Teams)
        BY DEF TypeOK
      <4>. QED
        BY <4>2, <4>3 DEF List
    <3>2. CASE ListCharacters(s)
      <4>1. PICK u \in Users :
              \E page \in Pages({c \in Characters : u = Admin \/ Sees(Facts, u, c)}) :
                List(s, "listed", u, page)
        BY <3>2 DEF ListCharacters
      <4>2. PICK S \in SUBSET Characters, p \in BOOLEAN :
              List(s, "listed", u, [rows |-> S, partial |-> p])
        BY <4>1 DEF Pages
      <4>. QED
        BY <4>2 DEF List
    <3>. QED
      BY <1>8, <3>1, <3>2
  <2> DEFINE v == [NoView EXCEPT !.user = u, !.answer = S, !.partial = p]
  <2>2. v \in View
    BY UserAssumption DEF NoView, View
  <2>3. Read(s, "idle", to, v) /\ to \in Pcs
    BY <2>1 DEF Pcs
  <2> HIDE DEF v
  <2>. QED
    BY <1>r, <2>2, <2>3 DEF Pcs
<1>9. ASSUME NEW s \in Sessions, LoadCharacter(s) PROVE Base'
  <2>a. PICK u \in Users, c \in Characters :
          \E v : /\ v = [NoView EXCEPT !.user = u, !.char = {c}, !.slug = slug[c],
                                       !.facts = RowOf(c)]
                 /\ Read(s, "idle", "character", v)
    BY <1>9 DEF LoadCharacter
  <2>1. PICK v : /\ v = [NoView EXCEPT !.user = u, !.char = {c}, !.slug = slug[c],
                                      !.facts = RowOf(c)]
                /\ Read(s, "idle", "character", v)
    BY <2>a
  <2>2. RowOf(c) \subseteq Fact /\ slug[c] \in Slugs
    BY RowType DEF RowOf
  <2>3. v.slug \in Slugs
    BY <2>1, <2>2 DEF NoView
  <2>4. v \in View
    BY <2>1, <2>2, UserAssumption DEF NoView, View
  <2>. QED
    BY <1>r, <2>1, <2>3, <2>4 DEF Pcs
<1>10. ASSUME NEW s \in Sessions, LoadTeams(s) PROVE Base'
  <2> DEFINE F == view[s].facts \cup UNION {TeamsOf(c) : c \in view[s].char}
             v == [view[s] EXCEPT !.facts = F]
  <2>1. F \in SUBSET Fact
    BY TeamsOfType, ViewFields
  <2>2. Read(s, "character", "sheet", v)
    BY <1>10 DEF LoadTeams
  <2> HIDE DEF F
  <2>3. v \in View /\ v.slug = view[s].slug
    BY <2>1, ViewFields DEF View
  <2>4. pc[s] = "character"
    BY <2>2 DEF Read, Goto
  <2> HIDE DEF v
  <2>. QED
    BY <1>r, <2>2, <2>3, <2>4 DEF Pcs, Slugged
<1>11. ASSUME NEW s \in Sessions, CheckSlug(s) PROVE Base'
  <2>1. PICK g \in Slugs : Read(s, "sheet", "slug", [view[s] EXCEPT !.slug = g])
    BY <1>11 DEF CheckSlug
  <2> DEFINE v == [view[s] EXCEPT !.slug = g]
  <2>2. v \in View /\ v.slug = g
    BY ViewFields DEF View
  <2> HIDE DEF v
  <2>3. Read(s, "sheet", "slug", v)
    BY <2>1 DEF v
  <2>. QED
    BY <1>r, <2>2, <2>3 DEF Pcs
<1>12. ASSUME NEW s \in Sessions, PatchCharacter(s) PROVE Base'
  <2>1. PICK from \in {"sheet", "slug"} : Goto(s, from, "patched", Settled(s))
    BY <1>12 DEF PatchCharacter
  <2>2. view[s].slug \in Slugs
    BY <2>1 DEF Goto, Slugged
  <2>3. owner' \in [Characters -> Users \cup {None}] /\ slug' \in [Characters -> Slugs]
    BY <1>12, <2>2, WrittenType DEF PatchCharacter
  <2>4. UNCHANGED <<members, teams>> /\ Notice(s)
    BY <1>12 DEF PatchCharacter
  <2>5. changed' \in [Sessions -> SUBSET Fact]
    BY <2>3, <2>4, NoticeType DEF TypeOK
  <2>6. /\ pc' \in [Sessions -> Pcs] /\ view' \in [Sessions -> View]
        /\ view'[s] = Settled(s)
        /\ \A r \in Sessions \ {s} : pc'[r] = pc[r] /\ view'[r] = view[r]
    <3>1. Settled(s) \in View /\ "patched" \in Pcs
      BY SettledType DEF Pcs
    <3>. QED
      BY <2>1, <3>1, GotoType
  <2>. QED
    <3>1. TypeOK'
      BY <2>3, <2>4, <2>5, <2>6 DEF TypeOK, Pcs
    <3>2. Slugged'
      BY <2>2, <2>6, SettledType DEF Slugged
    <3>. QED
      BY <3>1, <3>2
<1>13. ASSUME NEW s \in Sessions, Reload(s) PROVE Base'
  <2>1. PICK c \in Characters :
          Read(s, "patched", "answered", [view[s] EXCEPT !.answer = {c}])
    BY <1>13 DEF Reload
  <2> DEFINE v == [view[s] EXCEPT !.answer = {c}]
  <2>2. v \in View /\ v.slug = view[s].slug
    BY ViewFields DEF View
  <2> HIDE DEF v
  <2>3. Read(s, "patched", "answered", v)
    BY <2>1 DEF v
  <2>. QED
    BY <1>r, <2>2, <2>3 DEF Pcs, Slugged, Read, Goto
<1>14. ASSUME NEW s \in Sessions, Close(s) PROVE Base'
  BY <1>14, InitType DEF Close, TypeOK, Slugged, NoView, View
<1>. QED
  <2>1. PICK s \in Sessions :
          \/ CreateTeam(s) \/ LoadTeam(s)
          \/ RequireTeamVisible(s) \/ HideTeam(s) \/ PatchIllustration(s)
          \/ PatchTeam(s) \/ LoadMember(s) \/ AlreadyMember(s) \/ AddMember(s)
          \/ NotMember(s) \/ RemoveMember(s) \/ ListTeams(s)
          \/ ListCharacters(s) \/ LoadCharacter(s) \/ LoadTeams(s)
          \/ RequireCharacterVisible(s) \/ HideCharacter(s) \/ CheckSlug(s)
          \/ PatchCharacter(s) \/ Reload(s) \/ Close(s)
    BY DEF Next
  <2>2. CASE \/ RequireTeamVisible(s) \/ HideTeam(s) \/ PatchTeam(s)
             \/ AlreadyMember(s) \/ NotMember(s)
             \/ RequireCharacterVisible(s) \/ HideCharacter(s)
    BY <1>4, <2>2 DEF RequireTeamVisible, HideTeam, PatchTeam, AlreadyMember,
                      NotMember, RequireCharacterVisible, HideCharacter, Pcs
  <2>. QED
    BY <1>2, <1>3, <1>5, <1>6, <1>7, <1>8, <1>9, <1>10, <1>11, <1>12, <1>13,
       <1>14, <2>1, <2>2

(* Every variable of Teams keeps its type.                                 *)
THEOREM TypeCorrect == Spec => []TypeOK
<1>1. Init => Base
  BY InitType DEF Base, Init, Slugged
<1>. QED
  BY <1>1, BaseStep, PTL DEF Spec, Base

-----------------------------------------------------------------------------
(* Facts.                                                                  *)

(* The kinds of facts are told apart by their second component.            *)
LEMMA FactKinds ==
  ASSUME NEW m \in SUBSET (Characters \X Teams),
         NEW o \in [Characters -> Users \cup {None}],
         NEW l \in [Characters -> Slugs],
         NEW F, F = m \cup {<<c, o[c]>> : c \in Characters}
                      \cup {<<c, l[c]>> : c \in Characters},
         NEW c \in Characters
  PROVE  /\ \A t \in Teams : <<c, t>> \in F <=> <<c, t>> \in m
         /\ \A u \in Users \cup {None} : <<c, u>> \in F <=> o[c] = u
         /\ \A g \in Slugs : <<c, g>> \in F <=> l[c] = g
BY KindAssumption

LEMMA Kinds ==
  ASSUME TypeOK, NEW c \in Characters
  PROVE  /\ \A t \in Teams : <<c, t>> \in Facts <=> <<c, t>> \in members
         /\ \A u \in Users \cup {None} : <<c, u>> \in Facts <=> owner[c] = u
         /\ \A g \in Slugs : <<c, g>> \in Facts <=> slug[c] = g
<1>1. /\ members \in SUBSET (Characters \X Teams)
      /\ owner \in [Characters -> Users \cup {None}]
      /\ slug \in [Characters -> Slugs]
  BY DEF TypeOK
<1>. QED
  BY <1>1, KindAssumption DEF Facts

LEMMA KindsAfter ==
  ASSUME TypeOK', NEW c \in Characters
  PROVE  /\ \A t \in Teams : <<c, t>> \in Facts' <=> <<c, t>> \in members'
         /\ \A u \in Users \cup {None} : <<c, u>> \in Facts' <=> owner'[c] = u
         /\ \A g \in Slugs : <<c, g>> \in Facts' <=> slug'[c] = g
<1>1. /\ members' \in SUBSET (Characters \X Teams)
      /\ owner' \in [Characters -> Users \cup {None}]
      /\ slug' \in [Characters -> Slugs]
  BY DEF TypeOK
<1>. QED
  BY <1>1, KindAssumption DEF Facts

-----------------------------------------------------------------------------
(* The inductive invariant.                                                *)

(* What has been loaded was so at some moment of the request.              *)
Loaded(s) ==
  /\ pc[s] \in {"team", "member", "character", "sheet", "slug"} =>
       view[s].facts \cap Relevant(s) \subseteq Ever(s)
  /\ pc[s] = "team" => view[s].facts \subseteq Characters \X view[s].team

(* What has been asked for and not been found was not so at some moment.   *)
Complete(s) ==
  /\ pc[s] \in {"team", "member"} =>
       (Characters \X view[s].team) \cap Throughout(s) \subseteq view[s].facts
  /\ pc[s] \in {"character", "sheet"} /\ Player(s) =>
       \A c \in view[s].char : <<c, view[s].user>> \in Throughout(s)
                                 => <<c, view[s].user>> \in view[s].facts
  /\ pc[s] = "sheet" /\ Player(s) =>
       (view[s].char \X Teams) \cap Throughout(s) \subseteq view[s].facts

(* The slug that was loaded, and the one that has been written.            *)
SlugLoaded(s) ==
  pc[s] \in {"character", "sheet"} =>
    \A c \in Characters, g \in Slugs : <<c, g>> \in view[s].facts => g = view[s].slug
Renamed(s) ==
  pc[s] = "patched" => \A c \in view[s].char : <<c, view[s].slug>> \in Ever(s)

(* Listings are of one kind.                                               *)
Listing(s) == /\ pc[s] = "teams" => view[s].answer \subseteq Teams
              /\ pc[s] = "listed" => view[s].answer \subseteq Characters

(* A request names one team and one character.                             *)
Single(s) == pc[s] # "idle" => /\ \A t, r \in view[s].team : t = r
                               /\ \A c, d \in view[s].char : c = d

Fits(s) == /\ Loaded(s) /\ Complete(s) /\ SlugLoaded(s) /\ Renamed(s)
           /\ Listing(s) /\ Single(s)
           /\ ShownFits(s) /\ HiddenFits(s) /\ WrittenFits(s)
           /\ MembershipFits(s) /\ AnswerFits(s)

IInv == Base /\ UniqueSlugs(slug) /\ \A s \in Sessions : Fits(s)

(* A step of another request: relevant facts that change are noted.        *)
Keeps(s) ==
  /\ pc'[s] = pc[s] /\ view'[s] = view[s]
  /\ changed[s] \subseteq changed'[s]
  /\ Ever(s) \cap Relevant(s) \subseteq Ever(s)'
  /\ Throughout(s)' \cap Relevant(s) \subseteq Throughout(s)

LEMMA KeepsFits ==
  ASSUME Base, NEW s \in Sessions, Fits(s), Keeps(s)
  PROVE  Fits(s)'
<1> DEFINE v == view[s]
<1>1. /\ v.user \in Users \cup {None} /\ v.char \subseteq Characters
      /\ v.team \subseteq Teams /\ v.slug \in Slugs \cup {None}
      /\ v.answer \subseteq Characters \cup Teams
      /\ pc'[s] = pc[s] /\ view'[s] = v /\ Relevant(s)' = Relevant(s)
      /\ Player(s)' = Player(s)
  BY ViewFields DEF Base, Keeps, Relevant, Player
<1>2. \A c \in Characters :
        /\ \A t \in Teams : Player(s) \/ t \in v.team =>
             /\ <<c, t>> \in Ever(s) => <<c, t>> \in Ever(s)'
             /\ <<c, t>> \in Throughout(s)' => <<c, t>> \in Throughout(s)
        /\ Player(s) =>
             /\ <<c, v.user>> \in Ever(s) => <<c, v.user>> \in Ever(s)'
             /\ <<c, v.user>> \in Throughout(s)' => <<c, v.user>> \in Throughout(s)
        /\ c \in v.char /\ <<c, v.slug>> \in Ever(s) => <<c, v.slug>> \in Ever(s)'
  <2>1. ASSUME NEW c \in Characters
        PROVE  /\ \A t \in Teams : Player(s) \/ t \in v.team => <<c, t>> \in Relevant(s)
               /\ Player(s) => <<c, v.user>> \in Relevant(s)
               /\ c \in v.char => <<c, v.slug>> \in Relevant(s)
    BY DEF Relevant, Player
  <2>. QED
    BY <2>1 DEF Keeps
<1>3. Loaded(s)'
  <2>1. Loaded(s) /\ Ever(s) \cap Relevant(s) \subseteq Ever(s)'
    BY DEF Fits, Keeps
  <2>. QED
    BY <1>1, <2>1 DEF Loaded
<1>4. Complete(s)'
  <2>1. ASSUME NEW f \in Characters \X Teams, f \in Throughout(s)',
               Player(s) \/ f \in Characters \X v.team
        PROVE  f \in Throughout(s)
    <3>1. PICK c \in Characters, t \in Teams :
            f = <<c, t>> /\ (Player(s) \/ t \in v.team)
      BY <2>1
    <3>. QED
      BY <1>2, <2>1, <3>1
  <2>2. Player(s) => \A c \in v.char : <<c, v.user>> \in Throughout(s)' => <<c, v.user>> \in Throughout(s)
    BY <1>1, <1>2
  <2>3. (Characters \X v.team) \cap Throughout(s)' \subseteq (Characters \X v.team) \cap Throughout(s)
    BY <1>1, <2>1
  <2>4. Player(s) => (v.char \X Teams) \cap Throughout(s)' \subseteq (v.char \X Teams) \cap Throughout(s)
    BY <1>1, <2>1
  <2>5. Complete(s)
    BY DEF Fits
  <2> HIDE DEF v
  <2>. QED
    BY <1>1, <2>2, <2>3, <2>4, <2>5 DEF Complete, v
<1>5a. Listing(s)' /\ Single(s)'
  BY <1>1 DEF Fits, Listing, Single
<1>5. SlugLoaded(s)'
  BY <1>1 DEF Fits, SlugLoaded
<1>6. Renamed(s)'
  BY <1>1, <1>2 DEF Fits, Renamed
<1>7. ShownFits(s)'
  <2>1. ASSUME Player(s), NEW t \in Teams, SeesTeam(Ever(s), v.user, t)
        PROVE  SeesTeam(Ever(s)', v.user, t)
    BY <1>2, <2>1 DEF SeesTeam
  <2>2. ASSUME Player(s), NEW c \in Characters, Sees(Ever(s), v.user, c)
        PROVE  Sees(Ever(s)', v.user, c)
    BY <1>2, <2>2 DEF Sees, SeesTeam
  <2>3. ShownFits(s) /\ Listing(s)
    BY DEF Fits
  <2>. QED
    BY <1>1, <2>1, <2>2, <2>3 DEF ShownFits, Listing, Player
<1>8. HiddenFits(s)'
  <2>1. ASSUME Player(s), NEW t \in Teams, SeesTeam(Throughout(s)', v.user, t)
        PROVE  SeesTeam(Throughout(s), v.user, t)
    BY <1>2, <2>1 DEF SeesTeam
  <2>2. ASSUME Player(s), NEW c \in Characters, Sees(Throughout(s)', v.user, c)
        PROVE  Sees(Throughout(s), v.user, c)
    BY <1>2, <2>2 DEF Sees, SeesTeam
  <2>. QED
    BY <1>1, <2>1, <2>2 DEF Fits, HiddenFits
<1>9. WrittenFits(s)'
  <2> SUFFICES ASSUME pc'[s] \in {"patched", "answered"}, Player(s)',
                      NEW c \in view'[s].char
               PROVE  <<c, view'[s].user>> \in Ever(s)'
    BY DEF WrittenFits
  <2>1. pc[s] \in {"patched", "answered"} /\ Player(s) /\ c \in view[s].char
    BY <1>1 DEF Player
  <2>2. <<c, view[s].user>> \in Ever(s)
    BY <2>1 DEF Fits, WrittenFits
  <2>. QED
    BY <1>1, <1>2, <2>2
<1>10. MembershipFits(s)'
  <2>1. ASSUME NEW f \in Membership(s)
        PROVE  /\ f \in Ever(s) => f \in Ever(s)'
               /\ f \in Throughout(s)' => f \in Throughout(s)
    <3>1. PICK c \in v.char, t \in v.team : f = <<c, t>>
      BY <2>1 DEF Membership
    <3>. QED
      BY <1>1, <1>2, <3>1
  <2>2. MembershipFits(s) /\ Membership(s)' = Membership(s)
    BY <1>1 DEF Fits, Membership
  <2>. QED
    BY <1>1, <2>1, <2>2 DEF MembershipFits
<1>11. AnswerFits(s)'
  BY <1>1 DEF Fits, Keeps, AnswerFits
<1>. QED
  BY <1>3, <1>4, <1>5, <1>5a, <1>6, <1>7, <1>8, <1>9, <1>10, <1>11 DEF Fits

(* A read changes no fact, and Notice notes every change.                  *)
LEMMA ReadKeeps ==
  ASSUME Base, NEW s \in Sessions, NEW from, NEW to, NEW v, Read(s, from, to, v)
  PROVE  /\ pc[s] = from /\ pc'[s] = to /\ view'[s] = v
         /\ Facts' = Facts /\ changed' = changed
         /\ Ever(s)' = Ever(s) /\ Throughout(s)' = Throughout(s)
         /\ \A r \in Sessions \ {s} : Keeps(r)
BY DEF Base, TypeOK, Read, Goto, Facts, Ever, Throughout, Keeps

LEMMA NoticeKeeps ==
  ASSUME Base, NEW s \in Sessions, Notice(s), NEW r \in Sessions \ {s},
         pc[r] # "idle", pc'[r] = pc[r], view'[r] = view[r]
  PROVE  Keeps(r)
<1>1. changed'[r] = changed[r] \cup (Difference \cap Relevant(r))
  BY DEF Notice
<1>. QED
  BY <1>1 DEF Keeps, Ever, Throughout, Difference

LEMMA IdleFits ==
  ASSUME NEW s \in Sessions, pc'[s] = "idle" PROVE Fits(s)'
BY DEF Fits, Loaded, Complete, SlugLoaded, Renamed, Listing, Single, ShownFits, HiddenFits,
       WrittenFits, MembershipFits, AnswerFits

-----------------------------------------------------------------------------
(* The request's own steps.                                                *)

(* A decision that only answers: what matters afterwards.                  *)
LEMMA LoadTeamFits ==
  ASSUME Base, NEW s \in Sessions, LoadTeam(s) PROVE Fits(s)'
<1>a. PICK u \in Users, t \in teams :
          \E v : /\ v = [NoView EXCEPT !.user = u, !.team = {t}, !.facts = MembersOf({t})]
                 /\ Read(s, "idle", "team", v)
  BY DEF LoadTeam
<1>1. PICK v :
        /\ v = [NoView EXCEPT !.user = u, !.team = {t}, !.facts = MembersOf({t})]
        /\ Read(s, "idle", "team", v)
  BY <1>a
<1>2. v.user = u /\ v.team = {t} /\ v.facts = MembersOf({t}) /\ v.char = {}
  BY <1>1 DEF NoView
<1>3. /\ pc'[s] = "team" /\ view'[s] = v
      /\ Ever(s)' = Ever(s) /\ Throughout(s)' = Throughout(s)
  BY <1>1, ReadKeeps
<1>4. MembersOf({t}) \subseteq Ever(s)
  BY DEF MembersOf, Ever, Facts
<1>5. (Characters \X {t}) \cap Throughout(s) \subseteq MembersOf({t})
  <2>1. ASSUME NEW c \in Characters, <<c, t>> \in Throughout(s)
        PROVE  <<c, t>> \in MembersOf({t})
    BY <2>1, Kinds DEF Base, TypeOK, Throughout, MembersOf
  <2>. QED
    BY <2>1
<1>5a. MembersOf({t}) \subseteq Characters \X {t}
  BY DEF Base, TypeOK, MembersOf
<1>6. Loaded(s)' /\ Complete(s)'
  BY <1>2, <1>3, <1>4, <1>5, <1>5a DEF Loaded, Complete
<1>7. Single(s)'
  BY <1>2, <1>3 DEF Single
<1>. QED
  BY <1>3, <1>6, <1>7
     DEF Fits, SlugLoaded, Renamed, Listing, ShownFits, HiddenFits, WrittenFits,
         MembershipFits, AnswerFits

LEMMA DecideTeamFits ==
  ASSUME Base, NEW s \in Sessions, Fits(s),
         RequireTeamVisible(s) \/ HideTeam(s) \/ PatchTeam(s)
  PROVE  Fits(s)'
<1>1. PICK to \in {"team seen", "team hidden", "team patched"} :
        /\ Read(s, "team", to, Settled(s))
        /\ to = "team hidden" =>
             \A t \in view[s].team : ~SeesTeam(Facts, view[s].user, t)
        /\ to # "team hidden" =>
             \/ view[s].user = Admin
             \/ \E t \in view[s].team : SeesTeam(Facts, view[s].user, t)
  BY DEF RequireTeamVisible, HideTeam, PatchTeam
<1>2. /\ pc[s] = "team" /\ pc'[s] = to /\ Ever(s)' = Ever(s)
      /\ Throughout(s)' = Throughout(s)
      /\ view'[s].user = view[s].user /\ view'[s].char = view[s].char
      /\ view'[s].team = view[s].team
  <2>1. /\ pc[s] = "team" /\ pc'[s] = to /\ view'[s] = Settled(s)
        /\ Ever(s)' = Ever(s) /\ Throughout(s)' = Throughout(s)
    BY <1>1, ReadKeeps
  <2>. QED
    BY <2>1, SettledType DEF Base
<1>3. Single(s)'
  BY <1>2 DEF Fits, Single
<1>4. ShownFits(s)'
  <2>1. ASSUME NEW t \in view[s].team, SeesTeam(Facts, view[s].user, t)
        PROVE  SeesTeam(Ever(s), view[s].user, t)
    BY <2>1 DEF SeesTeam, Ever
  <2>. QED
    BY <1>1, <1>2, <2>1 DEF ShownFits, Player, Fits, Single
<1>5. HiddenFits(s)'
  <2>1. ASSUME NEW t \in view[s].team, SeesTeam(Throughout(s), view[s].user, t)
        PROVE  SeesTeam(Facts, view[s].user, t)
    BY <2>1 DEF SeesTeam, Throughout
  <2>. QED
    BY <1>1, <1>2, <2>1 DEF HiddenFits
<1>. QED
  BY <1>2, <1>3, <1>4, <1>5
     DEF Fits, Loaded, Complete, SlugLoaded, Renamed, Listing, WrittenFits,
         MembershipFits, AnswerFits

LEMMA IllustrationFits ==
  ASSUME Base, NEW s \in Sessions, Fits(s), PatchIllustration(s)
  PROVE  Fits(s)'
<1>1. /\ pc[s] = "team seen" /\ pc'[s] = "team patched" /\ view'[s] = view[s]
      /\ Ever(s)' = Ever(s)
  BY ReadKeeps DEF PatchIllustration
<1>2. ShownFits(s)' /\ Single(s)'
  BY <1>1 DEF Fits, ShownFits, Single, Player
<1>. QED
  BY <1>1, <1>2
     DEF Fits, Loaded, Complete, SlugLoaded, Renamed, Listing, HiddenFits,
         WrittenFits, MembershipFits, AnswerFits

LEMMA LoadMemberFits ==
  ASSUME Base, NEW s \in Sessions, Fits(s), LoadMember(s)
  PROVE  Fits(s)'
<1>a. PICK c \in Characters :
          \E v : /\ v = [view[s] EXCEPT !.char = {c}]
                 /\ Read(s, "team", "member", v)
  BY DEF LoadMember
<1>1. PICK v :
        /\ v = [view[s] EXCEPT !.char = {c}]
        /\ Read(s, "team", "member", v)
  BY <1>a
<1>2. /\ pc[s] = "team" /\ pc'[s] = "member" /\ view'[s] = v
      /\ Ever(s)' = Ever(s) /\ Throughout(s)' = Throughout(s)
  BY <1>1, ReadKeeps
<1>3. /\ v.user = view[s].user /\ v.slug = view[s].slug /\ v.team = view[s].team
      /\ v.facts = view[s].facts /\ v.char = {c}
  BY <1>1, ViewFields DEF Base, View
<1>4. Loaded(s)'
  <2>1. /\ view[s].facts \subseteq Characters \X view[s].team
        /\ view[s].facts \cap Relevant(s) \subseteq Ever(s)
    BY <1>2 DEF Fits, Loaded
  <2>2. view[s].team \subseteq Teams
    BY ViewFields DEF Base
  <2>3. Characters \X view[s].team \subseteq Relevant(s)
    BY <2>2 DEF Relevant
  <2>. QED
    BY <1>2, <1>3, <2>1, <2>3 DEF Loaded
<1>5. Complete(s)' /\ Single(s)'
  BY <1>2, <1>3 DEF Fits, Complete, Single
<1>. QED
  BY <1>2, <1>4, <1>5
     DEF Fits, SlugLoaded, Renamed, Listing, ShownFits, HiddenFits, WrittenFits,
         MembershipFits, AnswerFits

(* Membership is known from what was loaded, or was changed just now.      *)
LEMMA MemberFits ==
  ASSUME Base, TypeOK', NEW s \in Sessions, Fits(s),
         AlreadyMember(s) \/ AddMember(s) \/ NotMember(s) \/ RemoveMember(s)
  PROVE  Fits(s)'
<1>1. PICK to \in {"added", "removed"} :
        /\ Goto(s, "member", to, Settled(s))
        /\ to = "added" <=> AlreadyMember(s) \/ AddMember(s)
        /\ to = "removed" <=> NotMember(s) \/ RemoveMember(s)
  BY DEF AlreadyMember, AddMember, NotMember, RemoveMember, Read, Goto, Base, TypeOK
<1>2. /\ pc[s] = "member" /\ pc'[s] = to
      /\ view'[s].char = view[s].char /\ view'[s].team = view[s].team
      /\ Membership(s)' = Membership(s)
  BY <1>1, SettledType DEF Base, TypeOK, Goto, Membership
<1>3. \A f \in Membership(s) :
        /\ f \in view[s].facts => f \in Ever(s)
        /\ f \in Throughout(s) => f \in view[s].facts
        /\ f \in Characters \X Teams
  <2>1. Membership(s) \subseteq Relevant(s) /\ Membership(s) \subseteq Characters \X view[s].team
        /\ Membership(s) \subseteq Characters \X Teams
    BY ViewFields DEF Base, Membership, Relevant
  <2>. QED
    BY <1>2, <2>1 DEF Fits, Loaded, Complete
<1>4. MembershipFits(s)'
  <2>1. CASE AlreadyMember(s)
    <3>1. Ever(s)' = Ever(s) /\ to = "added"
      BY <1>1, <2>1, ReadKeeps DEF AlreadyMember
    <3>. QED
      BY <1>2, <1>3, <2>1, <3>1 DEF AlreadyMember, MembershipFits
  <2>2. CASE NotMember(s)
    <3>1. Throughout(s)' = Throughout(s) /\ to = "removed"
      BY <1>1, <2>2, ReadKeeps DEF NotMember
    <3>. QED
      BY <1>2, <1>3, <2>2, <3>1 DEF NotMember, MembershipFits
  <2>3. CASE AddMember(s)
    <3>1. to = "added" /\ Membership(s) \subseteq members'
      BY <1>1, <2>3 DEF AddMember
    <3>. QED
      BY <1>2, <3>1 DEF MembershipFits, Ever, Facts
  <2>4. CASE RemoveMember(s)
    <3>1. to = "removed" /\ members' = members \ Membership(s)
      BY <1>1, <2>4 DEF RemoveMember
    <3>2. ASSUME NEW f \in Membership(s) PROVE f \notin Facts'
      <4>1. PICK c \in Characters, t \in Teams : f = <<c, t>>
        BY <1>3, <3>2
      <4>. QED
        BY <3>1, <3>2, <4>1, KindsAfter
    <3>. QED
      BY <1>2, <3>1, <3>2 DEF MembershipFits, Throughout
  <2>. QED
    BY <2>1, <2>2, <2>3, <2>4
<1>5. Single(s)'
  BY <1>2 DEF Fits, Single
<1>. QED
  BY <1>2, <1>4, <1>5
     DEF Fits, Loaded, Complete, SlugLoaded, Renamed, Listing, ShownFits,
         HiddenFits, WrittenFits, AnswerFits

(* A listing is what one SELECT has found.                                 *)
LEMMA ListFits ==
  ASSUME Base, NEW s \in Sessions, ListTeams(s) \/ ListCharacters(s)
  PROVE  Fits(s)'
<1> DEFINE T(u) == {t \in teams : u = Admin \/ SeesTeam(Facts, u, t)}
           C(u) == {c \in Characters : u = Admin \/ Sees(Facts, u, c)}
<1>b. PICK u \in Users, to \in {"teams", "listed"} : \E page :
        /\ List(s, to, u, page)
        /\ to = "teams" => page \in Pages(T(u))
        /\ to = "listed" => page \in Pages(C(u))
  BY DEF ListTeams, ListCharacters
<1>a. PICK page : /\ List(s, to, u, page)
                  /\ to = "teams" => page \in Pages(T(u))
                  /\ to = "listed" => page \in Pages(C(u))
  BY <1>b
<1> HIDE DEF T, C
<1>1. /\ to = "teams" => page.rows \subseteq T(u)
      /\ to = "listed" => /\ page.rows \subseteq C(u)
                          /\ page.partial \/ page.rows = C(u)
  BY <1>a DEF Pages
<1> DEFINE S == page.rows
           v == [NoView EXCEPT !.user = u, !.answer = S, !.partial = page.partial]
<1>2. /\ v.user = u /\ v.answer = S /\ v.team = {} /\ v.char = {}
      /\ v.partial = page.partial
  BY DEF NoView
<1>3. Read(s, "idle", to, v)
  BY <1>a DEF List
<1> USE DEF T, C
<1> HIDE DEF v
<1>4. /\ pc'[s] = to /\ view'[s] = v
      /\ Ever(s)' = Ever(s) /\ Throughout(s)' = Throughout(s)
  BY <1>3, ReadKeeps
<1>5. Listing(s)' /\ Single(s)'
  BY <1>1, <1>2, <1>4 DEF Listing, Single, Base, TypeOK
<1>6. ShownFits(s)'
  <2>1. ASSUME NEW t, SeesTeam(Facts, u, t) PROVE SeesTeam(Ever(s), u, t)
    BY <2>1 DEF SeesTeam, Ever
  <2>2. ASSUME NEW c, Sees(Facts, u, c) PROVE Sees(Ever(s), u, c)
    BY <2>2 DEF Sees, SeesTeam, Ever
  <2>. QED
    BY <1>1, <1>2, <1>4, <2>1, <2>2 DEF ShownFits, Player
<1>7. HiddenFits(s)'
  <2>1. ASSUME NEW c, Sees(Throughout(s), u, c) PROVE Sees(Facts, u, c)
    BY <2>1 DEF Sees, SeesTeam, Throughout
  <2>. QED
    BY <1>1, <1>2, <1>4, <2>1 DEF HiddenFits
<1>. QED
  BY <1>4, <1>5, <1>6, <1>7
     DEF Fits, Loaded, Complete, SlugLoaded, Renamed, WrittenFits,
         MembershipFits, AnswerFits

LEMMA LoadCharacterFits ==
  ASSUME Base, NEW s \in Sessions, LoadCharacter(s)
  PROVE  Fits(s)'
<1>a. PICK u \in Users, c \in Characters :
          \E v : /\ v = [NoView EXCEPT !.user = u, !.char = {c}, !.slug = slug[c],
                                       !.facts = RowOf(c)]
                 /\ Read(s, "idle", "character", v)
  BY DEF LoadCharacter
<1>1. PICK v :
        /\ v = [NoView EXCEPT !.user = u, !.char = {c}, !.slug = slug[c],
                              !.facts = RowOf(c)]
        /\ Read(s, "idle", "character", v)
  BY <1>a
<1>2. /\ v.user = u /\ v.char = {c} /\ v.slug = slug[c] /\ v.facts = RowOf(c)
      /\ v.team = {}
  BY <1>1 DEF NoView
<1>3. /\ pc'[s] = "character" /\ view'[s] = v
      /\ Ever(s)' = Ever(s) /\ Throughout(s)' = Throughout(s)
  BY <1>1, ReadKeeps
<1>4. Loaded(s)'
  <2>1. RowOf(c) \subseteq Facts
    BY DEF RowOf, Facts
  <2>. QED
    BY <1>2, <1>3, <2>1 DEF Loaded, Ever
<1>5. Complete(s)'
  <2>1. <<c, u>> \in Throughout(s) => <<c, u>> \in RowOf(c)
    BY Kinds DEF Base, Throughout, RowOf
  <2>. QED
    BY <1>2, <1>3, <2>1 DEF Complete
<1>6. SlugLoaded(s)'
  <2>1. \A d \in Characters, g \in Slugs : <<d, g>> \in RowOf(c) => g = slug[c]
    BY RowType, KindAssumption DEF Base, RowOf
  <2>. QED
    BY <1>2, <1>3, <2>1 DEF SlugLoaded
<1>7. Single(s)'
  BY <1>2, <1>3 DEF Single
<1>. QED
  BY <1>3, <1>4, <1>5, <1>6, <1>7
     DEF Fits, Renamed, Listing, ShownFits, HiddenFits, WrittenFits,
         MembershipFits, AnswerFits

LEMMA LoadTeamsFits ==
  ASSUME Base, NEW s \in Sessions, Fits(s), LoadTeams(s)
  PROVE  Fits(s)'
<1> DEFINE rows == UNION {TeamsOf(c) : c \in view[s].char}
           F == view[s].facts \cup rows
           v == [view[s] EXCEPT !.facts = F]
<1>1. Read(s, "character", "sheet", v)
  BY DEF LoadTeams
<1>2. /\ v.user = view[s].user /\ v.slug = view[s].slug /\ v.team = view[s].team
      /\ v.facts = F /\ v.char = view[s].char
  BY ViewFields DEF Base, View
<1>3. rows \subseteq members /\ \A c \in view[s].char : \A t : <<c, t>> \in members => <<c, t>> \in rows
  BY DEF TeamsOf
<1> HIDE DEF v, rows
<1>4. /\ pc[s] = "character" /\ pc'[s] = "sheet" /\ view'[s] = v
      /\ Ever(s)' = Ever(s) /\ Throughout(s)' = Throughout(s)
  BY <1>1, ReadKeeps
<1>5. Loaded(s)'
  <2>1. rows \subseteq Ever(s)
    BY <1>3 DEF Ever, Facts
  <2>2. view[s].facts \cap Relevant(s) \subseteq Ever(s)
    BY <1>4 DEF Fits, Loaded
  <2>3. Relevant(s)' = Relevant(s)
    BY <1>2, <1>4 DEF Relevant
  <2>. QED
    BY <1>2, <1>4, <2>1, <2>2, <2>3 DEF Loaded
<1>6. Complete(s)'
  <2>1. ASSUME NEW c \in view[s].char, NEW t \in Teams, <<c, t>> \in Throughout(s)
        PROVE  <<c, t>> \in F
    <3>1. c \in Characters
      BY ViewFields DEF Base
    <3>2. <<c, t>> \in members
      BY <2>1, <3>1, Kinds DEF Base, Throughout
    <3>. QED
      BY <1>3, <3>2
  <2>2. Player(s) => \A c \in view[s].char : <<c, view[s].user>> \in Throughout(s)
                                  => <<c, view[s].user>> \in view[s].facts
    BY <1>4 DEF Fits, Complete
  <2>3. (view[s].char \X Teams) \cap Throughout(s) \subseteq F
    BY <2>1
  <2>. QED
    BY <1>2, <1>4, <2>2, <2>3 DEF Complete, Player
<1>7. SlugLoaded(s)'
  <2>1. ASSUME NEW c \in Characters, NEW g \in Slugs PROVE <<c, g>> \notin rows
    BY <1>3, KindAssumption DEF Base, TypeOK
  <2>2. \A c \in Characters, g \in Slugs : <<c, g>> \in view[s].facts => g = view[s].slug
    BY <1>4 DEF Fits, SlugLoaded
  <2>. QED
    BY <1>2, <1>4, <2>1, <2>2 DEF SlugLoaded
<1>8. Single(s)'
  BY <1>2, <1>4 DEF Fits, Single
<1>. QED
  BY <1>4, <1>5, <1>6, <1>7, <1>8
     DEF Fits, Renamed, Listing, ShownFits, HiddenFits, WrittenFits,
         MembershipFits, AnswerFits

LEMMA DecideCharacterFits ==
  ASSUME Base, NEW s \in Sessions, Fits(s),
         RequireCharacterVisible(s) \/ HideCharacter(s)
  PROVE  Fits(s)'
<1>1. PICK to \in {"seen", "hidden"} :
        /\ Read(s, "sheet", to, Settled(s))
        /\ to = "seen" => view[s].user = Admin \/ CanView(s)
        /\ to = "hidden" => ~CanView(s)
  BY DEF RequireCharacterVisible, HideCharacter
<1>2. /\ pc[s] = "sheet" /\ pc'[s] = to /\ Ever(s)' = Ever(s)
      /\ Throughout(s)' = Throughout(s)
      /\ view'[s].user = view[s].user /\ view'[s].char = view[s].char
      /\ view'[s].team = view[s].team
  <2>1. /\ pc[s] = "sheet" /\ pc'[s] = to /\ view'[s] = Settled(s)
        /\ Ever(s)' = Ever(s) /\ Throughout(s)' = Throughout(s)
    BY <1>1, ReadKeeps
  <2>. QED
    BY <2>1, SettledType DEF Base
<1>3. view[s].char \subseteq Characters
  BY ViewFields DEF Base
<1>4. Player(s) => \A c \in view[s].char :
        /\ <<c, view[s].user>> \in view[s].facts => <<c, view[s].user>> \in Ever(s)
        /\ \A t \in Teams : <<c, t>> \in view[s].facts => <<c, t>> \in Ever(s)
  BY <1>2, <1>3 DEF Fits, Loaded, Relevant, Player
<1>5. ShownFits(s)'
  <2>1. ASSUME Player(s), to = "seen", CanView(s), NEW c \in view[s].char
        PROVE  Sees(Ever(s), view[s].user, c)
    <3>1. \/ <<c, view[s].user>> \in view[s].facts
          \/ \E t \in Teams : <<c, t>> \in view[s].facts /\ SeesTeam(Facts, view[s].user, t)
      BY <1>2, <2>1 DEF CanView, Fits, Single
    <3>. QED
      BY <1>4, <2>1, <3>1 DEF Sees, SeesTeam, Ever
  <2>. QED
    BY <1>1, <1>2, <2>1 DEF ShownFits, Player
<1>6. HiddenFits(s)'
  <2>1. ASSUME Player(s), to = "hidden", NEW c \in view[s].char,
               Sees(Throughout(s), view[s].user, c)
        PROVE  CanView(s)
    <3>1. CASE <<c, view[s].user>> \in Throughout(s)
      BY <1>2, <2>1, <3>1 DEF Fits, Complete, CanView
    <3>2. ASSUME NEW t \in Teams, <<c, t>> \in Throughout(s),
                 SeesTeam(Throughout(s), view[s].user, t)
          PROVE  CanView(s)
      <4>1. <<c, t>> \in view[s].facts
        BY <1>2, <2>1, <3>2 DEF Fits, Complete
      <4>2. SeesTeam(Facts, view[s].user, t)
        BY <3>2 DEF SeesTeam, Throughout
      <4>. QED
        BY <4>1, <4>2 DEF CanView
    <3>. QED
      BY <2>1, <3>1, <3>2 DEF Sees
  <2>. QED
    BY <1>1, <1>2, <2>1 DEF HiddenFits, Player
<1>7. Single(s)'
  BY <1>2 DEF Fits, Single
<1>. QED
  BY <1>2, <1>5, <1>6, <1>7
     DEF Fits, Loaded, Complete, SlugLoaded, Renamed, Listing, WrittenFits,
         MembershipFits, AnswerFits

LEMMA CheckSlugFits ==
  ASSUME Base, NEW s \in Sessions, Fits(s), CheckSlug(s)
  PROVE  Fits(s)'
<1>a. PICK g \in Slugs :
          \E v : /\ v = [view[s] EXCEPT !.slug = g]
                 /\ Read(s, "sheet", "slug", v)
  BY DEF CheckSlug
<1>1. PICK v :
        /\ v = [view[s] EXCEPT !.slug = g]
        /\ Read(s, "sheet", "slug", v)
  BY <1>a
<1>2. /\ v.user = view[s].user /\ v.slug = g /\ v.team = view[s].team
      /\ v.facts = view[s].facts /\ v.char = view[s].char
  BY <1>1, ViewFields DEF Base, View
<1>3. /\ pc[s] = "sheet" /\ pc'[s] = "slug" /\ view'[s] = v /\ Ever(s)' = Ever(s)
  BY <1>1, ReadKeeps
<1>4. Loaded(s)'
  <2>1. ASSUME NEW f \in view[s].facts \cap Relevant(s)' PROVE f \in Ever(s)
    <3>1. f \in Relevant(s) \/ f \in view[s].char \X {g}
      BY <1>2, <1>3, <2>1 DEF Relevant
    <3>2. ASSUME f \in view[s].char \X {g} PROVE f \in Relevant(s)
      <4>1. PICK c \in view[s].char : f = <<c, g>>
        BY <3>2
      <4>2. c \in Characters /\ <<c, g>> \in view[s].facts
        BY <2>1, <4>1, ViewFields DEF Base
      <4>3. g = view[s].slug
        BY <1>3, <4>2 DEF Fits, SlugLoaded
      <4>. QED
        BY <4>1, <4>3 DEF Relevant
    <3>3. f \in Relevant(s)
      BY <3>1, <3>2
    <3>. QED
      BY <1>3, <2>1, <3>3 DEF Fits, Loaded
  <2>. QED
    BY <1>2, <1>3, <2>1 DEF Loaded
<1>5. Single(s)'
  BY <1>2, <1>3 DEF Fits, Single
<1>. QED
  BY <1>3, <1>4, <1>5
     DEF Fits, Complete, SlugLoaded, Renamed, Listing, ShownFits, HiddenFits,
         WrittenFits, MembershipFits, AnswerFits

(* The owner that allowed the write was loaded; what is written is the new *)
(* slug, and what is not written is noted where it has changed.            *)
LEMMA PatchFits ==
  ASSUME Base, TypeOK', NEW s \in Sessions, Fits(s), PatchCharacter(s)
  PROVE  Fits(s)'
<1>1. PICK from \in {"sheet", "slug"} : Goto(s, from, "patched", Settled(s))
  BY DEF PatchCharacter
<1>2. /\ pc[s] = from /\ pc'[s] = "patched" /\ changed'[s] = changed[s]
      /\ view'[s].user = view[s].user /\ view'[s].char = view[s].char
      /\ view'[s].team = view[s].team /\ view'[s].slug = view[s].slug
  BY <1>1, SettledType DEF Base, TypeOK, Goto, PatchCharacter, Notice
<1>3. PICK d \in view[s].char, o \in Users \cup {None}, l \in Users \cup {None}, g \in Slugs :
        /\ {<<d, l>>, <<d, g>>} \subseteq view[s].facts
        /\ view[s].user # Admin => o = l
        /\ owner' = [owner EXCEPT ![d] = Written(@, l, o)]
        /\ slug' = [slug EXCEPT ![d] = Written(@, g, view[s].slug)]
  BY DEF PatchCharacter
<1>4. /\ d \in Characters /\ \A c \in view[s].char : c = d
      /\ view[s].user \in Users \cup {None} /\ view[s].slug \in Slugs
  BY <1>2, ViewFields DEF Base, Fits, Single, Slugged
<1>5. /\ slug'[d] = IF view[s].slug = g THEN slug[d] ELSE view[s].slug
      /\ owner'[d] = IF o = l THEN owner[d] ELSE o
  BY <1>3, <1>4 DEF Base, TypeOK, Written
<1>6. \A c \in view[s].char :
        /\ Player(s) /\ <<c, view[s].user>> \in view[s].facts => <<c, view[s].user>> \in Ever(s)
        /\ <<c, view[s].slug>> \in view[s].facts => <<c, view[s].slug>> \in Ever(s)
  BY <1>2, <1>4 DEF Fits, Loaded, Relevant, Player
<1>7. Renamed(s)'
  <2>1. <<d, view[s].slug>> \in Ever(s)'
    <3>1. CASE view[s].slug = g /\ <<d, g>> \in changed[s]
      BY <1>2, <3>1 DEF Ever
    <3>2. CASE view[s].slug = g /\ <<d, g>> \notin changed[s]
      <4>1. <<d, g>> \in Facts
        BY <1>3, <1>4, <1>6, <3>2 DEF Ever
      <4>2. slug'[d] = g
        BY <1>4, <1>5, <3>2, <4>1, Kinds DEF Base
      <4>. QED
        BY <1>4, <3>2, <4>2, KindsAfter DEF Ever
    <3>3. CASE view[s].slug # g
      BY <1>4, <1>5, <3>3, KindsAfter DEF Ever
    <3>. QED
      BY <3>1, <3>2, <3>3
  <2>. QED
    BY <1>2, <1>4, <2>1 DEF Renamed
<1>8. WrittenFits(s)'
  <2>1. ASSUME view[s].user # Admin PROVE <<d, view[s].user>> \in Ever(s)'
    <3>1. <<d, view[s].user>> \in Ever(s)
      BY <1>4, <1>6, <2>1 DEF PatchCharacter, MayWrite, Player
    <3>2. CASE <<d, view[s].user>> \in changed[s]
      BY <1>2, <3>2 DEF Ever
    <3>3. CASE <<d, view[s].user>> \in Facts
      <4>1. owner'[d] = view[s].user
        BY <1>3, <1>4, <1>5, <2>1, <3>3, Kinds DEF Base
      <4>. QED
        BY <1>4, <4>1, KindsAfter DEF Ever
    <3>. QED
      BY <3>1, <3>2, <3>3 DEF Ever
  <2>. QED
    BY <1>2, <1>4, <2>1 DEF WrittenFits, Player
<1>9. Single(s)'
  BY <1>2 DEF Fits, Single
<1>. QED
  BY <1>2, <1>7, <1>8, <1>9
     DEF Fits, Loaded, Complete, SlugLoaded, Listing, ShownFits, HiddenFits,
         MembershipFits, AnswerFits

(* Whoever is found by the slug is the character, or the slug has been     *)
(* changed since: slugs are unique.                                        *)
LEMMA ReloadFits ==
  ASSUME Base, UniqueSlugs(slug), NEW s \in Sessions, Fits(s), Reload(s)
  PROVE  Fits(s)'
<1>a. PICK c \in Characters :
          \E v : /\ slug[c] = view[s].slug
                 /\ v = [view[s] EXCEPT !.answer = {c}]
                 /\ Read(s, "patched", "answered", v)
  BY DEF Reload
<1>1. PICK v :
        /\ slug[c] = view[s].slug
        /\ v = [view[s] EXCEPT !.answer = {c}]
        /\ Read(s, "patched", "answered", v)
  BY <1>a
<1>2. /\ v.user = view[s].user /\ v.slug = view[s].slug /\ v.team = view[s].team
      /\ v.answer = {c} /\ v.char = view[s].char
  BY <1>1, ViewFields DEF Base, View
<1>3. /\ pc[s] = "patched" /\ pc'[s] = "answered" /\ view'[s] = v
      /\ Ever(s)' = Ever(s) /\ changed' = changed
  BY <1>1, ReadKeeps
<1>4. AnswerFits(s)'
  <2>1. ASSUME NEW d \in view[s].char \ {c}
        PROVE  <<d, view[s].slug>> \in changed[s]
    <3>1. d \in Characters /\ view[s].slug \in Slugs
      BY <1>3, ViewFields DEF Base, Slugged
    <3>2. slug[d] # view[s].slug
      BY <1>1, <2>1, <3>1 DEF UniqueSlugs, Base, TypeOK
    <3>3. <<d, view[s].slug>> \in Ever(s)
      BY <1>3 DEF Fits, Renamed
    <3>. QED
      BY <3>1, <3>2, <3>3, Kinds DEF Base, Ever
  <2>. QED
    BY <1>2, <1>3, <2>1 DEF AnswerFits
<1>5. WrittenFits(s)'
  BY <1>2, <1>3 DEF Fits, WrittenFits, Player
<1>6. Single(s)'
  BY <1>2, <1>3 DEF Fits, Single
<1>. QED
  BY <1>3, <1>4, <1>5, <1>6
     DEF Fits, Loaded, Complete, SlugLoaded, Renamed, Listing, ShownFits,
         HiddenFits, MembershipFits

-----------------------------------------------------------------------------
(* Every step.                                                             *)

(* What a step of session s leaves to the others.                          *)
LEMMA OthersFit ==
  ASSUME Base, NEW s \in Sessions, NEW r \in Sessions \ {s}, Fits(r),
         pc'[r] = pc[r], view'[r] = view[r],
         Notice(s) \/ (UNCHANGED <<members, owner, slug>> /\ changed'[r] = changed[r])
  PROVE  Fits(r)'
<1>1. CASE pc[r] = "idle"
  BY <1>1, IdleFits
<1>2. CASE pc[r] # "idle" /\ Notice(s)
  BY <1>2, NoticeKeeps, KeepsFits
<1>3. CASE UNCHANGED <<members, owner, slug>> /\ changed'[r] = changed[r]
  <2>1. Keeps(r)
    BY <1>3 DEF Keeps, Ever, Throughout, Facts
  <2>. QED
    BY <2>1, KeepsFits
<1>. QED
  BY <1>1, <1>2, <1>3

LEMMA Step ==
  ASSUME IInv, Base', Next PROVE IInv'
<1> USE DEF IInv
<1>1. PICK s \in Sessions :
        \/ CreateTeam(s) \/ LoadTeam(s)
        \/ RequireTeamVisible(s) \/ HideTeam(s) \/ PatchIllustration(s)
        \/ PatchTeam(s) \/ LoadMember(s) \/ AlreadyMember(s) \/ AddMember(s)
        \/ NotMember(s) \/ RemoveMember(s) \/ ListTeams(s)
        \/ ListCharacters(s) \/ LoadCharacter(s) \/ LoadTeams(s)
        \/ RequireCharacterVisible(s) \/ HideCharacter(s) \/ CheckSlug(s)
        \/ PatchCharacter(s) \/ Reload(s) \/ Close(s)
  BY DEF Next
<1>2. Fits(s)'
  <2>1. CASE CreateTeam(s) \/ Close(s)
    <3>1. pc'[s] = "idle"
      BY <2>1 DEF CreateTeam, Close, Base, TypeOK
    <3>. QED
      BY <3>1, IdleFits
  <2>2. Fits(s) /\ TypeOK'
    BY DEF Base
  <2>. QED
    BY <1>1, <2>1, <2>2, LoadTeamFits, DecideTeamFits, IllustrationFits,
       LoadMemberFits, MemberFits, ListFits, LoadCharacterFits, LoadTeamsFits,
       DecideCharacterFits, CheckSlugFits, PatchFits, ReloadFits
<1>3. \A r \in Sessions \ {s} :
        /\ pc'[r] = pc[r] /\ view'[r] = view[r]
        /\ Notice(s) \/ (UNCHANGED <<members, owner, slug>> /\ changed'[r] = changed[r])
  <2>1. CASE CreateTeam(s)
    BY <2>1 DEF CreateTeam
  <2>2. CASE Close(s)
    BY <2>2 DEF Close, Base, TypeOK
  <2>3. CASE AddMember(s) \/ RemoveMember(s) \/ PatchCharacter(s)
    BY <2>3 DEF AddMember, RemoveMember, PatchCharacter, Goto, Base, TypeOK
  <2>4. CASE \E from, to, v : Read(s, from, to, v)
    BY <2>4 DEF Read, Goto, Base, TypeOK
  <2>5. CASE \/ LoadTeam(s) \/ LoadMember(s) \/ ListTeams(s) \/ ListCharacters(s)
             \/ LoadCharacter(s) \/ LoadTeams(s) \/ CheckSlug(s) \/ Reload(s)
    BY <2>4, <2>5 DEF LoadTeam, LoadMember, ListTeams, ListCharacters, List,
                      LoadCharacter, LoadTeams, CheckSlug, Reload
  <2>6. CASE \/ RequireTeamVisible(s) \/ HideTeam(s) \/ PatchIllustration(s)
             \/ PatchTeam(s) \/ AlreadyMember(s) \/ NotMember(s)
             \/ RequireCharacterVisible(s) \/ HideCharacter(s)
    BY <2>4, <2>6 DEF RequireTeamVisible, HideTeam, PatchIllustration, PatchTeam,
                      AlreadyMember, NotMember, RequireCharacterVisible, HideCharacter
  <2>. QED
    BY <1>1, <2>1, <2>2, <2>3, <2>5, <2>6
<1>4. ASSUME NEW r \in Sessions PROVE Fits(r)'
  BY <1>2, <1>3, OthersFit
<1>5. UniqueSlugs(slug)'
  <2>1. CASE PatchCharacter(s)
    BY <2>1 DEF PatchCharacter
  <2>2. CASE ~PatchCharacter(s)
    <3>1. slug' = slug
      BY <1>1, <2>2 DEF CreateTeam, LoadTeam, RequireTeamVisible, HideTeam,
         PatchIllustration, PatchTeam, LoadMember, AlreadyMember, AddMember,
         NotMember, RemoveMember, ListTeams, ListCharacters, List, LoadCharacter,
         LoadTeams, RequireCharacterVisible, HideCharacter, CheckSlug, Reload,
         Close, Read
    <3>. QED
      BY <3>1
  <2>. QED
    BY <2>1, <2>2
<1>. QED
  BY <1>4, <1>5

(***************************************************************************)
(* What requests have loaded and asked for fits the history, whoever       *)
(* changes memberships, owners and slugs meanwhile.                        *)
(***************************************************************************)
THEOREM LoadedAndComplete == Spec => []IInv
<1>1. Init => IInv
  <2>1. Init => Base
    BY InitType DEF Base, Init, Slugged
  <2>2. ASSUME Init, NEW s \in Sessions PROVE Fits(s)
    BY <2>2 DEF Init, Fits, Loaded, Complete, SlugLoaded, Renamed, Listing, Single,
       ShownFits, HiddenFits, WrittenFits, MembershipFits, AnswerFits
  <2>. QED
    BY <2>1, <2>2 DEF IInv, Init
<1>2. IInv /\ [Next]_vars => IInv'
  <2>1. ASSUME IInv, [Next]_vars PROVE Base'
    BY <2>1, BaseStep DEF IInv
  <2>2. CASE UNCHANGED vars
    <3>1. ASSUME IInv, NEW s \in Sessions PROVE Fits(s)'
      <4>1. Keeps(s)
        BY <2>2 DEF vars, Keeps, Ever, Throughout, Facts
      <4>. QED
        BY <3>1, <4>1, KeepsFits DEF IInv
    <3>2. slug' = slug
      BY <2>2 DEF vars
    <3>. QED
      BY <2>1, <2>2, <3>1, <3>2 DEF IInv
  <2>. QED
    BY <2>1, <2>2, Step
<1>. QED
  BY <1>1, <1>2, PTL DEF Spec

(* What a player is shown was visible at some moments of the request.      *)
THEOREM ShownVisible == Spec => []ShownWasVisible
<1>1. IInv => ShownWasVisible
  BY DEF IInv, Fits, ShownWasVisible
<1>. QED
  BY <1>1, LoadedAndComplete, PTL

(* What is withheld, and not for want of room on a page, was not visible   *)
(* by what held all through the request.                                   *)
THEOREM HiddenInvisible == Spec => []HiddenWasInvisible
<1>1. IInv => HiddenWasInvisible
  BY DEF IInv, Fits, HiddenWasInvisible
<1>. QED
  BY <1>1, LoadedAndComplete, PTL

(* A player who has written to a character has owned it meanwhile.         *)
THEOREM OwnersWrite == Spec => []WrittenByOwner
<1>1. IInv => WrittenByOwner
  BY DEF IInv, Fits, WrittenByOwner
<1>. QED
  BY <1>1, LoadedAndComplete, PTL

(* Adding and removing members are answered by the truth.                  *)
THEOREM MembershipAnswered == Spec => []AnsweredMembership
<1>1. IInv => AnsweredMembership
  BY DEF IInv, Fits, AnsweredMembership
<1>. QED
  BY <1>1, LoadedAndComplete, PTL

(* PATCH answers with its character, unless it is renamed meanwhile.       *)
THEOREM PatchAnswered == Spec => []PatchedIsAnswered
<1>1. IInv => PatchedIsAnswered
  BY DEF IInv, Fits, PatchedIsAnswered
<1>. QED
  BY <1>1, LoadedAndComplete, PTL
=============================================================================
