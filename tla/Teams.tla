-------------------------------- MODULE Teams --------------------------------
(***************************************************************************)
(* Who sees and who writes what: src/app/routers/teams.py, and of          *)
(* src/app/routers/characters.py the listing, the reading and the PATCH of *)
(* a character, which may rename it and give it to another owner.          *)
(*                                                                         *)
(* A player sees the teams the player's characters are in, and the         *)
(* characters in these.  A request looks this up in several SELECTs and    *)
(* answers, or writes, after the last: memberships, owners and slugs       *)
(* change in between.  What is decided on are facts: <<c, t>>, character c *)
(* is in team t; <<c, u>>, user u owns it; <<c, g>>, g is its slug.        *)
(*                                                                         *)
(* Characters are created in Notes and users in Accounts; neither goes     *)
(* away.  Names, pictures and the rest of the plain columns are left out.  *)
(***************************************************************************)
EXTENDS Naturals, FiniteSets

CONSTANTS
  Sessions,    \* requests in flight at the same time
  Users,
  Admin,       \* the user with the role of administrator
  Characters,
  Teams,       \* uuids of teams
  Slugs,
  MaxChanges,  \* bound: relevant facts changed during a request
  None         \* no owner

ASSUME UserAssumption == Admin \in Users /\ None \notin Users
ASSUME KindAssumption == /\ (Users \cup {None}) \cap Teams = {}
                         /\ (Users \cup {None} \cup Teams) \cap Slugs = {}
ASSUME BoundAssumption == MaxChanges \in Nat

VARIABLES
  members,  \* the character_teams rows
  owner,    \* owner_user_id of each character
  slug,     \* slug of each character
  teams,    \* the teams rows that have been created
  changed,  \* history: the relevant facts others have changed during each request
  pc,       \* how far each session's request has come
  view      \* whose request it is and what it has loaded

vars == <<members, owner, slug, teams, changed, pc, view>>

Facts == members \cup {<<c, owner[c]>> : c \in Characters}
                 \cup {<<c, slug[c]>> : c \in Characters}

Fact == Characters \X (Teams \cup Users \cup {None} \cup Slugs)

(* facts are the rows in the identity map; char and team what the request  *)
(* names, slug the character's, answer the characters or teams it returns; *)
(* partial says of a listing that there may be more of them.               *)
NoView == [user |-> None, char |-> {}, team |-> {}, slug |-> None,
           facts |-> {}, answer |-> {}, partial |-> FALSE]
View == [user : Users \cup {None}, char : SUBSET Characters,
         team : SUBSET Teams, slug : Slugs \cup {None},
         facts : SUBSET Fact, answer : SUBSET (Characters \cup Teams),
         partial : BOOLEAN]

TypeOK ==
  /\ members \subseteq Characters \X Teams
  /\ owner \in [Characters -> Users \cup {None}]
  /\ slug \in [Characters -> Slugs]
  /\ teams \subseteq Teams
  /\ changed \in [Sessions -> SUBSET Fact]
  /\ pc \in [Sessions -> {"idle", "team", "team seen", "team hidden", "team patched",
                          "member", "added", "removed", "teams", "character",
                          "sheet", "seen", "hidden", "listed", "slug", "patched",
                          "answered"}]
  /\ view \in [Sessions -> View]

(* Mutant: the column is not UNIQUE.                                       *)
AnySlugs(f) == DOMAIN f = Characters

UniqueSlugs(f) == \A c, d \in Characters : f[c] = f[d] => c = d

Init == /\ members = {}
        /\ owner \in [Characters -> Users \cup {None}]
        /\ slug \in {f \in [Characters -> Slugs] : UniqueSlugs(f)}
        /\ teams = {}
        /\ changed = [s \in Sessions |-> {}]
        /\ pc = [s \in Sessions |-> "idle"]
        /\ view = [s \in Sessions |-> NoView]

-----------------------------------------------------------------------------
(* What a set of facts lets a user see.                                    *)

SeesTeam(F, u, t) == \E c \in Characters : {<<c, t>>, <<c, u>>} \subseteq F

Sees(F, u, c) ==
  \/ <<c, u>> \in F
  \/ \E t \in Teams : <<c, t>> \in F /\ SeesTeam(F, u, t)

MembersOf(S) == {m \in members : m[2] \in S}
TeamsOf(c) == {m \in members : m[1] = c}
RowOf(c) == {<<c, owner[c]>>, <<c, slug[c]>>}

-----------------------------------------------------------------------------
Goto(s, from, to, read) ==
  /\ pc[s] = from
  /\ pc' = [pc EXCEPT ![s] = to]
  /\ view' = [view EXCEPT ![s] = read]

Read(s, from, to, read) ==
  /\ Goto(s, from, to, read)
  /\ UNCHANGED <<members, owner, slug, teams, changed>>

(* Decided: what was loaded only goes into the answer.                     *)
Settled(s) == [view[s] EXCEPT !.facts = {}]

(* The facts a request may depend on: what makes a team or a character     *)
(* visible to a player, the members of the team an administrator changes,  *)
(* and the slug of the character that is named.                            *)
Relevant(s) ==
  (Characters \X (IF view[s].user = Admin THEN view[s].team
                  ELSE Teams \cup {view[s].user}))
    \cup (view[s].char \X {view[s].slug})

Difference == (Facts \ Facts') \cup (Facts' \ Facts)

(* What a commit of session s changes is noted for the other requests.     *)
Notice(s) ==
  /\ changed' = [r \in Sessions |->
                   IF r = s \/ pc[r] = "idle" THEN changed[r]
                   ELSE changed[r] \cup (Difference \cap Relevant(r))]
  /\ \A r \in Sessions : Cardinality(changed'[r]) <= MaxChanges

(* The answer, an error, a lost connection or the end of the process.      *)
Close(s) ==
  /\ pc[s] # "idle"
  /\ pc' = [pc EXCEPT ![s] = "idle"]
  /\ view' = [view EXCEPT ![s] = NoView]
  /\ changed' = [changed EXCEPT ![s] = {}]
  /\ UNCHANGED <<members, owner, slug, teams>>

-----------------------------------------------------------------------------
(* Teams.                                                                  *)

(* The uuid is the client's or a new one.                                  *)
CreateTeam(s) ==
  /\ pc[s] = "idle"
  /\ \E t \in Teams \ teams : teams' = teams \cup {t}
  /\ UNCHANGED <<members, owner, slug, changed, pc, view>>

(* get_team_or_404, with the selectinload of its characters: the row that  *)
(* is read before them never goes away.                                    *)
LoadTeam(s) ==
  \E u \in Users, t \in teams :
    Read(s, "idle", "team",
         [NoView EXCEPT !.user = u, !.team = {t}, !.facts = MembersOf({t})])

(* Mutant: the owner of the characters is not compared.                    *)
RequireTeamAnyOwner(s) ==
  /\ \/ view[s].user = Admin
     \/ MembersOf(view[s].team) # {}
  /\ Read(s, "team", "team seen", Settled(s))

(* require_team_visible, answered by one SELECT.                           *)
RequireTeamVisible(s) ==
  /\ \/ view[s].user = Admin
     \/ \E t \in view[s].team : SeesTeam(Facts, view[s].user, t)
  /\ Read(s, "team", "team seen", Settled(s))

HideTeam(s) ==
  /\ view[s].user # Admin
  /\ ~\E t \in view[s].team : SeesTeam(Facts, view[s].user, t)
  /\ Read(s, "team", "team hidden", Settled(s))

(* patch_team_illustration: an UPDATE of the row by its uuid.              *)
PatchIllustration(s) == Read(s, "team seen", "team patched", view[s])

(* patch_team.                                                             *)
PatchTeam(s) ==
  view[s].user = Admin /\ Read(s, "team", "team patched", Settled(s))

(* The character to add or to remove.                                      *)
LoadMember(s) ==
  /\ view[s].user = Admin
  /\ \E c \in Characters :
       Read(s, "team", "member", [view[s] EXCEPT !.char = {c}])

Membership(s) == view[s].char \X view[s].team

(* Mutant: a team that has members is complete.                            *)
AlreadyComplete(s) ==
  /\ view[s].facts # {}
  /\ Read(s, "member", "added", Settled(s))

(* add_character_to_team, when the team was loaded with the character.     *)
AlreadyMember(s) ==
  /\ Membership(s) \subseteq view[s].facts
  /\ Read(s, "member", "added", Settled(s))

(* Otherwise an INSERT, which the primary key refuses when another request *)
(* has added the character since.                                          *)
AddMember(s) ==
  /\ Goto(s, "member", "added", Settled(s))
  /\ Membership(s) \cap (view[s].facts \cup members) = {}
  /\ members' = members \cup Membership(s)
  /\ UNCHANGED <<owner, slug, teams>>
  /\ Notice(s)

(* remove_character_from_team, when the character was not loaded with it.  *)
NotMember(s) ==
  /\ Membership(s) \cap view[s].facts = {}
  /\ Read(s, "member", "removed", Settled(s))

(* Otherwise a DELETE, which fails when no row is left to delete.          *)
RemoveMember(s) ==
  /\ Goto(s, "member", "removed", Settled(s))
  /\ Membership(s) \subseteq view[s].facts \cap members
  /\ members' = members \ Membership(s)
  /\ UNCHANGED <<owner, slug, teams>>
  /\ Notice(s)

(* A page of these rows, by the client's limit and offset.  Which rows are *)
(* on it is a matter of their order, which is not modelled; a page that    *)
(* starts at the first row and is not full has them all.                   *)
Pages(rows) == {[rows |-> page, partial |-> TRUE] : page \in SUBSET rows}
               \cup {[rows |-> rows, partial |-> FALSE]}

List(s, to, u, page) ==
  Read(s, "idle", to, [NoView EXCEPT !.user = u, !.answer = page.rows,
                                     !.partial = page.partial])

(* list_teams: one SELECT decides, and their characters follow.            *)
ListTeams(s) ==
  \E u \in Users :
    \E page \in Pages({t \in teams : u = Admin \/ SeesTeam(Facts, u, t)}) :
      List(s, "teams", u, page)

-----------------------------------------------------------------------------
(* Characters.                                                             *)

(* list_characters: one SELECT decides.                                    *)
ListCharacters(s) ==
  \E u \in Users :
    \E page \in Pages({c \in Characters : u = Admin \/ Sees(Facts, u, c)}) :
      List(s, "listed", u, page)

(* get_character_or_404, and the selectinload of its teams.                *)
LoadCharacter(s) ==
  \E u \in Users, c \in Characters :
    Read(s, "idle", "character",
         [NoView EXCEPT !.user = u, !.char = {c}, !.slug = slug[c],
                        !.facts = RowOf(c)])

LoadTeams(s) ==
  Read(s, "character", "sheet",
       [view[s] EXCEPT !.facts = @ \cup UNION {TeamsOf(c) : c \in view[s].char}])

(* Mutant: the teams are forgotten.                                        *)
CanViewOwn(s) ==
  \/ view[s].user = Admin
  \/ \E c \in view[s].char : <<c, view[s].user>> \in view[s].facts

(* can_view_character: the owner and the teams as they were loaded, the    *)
(* user's characters in these teams as they are.                           *)
CanView(s) ==
  \E c \in view[s].char :
    \/ <<c, view[s].user>> \in view[s].facts
    \/ \E t \in Teams : <<c, t>> \in view[s].facts /\ SeesTeam(Facts, view[s].user, t)

RequireCharacterVisible(s) ==
  /\ view[s].user = Admin \/ CanView(s)
  /\ Read(s, "sheet", "seen", Settled(s))

HideCharacter(s) ==
  /\ view[s].user # Admin /\ ~CanView(s)
  /\ Read(s, "sheet", "hidden", Settled(s))

(* Mutant: whoever sees the character may write to it.                     *)
MayWriteSeen(s) == CanView(s)

(* patch_character, once require_character_write has passed the loaded     *)
(* owner: a new slug must not be another character's.                      *)
MayWrite(s) ==
  \/ view[s].user = Admin
  \/ \E c \in view[s].char : <<c, view[s].user>> \in view[s].facts

CheckSlug(s) ==
  /\ MayWrite(s)
  /\ \E g \in Slugs :
       /\ \A c \in Characters \ view[s].char : slug[c] # g
       /\ Read(s, "sheet", "slug", [view[s] EXCEPT !.slug = g])

(* The ORM writes what differs from the row as it was loaded.              *)
Written(old, loaded, new) == IF new = loaded THEN old ELSE new

(* The commit, which UNIQUE refuses when the slug has been taken since.    *)
(* Only an administrator gives the character to another owner, who must    *)
(* exist (ensure_owner_exists).                                            *)
PatchCharacter(s) ==
  /\ MayWrite(s)
  /\ \E from \in {"sheet", "slug"} : Goto(s, from, "patched", Settled(s))
  /\ \E c \in view[s].char, o, l \in Users \cup {None}, g \in Slugs :
       /\ {<<c, l>>, <<c, g>>} \subseteq view[s].facts
       /\ view[s].user # Admin => o = l
       /\ owner' = [owner EXCEPT ![c] = Written(@, l, o)]
       /\ slug' = [slug EXCEPT ![c] = Written(@, g, view[s].slug)]
  /\ UniqueSlugs(slug')
  /\ UNCHANGED <<members, teams>>
  /\ Notice(s)

(* get_character_or_404 by the slug the character has been given.          *)
Reload(s) ==
  \E c \in Characters :
    /\ slug[c] = view[s].slug
    /\ Read(s, "patched", "answered", [view[s] EXCEPT !.answer = {c}])

Next == \E s \in Sessions :
          \/ CreateTeam(s) \/ LoadTeam(s)
          \/ RequireTeamVisible(s) \/ HideTeam(s) \/ PatchIllustration(s)
          \/ PatchTeam(s) \/ LoadMember(s) \/ AlreadyMember(s) \/ AddMember(s)
          \/ NotMember(s) \/ RemoveMember(s) \/ ListTeams(s)
          \/ ListCharacters(s) \/ LoadCharacter(s) \/ LoadTeams(s)
          \/ RequireCharacterVisible(s) \/ HideCharacter(s) \/ CheckSlug(s)
          \/ PatchCharacter(s) \/ Reload(s) \/ Close(s)

Spec == Init /\ [][Next]_vars

-----------------------------------------------------------------------------
(* Properties.  While a request runs, the facts that have been true at     *)
(* some moment of it are at most Ever, those that have been true at all of *)
(* its moments at least Throughout.                                        *)

Ever(s) == Facts \cup changed[s]
Throughout(s) == Facts \ changed[s]

Player(s) == view[s].user # Admin

(***************************************************************************)
(* What a player is shown, or may write to, the facts allowed, each at     *)
(* some moment of the request: a team, one of a listing, a character, a    *)
(* sheet to write.                                                         *)
(***************************************************************************)
ShownFits(s) ==
  Player(s) =>
    /\ pc[s] \in {"team seen", "team patched"} =>
         \A t \in view[s].team : SeesTeam(Ever(s), view[s].user, t)
    /\ pc[s] = "teams" =>
         \A t \in view[s].answer : SeesTeam(Ever(s), view[s].user, t)
    /\ pc[s] = "seen" => \A c \in view[s].char : Sees(Ever(s), view[s].user, c)
    /\ pc[s] = "listed" => \A c \in view[s].answer : Sees(Ever(s), view[s].user, c)
ShownWasVisible == \A s \in Sessions : ShownFits(s)

(***************************************************************************)
(* What is withheld from a player was not visible by facts that hold all   *)
(* through the request: whoever reads a character by its slug, and whoever *)
(* lists them up to a page that is not full, sees it when nothing it       *)
(* depends on is changed meanwhile.                                        *)
(***************************************************************************)
HiddenFits(s) ==
  Player(s) =>
    /\ pc[s] = "team hidden" =>
         \A t \in view[s].team : ~SeesTeam(Throughout(s), view[s].user, t)
    /\ pc[s] = "hidden" =>
         \A c \in view[s].char : ~Sees(Throughout(s), view[s].user, c)
    /\ pc[s] = "listed" /\ ~view[s].partial =>
         \A c \in Characters \ view[s].answer : ~Sees(Throughout(s), view[s].user, c)
HiddenWasInvisible == \A s \in Sessions : HiddenFits(s)

(* Only its owner and the administrator write to a character: who has      *)
(* written as a player has owned it at some moment of the request.         *)
WrittenFits(s) ==
  pc[s] \in {"patched", "answered"} /\ Player(s) =>
    \A c \in view[s].char : <<c, view[s].user>> \in Ever(s)
WrittenByOwner == \A s \in Sessions : WrittenFits(s)

(* Adding and removing are answered by the truth, also when nothing had to *)
(* be written: a member is one, unless another request removes it.         *)
MembershipFits(s) ==
  /\ pc[s] = "added" => Membership(s) \subseteq Ever(s)
  /\ pc[s] = "removed" => Membership(s) \cap Throughout(s) = {}
AnsweredMembership == \A s \in Sessions : MembershipFits(s)

(* PATCH answers with the character it has patched, found by its slug,     *)
(* unless another request renames it before it is read again.              *)
AnswerFits(s) ==
  pc[s] = "answered" =>
    \A c \in view[s].char \ view[s].answer : <<c, view[s].slug>> \in changed[s]
PatchedIsAnswered == \A s \in Sessions : AnswerFits(s)
=============================================================================
